# TLA+ for the elftoolchain

This directory holds a formal model of the core of the BSD elftoolchain: TLA+
modules translated from the C sources, TLC configurations that check them on
small instances, and theorems checked by the TLA+ proof system. File and line
references (`elf_update.c:1090`) are to the sources of the libraries and programs
in `src/`.

1. The system
2. The modules and the code
3. The runs
4. Fairness, deadlock and termination
5. What is proved
6. Where the code and its documentation disagree, and other observations
7. What is left out
8. The plan

## 1. The system

The elftoolchain is a set of C libraries and the programs built on them. All of
them are single threaded; what makes them hard is not parallelism but *state
that several calls share*: a descriptor that an application uses in any order, a
table another structure points into, a loop that edits what it walks, a file that
is replaced while it is mapped, and calls that fail half way. The programs are
pipelines of passes over one large structure, where a later pass believes numbers
an earlier one computed.

### libelf

A descriptor (`struct _Elf`, `_libelf.h`) stands for a file, a member of an
`ar` archive or a buffer. It is created by `elf_begin`/`elf_memory`, edited by
dozens of accessors, laid out and written by `elf_update`, and ended by `elf_end`.

| Part | State | Operations | What is hard | What makes it correct |
|---|---|---|---|---|
| layout and image building (`elf_update.c`) | section list, descriptors of each section, header offsets, the list of extents, the buffer | `elf_flagelf`, `elf_newscn`, `elf_newdata`, `elf_getdata`, `gelf_update_shdr`, `elf_update` | two passes, the first computing sizes and offsets and the second filling them; a layout chosen by the library or by the application; sections that were never loaded | extents sorted and disjoint; the image holds every section at its place; laying out twice changes nothing |
| descriptor lifetime (`elf_begin.c`, `elf_memory.c`, `libelf_open.c`, `libelf_ar*.c`, `elf_end.c`, `libelf_allocate.c`) | activation counts, the tree of archives and members, what each descriptor has allocated | open, open again, open a member, `elf_end` | an archive outlives its last activation while members are open; `elf_end` climbs the tree; opens that fail half way | nothing the application holds is freed; nothing is freed twice; nothing unreachable stays allocated |
| archive traversal (`elf_next.c`, `elf_rand.c`, `libelf_ar.c`, `libelf_ar_util.c`) | one cursor per archive, shared by all open members | `elf_begin` on an archive, `elf_next`, `elf_rand`, `elf_end` | calls on several open members interleave on one cursor; padding, names stored with the contents, truncation | each `elf_begin` opens what was asked for last; the documented loop visits every member once and ends |
| header and tables (`libelf_ehdr.c`, `libelf_phdr.c`, `elf_scn.c`, `libelf_extended.c`, `elf_update.c:1050-1190`) | the header, section list, program headers, counts, flags that say what was loaded | `elf_getehdr`, `elf_newscn`, `elf_getscn`, `elf_newphdr`, `elf_setshstrndx`, `elf_update`, `elf_rawfile` | tables are read on demand, in any order with additions; counts that do not fit go to section 0; allocations, `write` and `mmap` fail | a committed file is complete |
| class-independent accessors (`gelf_*.c`) | the records of one table, and the extended index of symbols | `gelf_get*`, `gelf_update_*` | narrowing field by field, packed fields, a record half updated when a value does not fit | behaves as an array of class-independent records |

### libelftc, libdwarf, libpe

| Part | State | Operations | What is hard | What makes it correct |
|---|---|---|---|---|
| string tables (`elftc_string_table.c`) | a growing pool of bytes, a hash table of offsets into it | insert, remove, look up, make the image | the image compacts the pool in place while entries still point into it | strings have distinct offsets that change only while the image is made |
| demangler (`libelftc_dem_gnu3.c`) | the text so far, the list of substitution candidates, the qualifiers being read | one function per rule of the grammar | substitutions are numbers of earlier parts of the name, entered at the right moments only | what is printed for a mangled declaration is the declaration |
| debugging entries (`libdwarf_die.c`, `_attr.c`, `_abbrev.c`, `_info.c`) | a tree under construction; bytes; units loaded one at a time | link, add attributes, generate in two passes; load, walk, follow references | references are written before their target has an offset; a consumer follows one into a unit not loaded yet | the tree and its references come back |
| line numbers (`libdwarf_lineno.c`), call frames (`libdwarf_frame.c`) | a byte-code machine each | collect, encode, run | opcodes chosen by arithmetic on differences; remembered and restored rules | the rows and rules that went in come out |
| `addr2line` | caches of units and functions over many queries | a query | iteration over units resumes where the last query stopped; inlined functions nest | the innermost function and its callers |
| libpe | headers, sections and buffers, each perhaps not read yet, flags of what is dirty | open, edit, `pe_update` | sections laid out by address while old contents wait in the file in another order | an update that succeeds writes what was asked and what was there |

### ld

`ld` reads a command line, makes a list of input files, loads their symbols,
extracts the archive members that resolve undefined ones, reads relocations,
lays out the output, applies relocations and writes it with libelf.

| Part | State | Operations | What is hard | What makes it correct |
|---|---|---|---|---|
| symbol resolution (`ld_symbols.c:600-1010`) | the hash table of symbols, chains of symbols resolved to others, default versions | add a symbol of an object, of the script, of `-u`, of the linker | three kinds of definition, two kinds of file, versions with default names; relocations hold pointers that later follow the chain | unique keys; chains that end in the table; the strongest definition wins and stays |
| reading the input (`ld_options.c`, `ld_file.c`, `ld_symbols.c`, `ld_input.c`, `ld_main.c`) | list of files with group levels, members extracted, section groups, the global state that survives a restart | parse, load, extract, search a group again, restart for another architecture | a loop that goes backward in the list it walks; state that the restart does not reset | groups are searched until nothing new; the link ends; one copy of each section group |
| layout (`ld_layout.c`, `ld_output.c`, `ld_dynamic.c`, `ld_exp.c`) | the script, input sections, output sections with addresses and offsets | match, place, number, make segments | orphans; the location counter; a table of headers sized before the layout is known | a segment maps what it should; pieces of the file do not overlap; the first matching pattern takes a section |
| relocations (`ld_reloc.c`, `amd64.c`) | per symbol: GOT and PLT entries, copy, dynamic relocations | scan, finalise, process | one pass reserves, another fills, and the symbol may change in between | every reference reaches the one definition, through what the dynamic linker does |
| versions (`ld_symver.c`, `ld_hash.c`, `ld_symbols.c`) | version nodes, indices, dynamic symbols, hash table | read a script and libraries, write the version sections | indices are per object; a later link reads what an earlier wrote | a program is bound at run time to what it was linked with |
| exception frames (`ld_ehframe.c`) | entries of each section, relocations, CIEs kept | cut out, drop, move, make the search table | relocation offsets are moved with what they apply to, twice | each function kept has its frame, which leads where it led |

### elfcopy, strip, mcs; ar, ranlib

`elfcopy` (`create_elf`) makes a new object from an old one in a dozen passes:
sections chosen and created, symbols filtered and renumbered, contents copied or
rewritten, layout resynchronised with segments, headers updated. Around it
`create_file` replaces a file through a temporary one, `archive.c` does so for
each member of an archive, and S-records, Intel Hex, raw bytes and PE are other
formats in and out. Hard: every number that names a section or symbol changes;
the file is replaced in several system calls; one structure serves all files.

`ar` and `ranlib` read the members of an archive into a list, edit it, and write
the archive in place with a new symbol table (`write.c`). The script language of
`ar -M` (`acpyacc.y`) keeps a working copy and a target. Hard: the offsets in the
symbol table are computed before the members are written; a position may be one
of the members replaced; copies and writes fail half way.

### How the parts meet

* Every program reaches files through libelf. `ar` uses libarchive to read and
  write archives and libelf for the symbols of a member; `ld` walks the members
  of an archive with the interface modelled in `ArWalk` and jumps with `elf_rand`
  to the member the index names.
* An archive and its members are libelf descriptors linked by `e_parent` and a
  count of children (`ElfHandles`), and they share the cursor (`ArWalk`).
* `elf_update` is split in two modules: `ElfLayout` is what it computes and writes
  into the buffer, `ElfObject` what its commit does to the descriptor and the file.
* The operators of `LdSymbols` are the symbol table of `ld`; `LdResolve` applies
  them to any sequence of symbols, `LdLoad` to the objects of a command line, and
  `LdVersions` to the links of a library and a program.
* `ElfCopyFile` extends `ElfCopy`: the file and archive around the object made.
* `addr2line` uses the rows of `DwarfLines`, and the entries of a unit.

## 2. The modules and the code

`PROJECT.json` maps every definition that models code to its lines. Each module
begins with a comment saying what it abstracts.

| Module | Code | Variables | Actions |
|---|---|---|---|
| `ElfLayout` | `elf_update.c`, with the application calls that change what it reads | the object (`cmd`, `rawsize`, `fd`, `layout`, `eh`, `phnum`, `scn`), the running call (`pc`, its locals `f`, the extents `ext`, the buffer `img`), the last result | application calls (`FlagLayout`, `FdDone`, `NewPhdr`, `SetEhdr`, `NewScn`, `SetShdr`, `FlagScn`, `GetData`, `NewData`, `SetData`); `BeginUpdate`; one action per iteration of the loops of `_libelf_resync_elf` (`Resync*`) and of `_libelf_write_elf` (`Write*`); `Commit` |
| `ElfHandles` | `elf_begin`, `elf_memory`, `_libelf_open_object`, `_libelf_ar_open_member`, `elf_end`, `_libelf_release_elf` | `elf` (the fields of each structure), `res` (what is allocated), `own` (activations the application has), `cur` (where `elf_end` is) | one per way of opening, `Reopen`, `GetArhdr`, `GetArsym`, `Load`, `EndBegin`, and the loop of `elf_end` as `EndDefer`, `EndRelease` |
| `ArWalk` | `_libelf_ar_open`, `_libelf_ar_open_member`, `elf_next`, `elf_rand`; the loop of `size.c:592` and of the manual pages | `ar`, the cursor `next`, `open`, `last`, and the history `want`; the loop's `pc`, `cur`, `seen` | `Begin`, `NextOf`, `End`, `Rand`; `LoopBegin`, `LoopNext`, `LoopEnd` |
| `ArScan` | abstract: a sequence visited once, to its end | `todo`, `seen`, `done` | `Visit`, `Finish` |
| `ElfObject` | header, section and program header tables on demand, extended counts, the commit of `elf_update` | `disk`, `img` (what `e_rawfile` holds), the descriptor `e`, `step`, `stop` | each accessor atomically, with every allocation that may fail; the commit a system call at a time (`Truncate`, `Unmap`, `WriteOut`, `Finish`, `GiveUp`) |
| `GelfRecords` | `gelf_{sym,rel,rela,dyn,move,cap,syminfo,symshndx}.c` | `class`, `kind`, `data`, `index`, `result` | one per `gelf_get*` and `gelf_update_*` function |
| `RecordArray` | abstract: an array of class-independent records | `table`, `result` | `Get`, `Update` |
| `StringTable` | `elftc_string_table.c` | `pool`, `len`, `flag`, `size`, `entries`, `loop` | `Insert`, `RemoveString`, `MakeImage`, and the compaction loop (`CompactDrop`, `CompactKeep`, `CompactEnd`) |
| `StringMap` | abstract: strings to distinct offsets that move only while the image is made | `at`, `busy` | `Insert`, `Remove`, `Move`, `Turn` |
| `Demangler` | `libelftc_dem_gnu3.c` | (a record threaded through the rules) | one operator per `read_*` function |
| `DwarfDies`, `DwarfTree` | producer of `.debug_info` and `.debug_abbrev`, and their consumer | the DIEs under construction `dies`; the bytes `file`; the units loaded `cus`, `current`; the entry `held` | `NewDie`, `NewLooseDie`, `LinkDie`, `AddReference`, `AddConst`, `Transform` in two passes; `NextUnit`, `FirstDie`, `Child`, `Sibling`, `FollowRef` |
| `DwarfLines`, `DwarfFrames` | producer and consumer of line programs and of `.debug_frame` | `entries` and the registers `machine`; `fdes` | `StartSequence`, `AddLine`, `EndOfSequence`; `NewFde`, `AddInst`; the consuming machines are operators |
| `Addr2Line` | `addr2line.c` | the caches `units` (with their functions) and `culist`, where iteration stands `next` | `Translate`, a query |
| `PeFile` | `libpe` | the contents of the file `file`, the descriptor `pe`, counts, the last `result` | one per call, from `pe_newscn` to `pe_update`, and `create_pe` of `elfcopy` |
| `LdSymbols` | operators on the symbol table of `ld` | (a record) | |
| `LdResolve` | any sequence of symbols | `ld`, `stage` | `Extern`, `Variable`, `Regular`, `Dso`, `Internal` |
| `LdLoad` | command line, files, groups, archives, section groups, restart | `cmd`, `pc`, `ld`, `from`, `files`, `inputs`, `sg`, `ls`, `arch`, `at`, `pass` | `ParseItem`, `BeginResolve`, `LoadFile`, `LoadArchive`, `Extract`, `EndOfPass`, `SearchAgain` and `RunOffList` (the loop stepping backward), `EndOfFiles`, `Restart` |
| `LdLayout` | `ld_layout.c`, `ld_output.c`, `ld_exp.c`, `ld_script.c` | the job `link`, where it stands `at`, the output sections `lay`, the linker state `ls`, `reloff`, `tail`, `phdrs` | `LayoutInputSection` (one section each), `CreateDynamic`, `CalcOffset`, `CalcTail`, `OutputCreate` |
| `LdRelocs` | `ld_reloc.c`, `amd64.c`, parts of `ld_symbols.c` | the kind of `output`, the `phase`, the symbols `sym` and references `refs`, `got`, `rela`, `count`, the dynamic symbols `dynsym`, the dynamic table `dyn`, the `image` | `Scan` (one reference each), `SymbolsScan`, `Finalize`, `Process` |
| `LdVersions` | `ld_symver.c`, `ld_hash.c`, the dynamic symbols | `files` linked so far, the `job` and its `stage`, the symbol `table`, where each came `from`, `verdefs`, `vd`, `dynsyms`, the `sections` written | `StartLink`, `LoadFiles`, `VersionScan`, `CreateDynamicSections`, `WriteFile`; links follow each other |
| `LdEhFrame` | `ld_ehframe.c`, `_discard_reloc` | the job `frameJob`, `framePhase`, `frameAt`, the sections `frames`, `cieList`, the `words` written, the `searchTable` | `LoadFrames`, `ScanFrames`, `PlaceFrames`, `RelocateFrames`, `FinalizeHdr` |
| `ElfCopy` | `sections.c`, `symbols.c`, `segments.c`, `create_elf` | the object read `ein`, the options, `ecp` (struct elfcopy), `pc` | `CreateElf`, `CreateScn`, `CreateScnEnd`, `AdjustAddr`, `CreateSymtab`, `CopyContent`, `UpdateShdr`, `ResyncSections`, `CopyPhdr`, `ElfUpdate`: a step per pass, or per section where passes interleave |
| `ElfCopyFile` | `create_file`, `copy_from_tempfile`, `archive.c` | files to do, the job, `disk`, the archive being made | a step per system call that changes a file; `Crash` anywhere |
| `FlatFormats` | `ascii.c`, `binary.c` | the `image`, the lines `text`, the upper address `page`, where the text was `harmed`, what was `got` | `WriteHead`, `WriteLines`, `WriteEnd`, `Harm`, `StartReading`, `ReadLine`, `EndReading` |
| `ArMembers` | operators: an edit of a member list, the tables, the image written (`write.c`) | (records) | |
| `ArProgram` | `ar` command lines, `ranlib`, `ar -M` scripts, failures | `disk`, `running`, `bsdar`, `v_obj`, `writing`, `rest`, `target`, `tmpac` | `RunAr`, `RunRanlib`, `Write`, `WriteFailsAfter`, `Crash`, and one per script command |
| `ArEditor` | abstract: a script edits a copy and replaces the original by SAVE | `saved`, `work`, `current`, ... | `Direct`, `Begin`, `Choose`, `Edit`, `Save`, `Quit` |
| `MCReaders`, `MCTables`, `MCDwarf`, `MCElfCopy`, `MCLink`, `MCElfLayout`, `SmallLinks`, `SmallMembers`, `SmallNames` | the instances TLC checks. Those of several topics run parts that do not meet side by side: a behaviour is about one `topic`, the variables of the others keep their initial values. `SmallNames` holds declarations and their mangling, the reference for the demangler | | |
| `ElfLayoutProofs`, `ElfHandlesProofs`, `ReaderProofs` (`ArWalk`, `ElfObject`), `TableProofs` (`GelfRecords`, `StringTable`), `ElfCopyFileProofs`, `LdResolveProofs`, `LdLoadProofs`, `ArProgramProofs` | the theorems of section 5 | | |

An operator named `X_Something` just before `X` is `X` with a plausible mistake
in it; nothing uses it. Each was substituted for `X` once to see that the
property it is meant for fails, so the property does depend on that code.

### Abstractions that matter

* **Sizes, not bytes.** `ElfLayout` gives each byte of the image a token saying
  where it came from, so that a wrong copy, a gap that was not filled and a byte
  of the buffer never assigned are different from the right byte. `ArWalk` gives a
  member a size; `ElfObject` a table a number of entries and the entries that were
  written; `LdEhFrame` counts in words. Real constants (52-byte headers, 60-byte
  archive headers, 0xff00 sections) are small numbers with the same order and parity.
* **Widths.** `GelfRecords` scales 32 bits down to a word of 16 values and
  `r_info` to two halves; `DwarfLines` has the ranges of opcodes, `FlatFormats`
  those of a line's address. Elsewhere no arithmetic comes near its width.
* **Atomicity.** A call of a single-threaded library is one step, except where the
  code relies on something *between* two iterations of its loops (`elf_update`,
  `elf_end`, the compaction of a string table, the file list of `ld`) or where
  another process, or a failure, can come between two system calls (the commit of
  `elf_update`, the writes of `ar`, the temporary file of `elfcopy`).
* **Failures.** Allocation, `ftruncate`, `write`, `mmap` may fail where the code
  tests for it. In `ArProgram` a write that fails leaves the members before some
  point; a program that touches memory it freed stops before it writes.
* **References, not offsets.** An FDE, a symbol or an archive member carries the
  number it came from in a field no step reads; properties use it to say that
  what is found under a computed number is the thing meant.

## 3. The runs

Sizes are distinct states on the present models. A run is bounded by what its
cfg gives to the constants; every bound is a guard on actions of the application
(how much it may ask for), never on a step of the code.

| Run (module) | What it explores | Properties | Why the bound is enough |
|---|---|---|---|
| `layout` (`MCElfLayout`, 5 040 000) | a new object, and a file with two sections opened for reading or update and rearranged; a section of three descriptors that touch, overlap or are listed out of order; laid out by the library or at offsets of the application; headers and descriptors with a class, version, byte order, type or size that `elf_update` refuses; written up to twice | `ImageRight` `ExtentsSorted` `ResyncStable` | up to five extents (headers, two sections, the header table) in every order, overlapping, touching or with gaps; a section loaded, one not, one added; three descriptors are the fewest of which a later one can erase an earlier; a fault is put right before another edit, and nothing is edited after the last call or `ELF_C_FDDONE`; the second call sees what the first left |
| `handles` (`ElfHandles`, 641 000) | four descriptors with up to two activations: archives in archives, plain, damaged, from files and from memory | `HeldIsLive` `MemberHasArchive` `NothingKept` | three levels of the tree and one other file: `elf_end` climbs twice; a slot reused. Handles are symmetric: no action tells two apart |
| `archive` (`MCReaders`, 806 000) | the documented loop over sound archives of up to three members; any order of calls over archives of up to two, padded, truncated, with empty or damaged members, or a name that claims to be longer than its member; every order of reading, adding and updating on descriptors of sound and damaged objects, with failures | `OpensWhatWasAsked` `VisitsEachOnce` `FirstCommitComplete` | two open members suffice for one to move the cursor under the other; counts on both sides of the limits where section 0 takes over; two commits |
| `tables` (`MCTables`, 44 000) | seven kinds of table with two records, both classes, values at and just beyond each width; a table of strings, some empty, prefixes or suffixes of others | `ImplementsArray` `ImplementsMap` | a record to change and one to leave alone; strings removed, kept and removed again around each other, in one compaction or several |
| `symbols` (`LdResolve`, 431 000) | every sequence of up to five symbols of one name, plain and versioned, of objects, libraries, script, `-u` and linker | `KeysUnique` `StrongDefinitionWins` `JoinedAtDefinition` | different names never meet, as the table is keyed by name and version; five symbols allow a chain of three joined to another |
| `load` (`SmallLinks`, 102 000) | command lines of up to seven items: two archives that need each other, in and out of a group, a section group in both, `-u`, a shared library, either architecture | `ComdatKeptOnce` `NoFalseConflict` `GroupsSearched` `Progress` | `y.a` must be searched, then `x.a` again, then `y.a` again; within one archive a member resolves an entry already passed over; with the other architecture the first object restarts the reading |
| `arw` (`SmallMembers`, 470 000) | pairs of command lines in all five modes over an archive with long names, duplicates and symbols; scripts of up to three commands and `ranlib` over three archives, where copies and writes fail | `SymtabRight` `OthersKept` `ScriptsEditCopies` | a second program reads what the first wrote, or what a failed one left |
| `dwarf` (`MCDwarf`, 244 000) | every tree of four DIEs with a reference or a constant (in a form of fixed size or as a LEB128 number), linked with another unit; line programs of two sequences; call frames behind those of another object; functions inlined in each other, under every order of queries | `TreeComesBack` `RefsResolve` `LineRight` `UnwindRight` `FunctionRight` | four DIEs have a sibling, a child and a nephew; differences of lines and addresses on both sides of one special opcode and of two; a state remembered, changed and restored |
| `elfcopy` (`MCElfCopy`, 346 000) | four objects (GNU, FreeBSD and LLVM layouts, a program with segments) under 70 command lines, one whose relocations name no section, every way the output can reach its place, a crash anywhere, pairs of archives; a descriptor of libpe; generated declarations, conversion operators among them; flat images, one with a line length of zero, harmed in one place | `RebuiltSymbols` `ReferencesFollow` `SegmentsMap` `NothingLost` `MembersIndependent` `SectionsComeBack` `DemangledIsDeclared` `FormatsComeBack` | every option that changes sections or symbols, alone and with those it meets; two members share the struct; names with two substitutions |
| `link` (`MCLink`, 370 000) | the sections of two objects laid out by a script like the built-in one, for four kinds of output; every two references to two symbols of all kinds; a library linked by a version script and a program linked with it; call frames of two or three objects | `LoadsMap` `PiecesApart` `RefsReach` `BoundAsLinked` `PlacedByFirstMatch` `FramesFollow` | a section of every kind before and behind every other; a reference scanned before and after the one that changes the symbol; a CIE seen before and an FDE cut out on either side of a relocation |
| `elfcopy_remove` (violation) | `elfcopy -R` alone | `SymbolsFollow` | section 6 |
| `relocs_dso` (violation) | a pointer to a datum of a library | `DsoReferencesRelocated` | section 6 |

What the properties say is in the comment before each definition. The ones worth
reading first: `ImageRight` (the file written holds each section at its place and
nothing undefined), `MemberHasArchive` and `NothingKept` (deferred reclamation is
neither early nor lost), `NoFalseConflict` (reading again, in a group or after the
restart of `ld`, starts from a state that is clean enough), `ImplementsMap` (the in-place compaction keeps every
offset distinct while it moves strings), `StrongDefinitionWins` (a relocation's
target does not change under it), `Progress` (the backward-stepping loop of `ld`
ends), `RefsReach` and `BoundAsLinked` (what is linked is what the dynamic linker
finds), `ReferencesFollow` (every number follows what it named), `NothingLost`
(no crash of `elfcopy` loses a file).

Each module also states things no cfg lists: type invariants and invariants the
proofs use; what is proved for every instance and listed in no run
(`LibraryNeverOverlaps`, `FreesOnlyAllocated`, `OrderedPlaced`); weaker forms of the above that hold in the same runs (`LayoutUntouched`,
`ExtendedFindsEmptyList`, `ImageHasNoRemoved`, `ReadsBack`, `ArchiveSearched`,
`ArType`, `OneMemberPerArgument`, `CursorOnHeader`, `OneEntryEach`,
`ChainsEndInTable`, ...); and the properties of section 6, which do not hold.

## 4. Fairness, deadlock and termination

* `MCReaders` assumes weak fairness of the loop's own steps: it is the body of a
  `while` in one thread, which runs on while it is not done. Nothing is assumed of
  the application that calls in any order. `ArScan` has the same fairness, so
  `VisitsEachOnce` includes that the loop ends.
* `Progress` of `LdLoad` needs no fairness (and is proved, section 5). It says that a tuple of six natural
  numbers decreases lexicographically in every step: the restart not yet made,
  the items still to parse, the members not yet extracted, the groups to be
  searched again, the files ahead, and the pass over one index. So no execution
  is infinite, although the loop goes back in its list.
* The other specifications are of libraries whose callers may stop at any time,
  or of passes run to their end; they claim no liveness.
* In `load` deadlock is checked: `LdLoad` has an explicit `Stop` at its ends. The
  other runs have `CHECK_DEADLOCK FALSE`, as their application runs out of its
  bound, has ended every descriptor or loop, or the program is done.

## 5. What is proved

`ElfLayoutProofs` proves, for every size and alignment of the headers, every
object, every bound and every choice of the application, from
`SizesAssumption` (sizes and alignments are natural numbers, alignments of the
file are not zero) and `ObjectsAssumption` (the objects have the types of the C
structures):

| Theorem | States |
|---|---|
| `TypeCorrect` | `Spec => []TypeOK` |
| `ExtentsAlwaysSorted` | `Spec => []ExtentsSorted`: extents are in order and disjoint at every step of every `elf_update` |
| `SizeAlwaysEnd` | `Spec => []SizeIsEnd`: the size of the object is the end of its last extent |
| `LibraryLayoutAccepted` | `Spec => LibraryNeverOverlaps`: the layout the library computes is never refused with ELF_E_LAYOUT |
| `ImageAlwaysRight` | `Spec => []ImageRight`: tables and untouched contents are written exactly; of the descriptors that hold a byte the last one listed decides, in whatever order they are listed; a byte is the fill where nothing holds it or where a descriptor listed later leaves a gap over it (`Erased`), and nowhere else; none is left as `malloc` gave it |
| `OrderedAlwaysPlaced` | `Spec => []OrderedPlaced`: a section whose descriptors end in the order they are listed in loses nothing to the fill |
| `UpdateTwiceIsOnce` | `Spec => ResyncStable`: a second `elf_update(e, ELF_C_NULL)` on an object left alone returns the same size |
| `Invariant` | `Spec => []IndInv`, on which these rest |

The argument. `ExtentsSorted` is not inductive alone: `_libelf_insert_extent`
keeps the list sorted only if it is told the truth about what is unused, and the
size stays the end of the list only because `f.rc` is raised by `Bigger` at each
insertion. `IndInv` adds: the types of the locals; that at each `pc` the loop
indices are in range (`LoopInv`); and `SizeIsEnd`. `InsertExtentCorrect` is the
heart: if the list is sorted and the new extent is unused, then the position
chosen by the code keeps it sorted, whichever of its three cases applies. There is
one lemma for each action, and one for the sequence operators. For
`LibraryLayoutAccepted` the step invariant says that without `ELF_F_LAYOUT` every
extent starts at or after the end of the list, so it is unused.

`ImageAlwaysRight` needs two invariants more. `PlacedInv`: the extent of a section is
where its header says, so the walk over the extents writes each section where a
reader will look for it; it holds because a section is placed once in a call and no
action of the application comes between. `ImgInv`: below the running offset of the
walk every byte of the buffer is right; while a section is written, the gap before
it is filled, and up to the running offset inside it each byte is that of the last
descriptor, of those written, that covers it, or the fill, where a descriptor listed
after it leaves a gap over it (`PartByte`). The fill before a descriptor starts at the end
of the one listed before it, not at the highest end so far (`elf_update.c:816`), so it
may erase: `ImageRight` says exactly what it erases, and `DescriptorsPlaced`
(section 6) that nothing should be. The library places descriptors one after the other
and an application usually does; of such sections `OrderedAlwaysPlaced` says that every byte
is that of the last descriptor which holds it.

`UpdateTwiceIsOnce` rests on `StableInv`. The running size is characterised without
recursion, as the greatest of the ends of the headers and of the sections passed
(`Reached`), and the size of a section as the greatest of the ends of its
descriptors (`Filling`): a set has one greatest element, so two passes that meet the
same ends agree. After a call that returned a size (`FixedAt`) every section is
`Settled`: its alignment is the one the library would choose again, its offset is
the end of what comes before rounded up to it, its size that of its
descriptors, and each of these is where the library would put it again. The second
pass then rewrites every field with the value it has. Under `ELF_F_LAYOUT` no place or
size is rewritten, and what is loaded meanwhile does not enter the size (`Footprint`).

`ElfHandlesProofs` proves, for any finite set of structures, any bound on
activations and any nesting of archives, from `HandlesAssumption` (`None` is not
a structure, and there are finitely many):

| Theorem | States |
|---|---|
| `HeldAlwaysLive` | `Spec => []HeldIsLive`: what the application holds is allocated, with the count the application has to end |
| `MembersKeepArchive` | `Spec => []MemberHasArchive`: an open member has its archive, and the bytes its contents are in |
| `ChildrenAlwaysCounted` | `Spec => []ChildrenCounted`: `e_nchildren` is the number of open members |
| `NothingEverKept` | `Spec => []NothingKept`: what `elf_end` deferred is reclaimed as soon as nothing keeps it |
| `OnlyAllocatedFreed` | `Spec => FreesOnlyAllocated`: nothing is freed that is not allocated, and so nothing twice |
| `HandlesInvariant` | `Spec => []HandlesInv`, on which these rest |

The argument. Each of these is needed for the next: a member keeps its archive
because the archive's count is not zero, the count is right because a released
member was counted, and a member is released once because nothing refers to it
afterwards. `HandlesInv` is their conjunction with what makes it inductive: a
structure that is not allocated is blank (`DeadIsFresh`), so a new descriptor
has no members; the flags say what is allocated (`FlagsTrue`), which is what
`elf_end` frees by; the descriptor `elf_end` is at is allocated and has no
activation (`EndingLive`), and every other one without activations has members
(`KeptHasChildren`), so the walk up the parents stops only where it must.
`ReleaseFacts` is the heart: a descriptor that is released has no members left,
and all that is freed is its own. The counts move with the sets of members by the
theorems on the cardinality of finite sets.

`ReaderProofs` proves of `ArWalk`, for any set of archives of any members and sizes, sound,
truncated or with an odd member unpadded, from `EvenAssumption` (the magic string and
the header have even sizes) and `ArchivesAssumption` (the archives are of the type
`Archive`, which lets a BSD name claim to be longer than its member: nothing in
`libelf_ar.c` refuses it):

| Theorem | States |
|---|---|
| `OpensAlwaysWhatWasAsked` | `Spec => []OpensWhatWasAsked`: `elf_begin` opens the member the last `elf_next` or `elf_rand` asked for, or none |
| `CursorAlwaysOnHeader` | `Spec => [](CursorOnHeader /\ ZeroOnlyAtEnd)` |
| `LoopVisitsInOrder` | `LoopSpec => Scan!Walk`: the documented loop implements the traversal of `ArScan`: each member once, in order |
| `WalkInvariant`, `LoopInvariant` | `Spec => []WalkInv` and `LoopSpec => []LoopInv`, on which these rest |

The argument. `Start(a)`, the offsets of the headers, is a recursive function; that
it exists, that it is even and that it increases (`StartExists`, `StartEven`,
`StartIncreases`) is proved from the least item at which it would fail. Two members
never have the same header (`StartInjective`), so `WalkInv` can say where the cursor
may be: at a header or past the last. `LoopInv` adds that what was seen is the members
before the cursor, in order. `LoopVisitsInOrder` is the safety half of
`VisitsEachOnce`; that the loop ends is liveness and model-checked.

`ReaderProofs` proves of `ElfObject`, for any file, sound or damaged, any limits of the format and
any sequence of calls, failed allocations and failed system calls:

| Theorem | Statement |
|---|---|
| `IndicesAlwaysDistinct` | `ObjectSpec => []IndicesDistinct`: no two sections of a descriptor have one index |
| `PhdrTableAlwaysFits` | `ObjectSpec => []PhdrTableFits`: the program header table has the number of entries its callers go by |
| `ExtendedAlwaysEmpty` | `ObjectSpec => []ExtendedFindsEmptyList`: the assertion of `_libelf_load_extended` never fails |
| `UnmappedNeverRead` | `ObjectSpec => []TablesNeverReadUnmapped`: after a commit that failed with the file unmapped, nothing is read from where it was |
| `FirstCommitAlwaysComplete` | `ObjectSpec => FirstCommitComplete`: the first file written has every section header, and no section less |
| `ObjectTyped`, `ObjectInvariant` | `ObjectSpec => []ObjectTypeOK`, `ObjectSpec => []ObjectInv`, on which the others rest |

The argument. The calls are relations between a descriptor and its successors, built
of helpers that may fail half way. `Good` says what every one of them keeps, and
`Result` that a helper leaves a `Good` descriptor however it ends; each helper has
a lemma of that form, and `Follows` puts two of them in sequence. `Good` has two parts. One
holds always: without a header in memory there is nothing else (`HeaderFirst`); the list
of sections starts with section 0, ascends, and ends below `e_nscn` (`Ascending`), which is
why a section appended with index `e_nscn` is new even when a commit has emptied the list
and left the count; when the mapping is undone everything is in memory
(`RawKnown`). The other holds until the first commit (`Unforgotten`): a list that was
read to its end is as long as its count, and the count is not below the file's. After a
commit it is false, which is the first of the findings about `ElfObject`
in section 6; `Good` is stated so that the theorems do not need it there. `Committing` carries
what the update checked through the steps of the commit, whose system calls may each
be the last.

`ElfCopyFileProofs` proves, for any files on the command line, any names on the disk
and any archives, from `CasesAssumption` (what a command line is: source files are
there, the temporary name is no other's, and an output file is that of the only
input or an ELF object under a name that no input has):

| Theorem | States |
|---|---|
| `NothingEverLost` | `Spec => []NothingLost`: wherever elfcopy stops, the old or the new contents are under the file's name, or the new ones under the temporary name |
| `FileInvariant` | `Spec => []FileInv`, on which it rests |

The argument. `NothingLost` speaks of the moment elfcopy stops and says nothing of how
it got there. `FileInv` follows a file from phase to phase: until the move its
own name has contents that are whole (`InPlaceInv`), before the copy the temporary
file is complete, and it is removed only after that. Files further
on the command line are as they were (`FilesApart`, `SecondInv`), so the next job
starts from a whole file.

`TableProofs` proves of `StringTable`, for any strings, any initial size and any sequence of
calls, from `TableAssumption`:

| Theorem | States |
|---|---|
| `TableImplementsMap` | `PoolSpec => ImplementsMap`: the table implements `StringMap`; offsets are distinct and change only while the image is made |
| `OneEntryAlways` | `PoolSpec => []OneEntryEach`, also in the middle of a compaction |
| `CompactionFindsEntries` | `PoolSpec => []EntryAlwaysFound`: `assert(ste != NULL)` never fails |
| `ImageIsClean` | `PoolSpec => []ImageHasNoRemoved` |
| `TableInvariant` | `PoolSpec => []TableInv`, on which these rest |

The argument has three layers. Bytes: a string ends in one place (`EndUnique`), and
what `insert` writes (`InsertPool`) or `memmove` moves (`MovePool`) leaves every
string alone that is still needed. Entries: what a set of offsets finds after
one was added, renamed or dropped (`Added`, `Renamed`, `Dropped`), which makes lookup
a function (`LookupIs`). Steps: `TableInv` says that in the middle of a compaction the
entries are those of the part that has moved and of the part that has not, with
the removed ones of the first part gone. Each step then is an insertion, a removal, a
move of one string or a stutter of `StringMap`.

`TableProofs` proves of `GelfRecords`, for any width of a word and of the parts of `r_info`, any
number of records, any values and any sequence of calls, from `Widths` (the parts of
`r_info` fill a word) and `RecordsAssumption` (values are of their field's 64 bit
type, every section has an accessor meant for it):

| Theorem | States |
|---|---|
| `RecordsImplementArray` | `RecordSpec => ImplementsArray`: the accessors of either class implement `RecordArray` |
| `RecordsTyped` | `RecordSpec => []RecordTypeOK`: a narrow field never gets more than it holds |
| `RecordsInvariant` | `RecordSpec => []RecordInv`, on which these rest |

The argument. `NarrowComesBack` says that a value that passes the range check of its
field comes back from it: signs are extended, and the symbol and type of `r_info` come apart
where they were put together. `StoredReads` says that an update, seen through the reading
functions, gives each field that was copied its new value and leaves the others, so one that
stops at a field that does not fit leaves the record between the two. Every call then is a `Get` or
an `Update` of the array, and touches no other record.

`LdResolveProofs` proves, for any names, versions, sizes and number of symbols, from
`ConstantsAssumption` (`Unversioned` is not a version, sizes are natural numbers):

| Theorem | States |
|---|---|
| `KeysStayUnique` | `Spec => [](TypeOK /\ KeysUnique)` |
| `ChainsAlwaysEnd` | `Spec => []ChainsEndInTable`: following `lsb_ref` from any symbol ends at an entry of the table |
| `ReferencesAlwaysKnown` | `Spec => []KeptKnowsReferences`: the entry at the end knows who refers to it |
| `StrongAlwaysWins` | `Spec => []StrongDefinitionWins`: a strong definition of a regular object is what its name reaches, in any order of inputs |
| `BoundAlwaysTogether` | `Spec => BoundStaysBound`: references that reach one symbol go on reaching one |
| `JoinedWhenDefined` | `Spec => JoinedAtDefinition`: a plain and a versioned reference reach one symbol when a library defines the version as the default |
| `ChainInvariant` | `Spec => []ChainInv`, on which all but the first rest |

The argument. Keys: a new symbol may take the place of one with another key,
when a default version identifies the two; this happens only when no entry has the
new one's key (`AddGood`), so it has one afterwards (`SettleGood`).
`ResolveSameKeys` shows that linking chains, whichever of the cases of
`_resolve_symbol` applies, changes no key and no entry. Chains: `ChainInv` says that
`lsb_ref` makes a forest whose roots are the entries (`Forest`), that `lsb_prev` is
its inverse, and what a root knows of the symbols below it (`Stands`). That there are
no cycles is said by an `Order`, a numbering that goes down along every link;
`_resolve_symbol` puts the new link into the middle of a chain, so the order of
reading the symbols is none, and `RelinkChained` makes a new one at each
step. With it the walk of `Ref` ends within as many links as there are symbols
(`WalkEnds`, `RefEnds`). `ResolveJoins` is the heart: linking the root a to the root b
moves the ends at a to b and no other. `NotBoth` says that a plain name and its
default version are never both undefined entries, which is why the join at the
definition misses none; `OptionsOnly` that symbols of the script are entered before any version
is known.

`LdLoadProofs` proves, for any files, archives, libraries, command lines and default
architecture, from `ContentsAssumption` (there are finitely many members, an index names
members of its archive) and `LinesAssumption` (an option names a file that exists):

| Theorem | States |
|---|---|
| `SignaturesKeptOnce` | `Spec => []KeptOnce`: at every step, and over a restart, no two inputs keep a section group with the same signature |
| `ComdatOnce` | of the section groups with one signature exactly one is linked: `ComdatKeptOnce`, from `LevelNotNegative`, `OnlyArchivesGrouped`, `RestartBare` |
| `GroupsAreSearched` | the archives of a group are read again until a whole pass extracts nothing: `GroupsSearched`, from `OneLevel`, `OnlyArchivesGrouped`, `GroupNotLast` |
| `LoadingProgresses` | every step makes `Rank` smaller: `Progress`, from `LevelNotNegative` |
| `ListNotLeft` | the walk of the list never steps before its head: `NeverRunsOff`, from `LevelNotNegative`, `GroupNotFirst` |

The hypotheses are of the form `[]H`: the theorem speaks of the links in which H holds
throughout, and each H excludes something the code really gets wrong, or does differently.

| Hypothesis | Without it |
|---|---|
| `LevelNotNegative`: no `-)` without its `-(` | the level is an index into the array of marks, of which there is no element -1 |
| `OnlyArchivesGrouped`: no object file in a group | an object file of a group searched again is read again, and its section groups discarded against its own first reading |
| `RestartBare`: a restart comes before a signature is read | `ld_sg` survives the restart (section 6, `ComdatKeptOnce`) |
| `OneLevel`, `GroupNotLast` | section 6, `GroupsSearched` |
| `GroupNotFirst` | section 6, `NeverRunsOff` |

In the instance `load` all of them hold except `GroupNotFirst`, which the one line that
begins with a group violates; the others satisfy it.

The argument. `Walk` says what the list, the options and the position are at each point of
the program: in the loop `ls.group` is the level of the file before the position, and in an
archive that of the file at it. `KeptOnce` is inductive with it: what an input keeps is in
`ld_sg`, which only grows. `AllLinked` is the converse: every signature read is
kept by an input, and every input is of a file or a member on the list, which fails once a file
is read twice. A file that is not an archive has an input only if it is before the
position (`NoneLoadedBeyond`), so it is read once as long as the loop steps back over archives
only. `SearchedSoFar` is the invariant of a group: while the mark of its level is clear, no
archive between its head and the position has a member the link needs. A pass that hit
nothing shows it of one archive (`PassSearches`); an extraction sets the mark; the mark is cleared
only by stepping back to the head, where the claim is of no archive. For `Progress`
each action is shown to make one component of `Rank` smaller and none before it
larger. The delicate step is the one that searches again, which clears one mark and moves
back: `LevelsMarked` says that levels are within the array, so the number of
marks does fall (`UnmarkedAgain`), and a step of extraction, which sets one, makes the number of
members not yet extracted fall first.

`ArProgramProofs` proves, for any archives, member lists, command lines, scripts and
failures, from `NamesAssumption` (names and symbols have lengths, files sizes, symbols and
times), `DiskAssumption` (no archive is named like the temporary one; each is missing
at first or an archive, of any members and any symbol table)
and `LinesAssumption` (a command line is in one of the modes d, m, q, r and s, and arguments
are lists of names):

| Theorem | States |
|---|---|
| `ScriptsAlwaysEditCopies` | `Spec => ScriptsEditCopies`: `ar` and `ranlib` implement `ArEditor`: a script changes its current archive only by SAVE and every other archive never, wherever a copy, a write or the program stops |
| `OthersAlwaysKept` | `Spec => []OthersKept`: members an edit has no business with are all kept, unchanged and in their order |
| `SymtabAlwaysRight` | `[]SymtabRight`: every symbol table lists exactly the symbols of the members, each with the place of its member in the file, for any lengths, in both flavours; from `NoneEmpty`, `NotBoth` and tables that are right at first |
| `ScriptInvariant` | `Spec => [](ScriptInv /\ EditKnown)`, on which these rest |

The argument. A write is two steps, and what it replaces is named in the first:
`WritesKnown` says that between them it is an archive of the command line, or in a
script the temporary archive, and then the script has a target. `DiskSound` says that each
file is missing or an archive, part of one included, so that a file that was opened
is told from a missing one. `ScriptInv` adds the type invariant, which keeps `target` and
`tmpac` in step: while a script has a target, its temporary archive is on the disk. Each
action then is a step of the editor or a stutter: a write of a command line, also an unfinished
one, is `Direct`; OPEN, CREATE and CLEAR are `Choose`; a command that edits is `Edit` when it is
written; SAVE is `Save`; END, an error and a crash are `Quit`. An OPEN whose copy fails
half way is a step of the editor too, `Edit` with the unfinished copy under the old
target: that archive is still not touched before SAVE, but what SAVE then stores is the subject of
`WorkingCopyKept` in section 6.

`OthersKept` is about folds over the arguments. `EditKeeps` is its inductive form, true of
the edit after every argument: an object whose identity is that of a member is that
member; each member the edit has no business with is in the list; those are in the order
of their identities; and identities still to be given are larger than any of the archive.
`RemoveKeeps` and `InsertKeeps` say that taking out or putting in one object anywhere
leaves this true when the object is not one of the others, and `EditArgKeeps` that each
mode takes and puts only such objects; the modes that add (`AddArg`, ADDLIB) put objects with new
identities. `insert_obj` may also use a freed position (section 6): then the list is what it
was. To go from one argument to all of them, `FoldExists` shows that the
function by which the community modules define a fold exists, by taking the shortest
length for which it would not, and `FoldStages` gives the values between its steps.
`EditKnown` carries the result over the step between reading an archive and writing it.

| Hypothesis | Without it |
|---|---|
| `NoneEmpty`: no file and no member is empty | section 6, `SymtabRight` with `WithEmpty` |
| `NotBoth`: no program has both `-s` and `-S` | it writes a table with nothing in it (`write.c:750`) |

`SymtabRight` compares two sums. `rela_off` adds up the objects before a member, while
libarchive finds the member behind the members written, and the symbols are joined
from one list per member: `FlattenIs` and `SumsAre` turn both into folds, so their stages
can be compared. `WriteIs` says what `write_objs` makes of any list, `SamePlaces` that
members with the names and the sizes of their objects take the same space, and
`FlattenShift` that lists of entries each moved by the size of the tables are, joined, the
whole list moved by it: `WrittenRight` puts these together. What a failed write or copy
leaves is a beginning of the members, and `FlattenBegins` shows that the entries it needs
are a beginning of those it has (`TornRight`). The counts `write_objs` carries from one
archive to the next are the other half: where they are stale the program crashes before
it writes (section 6, `SymbolsNeverMissing`), and with `-S` they stay zero, or nothing is written.

### What is only model-checked

* Liveness, which the prover does not reach: the end of the loop in `VisitsEachOnce` (its
  safety half is `LoopVisitsInOrder`). That every link ends is proved, as a measure
  that decreases (`LoadingProgresses`): tuples of six natural numbers, each smaller than
  the one before, cannot go on for ever. That last fact is not part of the theorem.
* What rests on a RECURSIVE operator, as no module that reaches one can be proved about:
  the entries and references of `DwarfDies` and `DwarfTree` (`TreeComesBack`,
  `RefsResolve`), the demangler (`DemangledIsDeclared`), the inlined functions of
  `Addr2Line` (`FunctionRight`), the expressions of scripts, and with them the layout
  (`LoadsMap`, `PiecesApart`, `PlacedByFirstMatch`), and the links of `LdVersions`
  (`BoundAsLinked`).
* What other folds over data of any length compute. `OthersKept` and `SymtabRight` show how
  one is proved, stage by stage, when it is a `FoldLeft` with one accumulator; what is not done is
  the machines of `LineRight` and `UnwindRight`, the records of `FormatsComeBack`,
  the entries cut out and moved in `FramesFollow`, the passes of `RefsReach`, the new object of
  `elfcopy` (`RebuiltSymbols`, `ReferencesFollow`, `SegmentsMap`) and the sections of
  libpe (`SectionsComeBack`).
* `NoFalseConflict`, which holds only of command lines that name no archive twice
  (section 6), and needs an account of where each symbol of the table came from.
* `MembersIndependent` compares two runs of all the passes of `elfcopy`, each of which
  would have to be shown a function of the member alone.
* Of the symbols of `ld`, `RegularDefinitionKept` and `CommonBigEnough` do not hold
  (section 6).

## 6. Where the code and its documentation disagree, and other observations

Each property below is stated in its module from a line of a manual page, a
comment or an assertion, and TLC finds it violated by what the code does, in the
run named, with the constants changed as shown, and the property added to the
cfg. The first two are runs of their own; the others are recorded here so that
the passing runs stay free of them.

| Property | Run and change | The code | What it is said to do |
|---|---|---|---|
| `SymbolsFollow` (`ElfCopy`) | `elfcopy_remove` | `--remove-section` is not among the options that clear SYMTAB_INTACT, so the symbol table is copied with the old section numbers (`main.c:357`) | "later updated for the new layout of sections in the output object" (`main.c:369`) |
| `DsoReferencesRelocated` (`LdRelocs`) | `relocs_dso` | a 64-bit reference to a datum of a library in a position-independent output gets no dynamic relocation (`ld_reloc.c:746`) | "If the symbol is defined in a DSO, we create specific dynamic relocations when we create PLT, GOT or copy reloc" (`ld_reloc.c:743`) |
| `GroupsSearched` (`LdLoad`) | `load`, `CmdLines <- GroupLast` | a group is searched again only when the loop reaches a file of a lower level after it (`ld_symbols.c:247`), so a group that ends the list is searched once | "Start a group of archives that are to be searched repeatedly until no new undefined references are created" (`ld.1:107`) |
| `GroupsSearched` | `load`, `CmdLines <- GroupInGroup` | only the innermost level's flag is examined when two groups end at once (`ld_symbols.c:247`) | `ld.1:116` |
| `NeverRunsOff` | `load`, `GroupFirst` | stepping back from a group at the head of the list reads through the null `TAILQ_PREV` (`ld_symbols.c:251`) | `ld.1:107` allows it anywhere |
| `NoFalseConflict` | `load`, `ArchiveTwice` | extracted members are recorded per mention of the archive, so a second mention extracts them again (`ld_symbols.c:1103`) | `ld.1:256` |
| `OnlyUnresolved` | `load` | a member is extracted when its symbol is in the table at all (`ld_symbols.c:1105`) | "satisfy an unresolved reference" (`ld.1:256`) |
| `WholeArchives` | `load`, `WholeArchive` | `lf_whole_archive` is never read (`ld_file.c:210`) | `ld.1:307` |
| `EarlierLibrariesDynamic` | `load`, `StaticLater` | the restart does not reset `ls_static` (`ld_main.c:109`) | "subsequent -l options" (`ld.1:128`) |
| `ComdatKeptOnce` | `load`, `ArchiveFirst` | `_cleanup` leaves `ld_sg`, so after a restart a group seen before is discarded from every object (`ld_main.c:108`) | `ld_input.c:451` |
| `RegularDefinitionKept` | `symbols` | a library's definition that replaces an undefined versioned symbol also takes the plain name from a regular definition (`ld_symbols.c:870`) | "We always pick the symbol already in the table" (`ld_symbols.c:846`) |
| `NeverItself` | `symbols` | a library definition may be resolved to itself (`ld_symbols.c:870`) | `assert((_s) != (s))` (`ld_symbols.c:71`) |
| `CommonBigEnough` | `symbols`, `Sizes = {1, 2}` | the size of a common symbol that gave way to a library is forgotten (`ld_symbols.c:737`) | "the larger one of the two" (`ld_symbols.c:728`) |
| `ExtentFilled` | `layout`, `Sizes = {2, 3}` | under `ELF_F_LAYOUT` a section whose `sh_size` exceeds its data is accepted, and stops at the assertion (`elf_update.c:1090`) | the assertion |
| `SectionAligned` | `layout`, `Aligns = {1, 2}` | a section is placed by `sh_addralign` and its data, not by the alignment of its ELF type (`elf_update.c:758`) | the assertion there |
| `BufferPresent` | `layout`, `Sizes = {0, 3}` | a descriptor of no bytes, which has no buffer, is accepted (`elf_update.c:823`) | the assertion there |
| `DescriptorsPlaced` | `layout` | the fill before a descriptor starts at the end of the one listed before it, so a descriptor listed out of the order of `d_off` under `ELF_F_LAYOUT` erases bytes already written (`elf_update.c:816`) | `d_off` is the offset "at which the descriptor's data should be placed" (`elf_update.3:236`) |
| `UntouchedCarriedOver` | `layout` | the copy of a section never loaded goes through `elf_rawdata`, which checks the new place of the section against the old file and may refuse it (`elf_update.c:789`) | an application may have "only retrieved/modified a few sections" (`elf_update.c:1031`) |
| `LoadedFromFile` | `layout` | data loaded after the section was moved is read at the new offset (`elf_data.c:127`) | "contains the offset into the original file" (`elf_update.c:766`) |
| `MappingReleased`, `ArhdrReleased`, `DescriptorReleased` | `handles` | an archive opened for update, the member header of a plain member, and an archive with a damaged head leave their memory (`libelf_open.c:254`, `libelf_allocate.c:107`, `libelf_ar_util.c:362`) | "release the resources" (`elf_end.3:40`) |
| `RewindIsFirst` | `archive` | `elf_rand(e, SARMAG)` goes to the symbol table when there is one | "To rewind an archive" (`elf_rand.3:83`) |
| `GetScnFindsSections` | `archive` | `LIBELF_F_SHDRS_LOADED` stays set after a commit, so no section is found (`elf_update.c:1167`) | "will function correctly" (`elf_update.c:1161`) |
| `NewScnStartsAtZero` | `archive` | `e_nscn` survives a commit and the next `elf_newscn` stops (`elf_scn.c:210`) | the assertion there |
| `GetPhdrReturns` | `archive` | no program headers: `assert(fsz > 0)` (`libelf_phdr.c:82`) | NULL (`gelf_getphdr.3:46`) |
| `HeaderHasCounts` | `archive` | the header is stored before its counts are read; after a failed allocation they are zero (`libelf_ehdr.c:163`) | `elf_getshdrnum.3:41` |
| `NewScnIncrementsHeader` | `archive` | `e_shnum` changes only in `elf_update` (`elf_scn.c:221`) | "automatically increment" (`elf_getscn.3:70`) |
| `UpdatesInsideTable` | `archive` | the bound is `ndx > phnum` (`gelf_phdr.c:150`) | `gelf_update_ehdr.3:65` |
| `RawfileIsValid` | `archive` | a failed commit leaves `e_rawfile` unmapped or `MAP_FAILED` (`elf_update.c:1121`) | "a valid pointer" (`elf_rawfile.3:53`) |
| `WrittenCanBeRead` | `archive` | an extended count without any section is written to no table (`elf_update.c:698`) | `elf.3:47` |
| `IndexFollowsSymbol` | `tables` | the wrong descriptor's type is tested, so the index is not updated (`gelf_symshndx.c:130`) | `gelf_getsymshndx.3:125` |
| `CapabilitiesReadable` | `tables` | `SHT_SUNW_cap` has no type (`libelf_data.c:91`) | `gelf_getcap.3:53` |
| `OnlyIndexSections` | `tables`, with an index descriptor of type `GROUP` in `Linked` | a section group passes for an index (`libelf_data.c:54`) | `gelf_getsymshndx.3:169` |
| `PoolHoldsStrings` | `tables`, with a string of seven bytes in `Strings`, `Increment = 2`, `MaxLen = 6` | the pool grows by one increment whatever the string (`elftc_string_table.c:111`) | "Resize the pool, if needed" |
| `EveryOffsetReads` | `tables` | the empty string's offset reads back as an error (`elftc_string_table.c:387`) | `elftc_string_table_create.3:166` |
| `ReplaceKeepsOrder` | `arw` | `ar -r` moves the member to the end (`write.c:497`) | "will not change the order" (`ar.1:297`) |
| `PositionIsLive` | `arw` | `ar -r -b pos` with `pos` replaced inserts before a freed object (`write.c:492`) | `write.c:220` |
| `SymtabRight`, `AppendedIsThere` | `arw`, `Files <- WithEmpty` | an empty member is counted and not written: it is lost, and the symbol table is 60 bytes off behind it (`write.c:784`) | "kept up-to-date" (`ar.1:150`), `ar.1:282` |
| `SymbolsNeverMissing` | `arw` | `write_cleanup` frees the symbol table and leaves its count (`write.c:733`) | `write.c:721`, `write.c:750` |
| `OpenMakesCurrent` | `arw` | OPEN of an archive without members leaves the old one current (`acpyacc.y:261`) | `ar.1:527` |
| `WorkingCopyKept` | `arw`, `MaxCommands = 4` | a failed OPEN deletes the old working copy and SAVE then stores the unfinished one (`acpyacc.y:303`) | `ar.1:537` |
| `ReplaceOnlyReplaces` | `arw` | REPLACE adds modules the archive lacks (`acpyacc.y:459`) | "must already exist" (`ar.1:534`) |

A file whose header holds the number of sections but whose number of program headers or
index of names is extended is read as having no sections: `libelf_ehdr.c:85` takes
`sh_size` of section 0, which is zero, for the count, and a following `elf_newscn` stops at
its assertion (`elf_scn.c:217`). `ElfObject` does the same (`LoadExtended`); the properties
about the count of sections are stated of files without extended counts.

The documented loop (`elf_begin` ... `elf_next` ... `elf_end`) also stops early
at a member of size zero, for which `elf_begin` returns NULL: `VisitsEachOnce`
is therefore stated of archives without one (`IsSound`).

Where such a case would hide the rest of a property in a passing run, the instance
avoids it: `arw` has no empty file, `layout` sizes have data, `load` has
groups with a file after them.

### Other observations

Met while the code was read, and not stated by any line of the documentation, or
outside what the modules keep. They are recorded as facts about the code; where
a module's instance avoids a case, this is why.

**`ld`, exception frames** (each violates `FramesFollow` in a variant of the
instance that allows it). With two CIEs of one section both seen before, the moved
offset of a relocation is compared with the next CIE, and relocations of the FDE
behind it are dropped (`ld_ehframe.c:594-620`). CIEs that name different personality
routines have equal bytes before relocation, and are merged. A discarded FDE whose
language-specific data is kept leaves a relocation that lands in the entry before
it. An FDE behind a second CIE that refers to the first loses its CIE when an FDE in
between was discarded (`:126`). A search table with pc-relative starts adds the
address of the section instead of the field's (`:317`). When sizes are not
multiples of the alignment, the scan counts sections without the gaps which
`ld_layout.c:1136` adds. Also: the comparison may read past a shorter stored CIE; a
personality of `DW_EH_PE_absptr` counts no bytes; a header without FDEs writes its
count beyond its eight bytes; a terminator inside a section ends the walk.

**`ld`, symbols.** When two libraries give one name different default versions, a
plain reference read before the second one ends at the version of the first, one
read after it at that of the second (`ld_symbols.c:980`): references by one plain name
may end at different symbols. The model takes the version added last, which is
what the hash lookup finds as long as its bucket was not expanded in between.

**`ld`, versions.** `vd_flags` of the base definition is or-ed into memory of
`malloc`. A version script node without a name stops the link of a library;
entries behind an `extern` block inside `local:` become global
(`ld_script_parser.y:1060`); the language of `extern` blocks is ignored. Undefined
symbols of a library that match a pattern get its own version index. A symbol that
is local in the script and named by a library is exported with version 0. The
array of version names is doubled only once. An index in that array without a name
still makes a definition the default of its symbol: in a damaged library it hides the
proper default version, or a plain reference to it is resolved to itself, and `ld` stops
at the assertion of `ld_symbols.c:71`. A library linked without another
gets no dynamic sections. The symbol of `-u` has local binding.

**`ld`, layout and relocations.** An orphan laid out before any other of its kind
goes behind every loadable section of the script, writable data behind `.bss`
included. The expression of `DATA_SEGMENT_ALIGN` in the built-in script is evaluated
as it is written, and depends on the address reached. A symbol assigned
inside an output section lacks its base. A reference of type NOTYPE to a library's
function gets no PLT entry. `--gc-sections`: the mark is never set, a reference of
a section to itself loops, and every allocated orphan is removed. The local symbols
`_DYNAMIC` and `_GLOBAL_OFFSET_TABLE_` are behind `sh_info`. The TLS segment is
known only after the relocations that need it are processed; general-dynamic and
initial-exec references share one GOT slot. A local symbol by GOTPCREL in a library,
and an undefined weak symbol by a 64-bit reference in a PIE, are not relocated at
run time. An `--as-needed` library used only by a copy is not counted. `KEEP` and
the sorting of input sections are parsed and not obeyed; `wm_no_match` is never
filled. `ld_reloc_sort` follows the output section of a discarded section.

**Demangler.** The search for a substitution candidate compares only a prefix
(`_Z1gP3FooP2FoS1_`). Template arguments of class templates and nested arguments
shift what `T_` means. A pointer to a function enters one candidate instead of two
(`_Z1gPFvvES0_`), a list of template arguments behind a substitution enters one
too many. Within a local name the function's own name stays a candidate. `_ZTv...`
always fails (`:3531`). The index of the last source name may leave its array
(`_ZZN3FooC1EvE1x`). Unary operators are printed behind their operand, and
`~`, `!`, `++`, `--` are read as binary. Qualifiers of a pointer to a member are
lost, several vendor qualifiers reversed, arrays behind pointers printed without
parentheses.

**`elfcopy`.** `filter_reloc` passes a symbol's index where a name's offset is meant.
`update_reloc` uses the old size of the section. Giving up in `create_symtab` leaves
a stale index. `-N` of a group's signature removes it from the table only.
`--add-section` and `--add-gnu-debuglink` are ignored without `.shstrtab`; the debug
link accumulates over the members of an archive; a second archive whose members have no
symbols meets the counts of the first. The output is opened without `O_TRUNC`; a
failing in-place copy deletes the temporary file after truncating the source.
`copy_phdr` keeps the offset of a segment whose first section moved.

**`elfcopy`, S-records and Intel Hex.** The record type is chosen by the start of each
section, so bytes past the width wrap. In Intel Hex a section of page 0 behind a
higher page, or descending sections around a page, get no line of type 4. Readers take
a type-2 address from the wrong field, ignore what follows the checksum, and do not
cover the type digit by it; a lost line of type 4 moves data silently. A lost `$$`
line makes the reader of symbols take the data lines.

**libpe.** A COFF header that is not rewritten is counted twice when read and written
(`libpe_coff.c:250`, `:358`). `pe_update_symtab` makes every later `pe_update` fail,
and walks over a freed node. A moved symbol table loses the size of its strings. The
stub put back to its first length counts as unchanged, an application's stub is
ignored unless the DOS header changed. `pe_flag_scn` tests `== 0`, so every legal flag is
refused. The entry of the directory whose pseudo section moves is not updated. A
file that starts with `PE\0\0` gets a DOS header written over it. From a pipe,
`libpe_load_all_sections` never advances.

**libdwarf, `addr2line`.** `die_link` disconnects only the same kind of link
(`dwarf_die_link.3` says existing links are unlinked), so relinking can make a
loop. Transforming twice, or after a failure, meets stale offsets. The line producer
drops a row equal to the registers, repeats one for the end of a sequence, and a
too big advance; directory indices are not checked. The consumer ignores
`li_oplen`, reads one byte for `DW_FORM_strx2`, and takes the sibling in the current
unit, whatever unit the entry is of. `DW_CFA_remember_state` has one table;
`undefined`, `same_value` and `register` do not reset the value's type.
`DwarfLines` states `EveryEntryIsARow`, which does not hold for this reason.
`addr2line` may print the line of another sequence where sequences adjoin or are
out of order, prints the last row when nothing matches, needs `DW_AT_high_pc` of the
unit, and follows one reference to find a name.

## 7. What is left out

* **libelf: data translation.** Byte order and width conversion is generated from
  m4 tables. `elf_getdata` appears as far as it changes descriptors.
* **libelf: names, hashes, checksums, errors**; **libelftc: other helpers.** Arithmetic
  over bytes, table lookups, one variable.
* **libdwarf.** The consumers of locations, ranges, names and macros parse one table
  each on demand; the other producers are planned. Of what is modelled, 64-bit
  and version 5 units, expressions and `.eh_frame` are left out.
* **`ar` reading an archive**, and `readelf`, `elfdump`, `nm`, `size`, `strings`,
  `findtextrel`, `brandelf`, `isa`, `cxxfilt`, `as`: programs that print what they read
  in one pass. The loop over an archive they share is in `ArWalk`.
* **Demanglers** of the ARM and GNU 2 manglings.
* **`ld`**: architectures other than x86-64, whose relocations are hardly
  supported; the code of TLS sequences; the grammar of scripts, overlays and memory
  regions; binary inputs and the library search path.
* **`elfcopy`, `ar`**: parsing of options (the command lines are constants), owners,
  modes and times, except that two times are compared.
* Generated parsers, headers, build files, documentation and tests.

The note of each component in `PROJECT.json` says what of it is left out.

## 8. The plan

Done, in this order: `elf_update`; descriptors; archives; tables on demand; accessors;
string tables; the symbols and files of `ld`; `ar`; `elfcopy`; libdwarf; libpe;
layout, relocations, versions and frames of `ld`; the demangler; flat formats.

Proved: every property of a run that is of `ElfLayout`, `ElfHandles`, `ArWalk` (its safety half),
`ElfObject`, `GelfRecords`, `StringTable`, `LdResolve`, `LdLoad` (but for `NoFalseConflict`) and `ElfCopyFile` without the members,
and the refinement of `ArEditor`. What is left to TLC, and why, is at the end of section 5.
To model next: the conversions of libelf as operators with their round trips;
the option tables of `elfcopy`; the producers of `.debug_aranges` and names.
