----------------------------- MODULE ElfCopyFile -----------------------------
(***************************************************************************)
(* The files around ElfCopy: create_file of src/elfcopy/main.c works on a  *)
(* file in place, through a temporary file next to it or on another file   *)
(* system, or writes a second file; archive.c takes an archive apart, has  *)
(* create_elf make every member anew and puts the archive together with a  *)
(* new symbol table.  One process works on several files, with one struct  *)
(* elfcopy for all of them.  The machine may stop between any two steps.   *)
(***************************************************************************)
EXTENDS ElfCopy
LOCAL INSTANCE SequencesExt

CONSTANTS
    Cases,      \* what the process may be asked to do: [opt, files]
    NameLength, \* the length of a symbol or member name
    MagicSize, ArHdrSize, WordSize, \* sizes in an archive
    LongName    \* names longer than this go to the table of names

Temp == "ecp.XXXXXXXX"

\* A file that is edited in place exists, and mkstemp makes a name that no file
\* has.  Several files are given a second one only by mcs -p, the same for all,
\* which prints and writes to /dev/null (main.c:1130, 1226, 1316).
ASSUME CasesAssumption ==
    \A c \in Cases :
        /\ Temp \notin c.paths /\ c.present \subseteq c.paths
        /\ c.files \in Seq({c.files[k] : k \in DOMAIN c.files})
        /\ \A k \in DOMAIN c.files :
              LET f == c.files[k]
              IN  IF f.dst = "" THEN f.path \in c.present
                  ELSE /\ f.path # Temp /\ f.dst # Temp
                       /\ \/ Len(c.files) = 1
                          \/ f.otf = "ELF" /\ \A j \in DOMAIN c.files : c.files[j].path # f.dst

VARIABLES
    todo,  \* the files left on the command line
    job,   \* create_file at work: the file and how far it is
    disk,  \* what each path holds: "old", "none", part of a file, the ELF form of what
           \* becomes another format, "new", or "new" before the tail of "old"
    ar,    \* the fields of struct elfcopy that make an archive
    done   \* what the process wrote: the object read, the options and the result

fileVars == <<pc, ein, opt, ecp, todo, job, disk, ar, done>>

NoJob  == [phase |-> "none", file |-> "none", member |-> 0]
NoElf  == [type |-> "none", scns |-> <<>>, phdrs |-> <<>>, strings |-> <<>>, shoff |-> 0, freebsd |-> FALSE]
Null   == <<>>   \* a table that is not allocated

F       == job.file
InPlace == F.dst = ""
Target0 == IF InPlace THEN F.path ELSE F.dst
OutPath_Direct == Target0
OutPath == IF InPlace \/ job.phase = "other" THEN Temp ELSE F.dst
Members == F.members

\* s_so and s_sn, one sequence here, are allocated by the first symbol, which
\* also resets their counters; the counters outlive the tables.
EmptyAr == [cnt |-> 0, so |-> Null, snsz |-> 0, as |-> Null, assz |-> 0,
            rela |-> 0, objs |-> <<>>]

Init ==
    /\ \E c \in Cases : /\ opt = c.opt /\ todo = c.files
                        /\ disk = [p \in c.paths \cup {Temp} |-> IF p \in c.present THEN "old" ELSE "none"]
    /\ job = NoJob /\ ar = EmptyAr /\ done = <<>>
    /\ pc = "idle" /\ ein = NoElf /\ ecp = ProcessStart(opt)

----------------------------------------------------------------------------
(* create_file, before the object is made. *)

\* The output is a temporary file, or the second file of the command line,
\* opened without O_TRUNC.
OpenFiles ==
    /\ job.phase = "none" /\ todo # <<>>
    /\ LET f == Head(todo)
           p == IF f.dst = "" THEN Temp ELSE f.dst
       IN  /\ job' = [phase |-> "read", file |-> f, member |-> 1]
           /\ disk' = [disk EXCEPT ![p] = IF @ = "none" THEN "part" ELSE @]
           /\ ein' = f.members[1].obj
    /\ todo' = Tail(todo) /\ pc' = "create_elf" /\ ar' = [ar EXCEPT !.rela = 0]
    /\ UNCHANGED <<opt, ecp, done>>

\* create_elf at work.
MakeElf == job.phase = "read" /\ Pass /\ UNCHANGED <<todo, job, disk, ar, done>>

\* errx in one of its passes: the process ends and leaves its files alone.
GiveUp ==
    /\ pc \in {"failed", "refused"} /\ job.phase = "read"
    /\ job' = [job EXCEPT !.phase = "exit"] /\ todo' = <<>>
    /\ UNCHANGED <<pc, ein, opt, ecp, disk, ar, done>>

Result == [ein |-> ein, opt |-> opt, ecp |-> ecp, path |-> F.path]

----------------------------------------------------------------------------
(* An archive: archive.c. *)

\* extract_arsym: the defined global and weak symbols of the object written,
\* if it has a string table of that name.
Exported ==
    IF \E k \in DOMAIN ecp.scns : ecp.scns[k].name = ".strtab"
    THEN LET tabs == {k \in DOMAIN ecp.scns : ecp.scns[k].type = "SYMTAB"}
             tab  == ecp.scns[CHOOSE k \in tabs : TRUE].data
         IN  IF tabs = {} THEN <<>>
             ELSE SelectSeq(tab, LAMBDA s : s.bind \in {"GLOBAL", "WEAK"} /\ s.shndx # 0)
    ELSE <<>>

\* add_to_ar_sym_table, for each of the symbols syms.
AddSymbols(a, syms) ==
    LET b == IF syms = <<>> \/ a.so # Null THEN a ELSE [a EXCEPT !.cnt = 0, !.snsz = 0]
        one(x, s) == [x EXCEPT !.so = Append(@, [name |-> s.name, off |-> x.rela]),
                               !.cnt = @ + 1, !.snsz = @ + NameLength[s.name] + 1]
    IN  FoldLeft(one, b, syms)

\* add_to_ar_str_table.
AddName(a, n) ==
    IF NameLength[n] <= LongName THEN a
    ELSE [a EXCEPT !.as = Append(@, n), !.assz = (IF a.as = Null THEN 0 ELSE @) + NameLength[n] + 2]

\* The size of the file create_elf wrote.
FileSize == LET ends == {p[1] + p[2] : p \in Parts(ecp)}
            IN  CHOOSE x \in ends : \A y \in ends : y <= x

\* process_ar_obj, after create_elf; then the next member.
MemberDone ==
    /\ job.phase = "read" /\ pc = "written" /\ F.archive
    /\ LET m == Members[job.member]
           a == AddName(AddSymbols(ar, Exported), m.name)
       IN  ar' = [a EXCEPT !.rela = @ + ArHdrSize + roundup(FileSize, 2),
                           !.objs = Append(@, [name |-> m.name, size |-> FileSize, syms |-> Exported])]
    /\ done' = Append(done, Result) /\ ecp' = FreeElf(ecp)
    /\ IF job.member < Len(Members)
       THEN /\ pc' = "create_elf" /\ ein' = Members[job.member + 1].obj
            /\ job' = [job EXCEPT !.member = @ + 1]
       ELSE /\ pc' = "idle" /\ ein' = NoElf
            /\ job' = [job EXCEPT !.phase = "sync"]
    /\ UNCHANGED <<opt, todo, disk>>

\* sync_ar: the tables are made even, and the offsets count from the start of
\* the file.  A count without a table is used all the same.
PseudoSize(a) ==
    MagicSize + ArHdrSize + WordSize * (a.cnt + 1) + a.snsz
    + (IF a.as # Null THEN ArHdrSize + a.assz ELSE 0)

SyncAr ==
    /\ job.phase = "sync"
    /\ LET a == [ar EXCEPT !.snsz = IF ar.cnt # 0 THEN roundup(@, 2) ELSE @,
                           !.assz = IF ar.as # Null THEN roundup(@, 2) ELSE @]
       IN  IF ar.cnt # 0 /\ ar.so = Null
           THEN /\ job' = [job EXCEPT !.phase = "exit"] /\ todo' = <<>> /\ UNCHANGED ar
           ELSE /\ job' = [job EXCEPT !.phase = "write"] /\ UNCHANGED todo
                /\ ar' = [a EXCEPT !.so = [k \in DOMAIN @ |->
                                [@[k] EXCEPT !.off = @ + PseudoSize(a)]]]
    /\ UNCHANGED <<pc, ein, opt, ecp, disk, done>>

\* ac_write_objs: the table of symbols, even if it is empty, the table of
\* names, and the members, each behind a header.
Entries ==
    <<[name |-> "/", size |-> WordSize * (ar.cnt + 1) + ar.snsz]>>
    \o (IF ar.as = Null THEN <<>> ELSE <<[name |-> "//", size |-> ar.assz]>>) \o ar.objs

\* Nothing shortens a file that was longer.
WriteArchive ==
    /\ job.phase = "write" /\ F.archive
    /\ disk' = [disk EXCEPT ![OutPath] = IF @ = "old" THEN "tail" ELSE "new"]
    /\ job' = [job EXCEPT !.phase = "move"]
    /\ UNCHANGED <<pc, ein, opt, ecp, todo, ar, done>>

----------------------------------------------------------------------------
(* One object. *)

\* elf_update empties the file, and writes it.
WriteObject ==
    /\ job.phase = "read" /\ pc = "written" /\ ~F.archive
    /\ disk' = [disk EXCEPT ![OutPath] = IF @ # "part" THEN "part"
                                         ELSE IF F.otf = "ELF" THEN "new" ELSE "elf"]
    /\ IF disk[OutPath] = "part"
       THEN /\ job' = [job EXCEPT !.phase = IF F.otf = "ELF" THEN "move" ELSE "convert"]
            /\ done' = Append(done, Result)
            /\ pc' = "idle" /\ ein' = NoElf /\ ecp' = FreeElf(ecp)
       ELSE UNCHANGED <<job, done, pc, ein, ecp>>
    /\ UNCHANGED <<opt, todo, ar>>

\* Another format: the temporary file is replaced by a new one, and what was
\* written is read through its descriptor.
MakeSecondTemp ==
    /\ job.phase = "convert"
    /\ disk' = [disk EXCEPT ![Temp] = "part"]
    /\ job' = [job EXCEPT !.phase = "other"]
    /\ UNCHANGED <<pc, ein, opt, ecp, todo, ar, done>>

ConvertObject ==
    /\ job.phase = "other"
    /\ disk' = [disk EXCEPT ![Temp] = "new"] /\ job' = [job EXCEPT !.phase = "move"]
    /\ UNCHANGED <<pc, ein, opt, ecp, todo, ar, done>>

----------------------------------------------------------------------------
(* copy_from_tempfile. *)

UsesTemp   == InPlace \/ F.otf # "ELF"
KeepsInode == InPlace /\ F.linked

\* rename, when the temporary file is on the same file system.
Rename ==
    /\ job.phase = "move" /\ UsesTemp /\ ~KeepsInode /\ ~F.xdev
    /\ disk' = [disk EXCEPT ![Target0] = disk[Temp], ![Temp] = "none"]
    /\ job' = [job EXCEPT !.phase = "close"]
    /\ UNCHANGED <<pc, ein, opt, ecp, todo, ar, done>>

\* Otherwise the target is removed, or emptied when its inode has to stay,
\* then filled; the temporary file goes last.
Empty ==
    /\ job.phase = "move" /\ UsesTemp /\ (KeepsInode \/ F.xdev)
    /\ disk' = [disk EXCEPT ![Target0] = IF KeepsInode THEN "part" ELSE "none"]
    /\ job' = [job EXCEPT !.phase = "copy"]
    /\ UNCHANGED <<pc, ein, opt, ecp, todo, ar, done>>

CopyTemp ==
    /\ job.phase = "copy" /\ disk' = [disk EXCEPT ![Target0] = disk[Temp]]
    /\ job' = [job EXCEPT !.phase = "unlink"]
    /\ UNCHANGED <<pc, ein, opt, ecp, todo, ar, done>>

RemoveTemp ==
    /\ job.phase = "unlink" /\ disk' = [disk EXCEPT ![Temp] = "none"]
    /\ job' = [job EXCEPT !.phase = "close"]
    /\ UNCHANGED <<pc, ein, opt, ecp, todo, ar, done>>

\* elftc_copyfile fails: create_file removes the temporary file and ends.
CopyFailure ==
    /\ job.phase = "copy"
    /\ disk' = [disk EXCEPT ![Target0] = "part", ![Temp] = "none"]
    /\ job' = [job EXCEPT !.phase = "uncopied"] /\ todo' = <<>>
    /\ UNCHANGED <<pc, ein, opt, ecp, ar, done>>

\* The tail of create_file, and ac_write_cleanup for an archive.
CloseFiles ==
    /\ job.phase = "close" \/ (job.phase = "move" /\ ~UsesTemp)
    /\ job' = NoJob
    /\ ar' = IF F.archive THEN [ar EXCEPT !.so = Null, !.as = Null, !.objs = <<>>] ELSE ar
    /\ UNCHANGED <<pc, ein, opt, ecp, todo, disk, done>>

\* The machine stops.
Crash ==
    /\ job.phase \notin {"none", "exit", "uncopied"}
    /\ job' = [job EXCEPT !.phase = "exit"] /\ todo' = <<>>
    /\ UNCHANGED <<pc, ein, opt, ecp, disk, ar, done>>

Next ==
    \/ OpenFiles \/ MakeElf \/ GiveUp \/ MemberDone \/ SyncAr \/ WriteArchive
    \/ WriteObject \/ MakeSecondTemp \/ ConvertObject \/ Rename \/ Empty \/ CopyTemp
    \/ RemoveTemp \/ CopyFailure \/ CloseFiles \/ Crash

Spec == Init /\ [][Next]_fileVars

----------------------------------------------------------------------------
(* Properties. *)

\* Until the new contents are complete under the name of the file, either the
\* old ones still are or the temporary file has the new ones, wherever the
\* process stops (create_file, copy_from_tempfile).  The exception is a copy
\* that fails: create_file then removes the only complete one.
NothingLost ==
    job.phase \notin {"none", "uncopied"} /\ InPlace => disk[F.path] \in {"old", "new"} \/ disk[Temp] = "new"

\* Where the members of the archive being written start.
MemberAt(k) ==
    FoldLeft(LAMBDA x, m : x + ArHdrSize + roundup(m.size, 2), MagicSize,
             SubSeq(Entries, 1, Len(Entries) - Len(ar.objs) + k - 1))

\* The symbol table of an archive lists what its own members define, each
\* symbol with the offset of the header of its member (extract_arsym,
\* process_ar_obj, sync_ar).
ArchiveSymbolsPoint ==
    job.phase = "write" =>
        ar.so = FlattenSeq([k \in DOMAIN ar.objs |->
                    [j \in DOMAIN ar.objs[k].syms |->
                        [name |-> ar.objs[k].syms[j].name, off |-> MemberAt(k)]]])

\* What a member becomes does not depend on the files and members the process
\* worked on before (the struct elfcopy they share, free_elf).
MembersIndependent ==
    \A i, j \in DOMAIN done :
        done[i].ein = done[j].ein =>
            done[i].ecp.scns = done[j].ecp.scns /\ done[i].ecp.phdrs = done[j].ecp.phdrs
=============================================================================
