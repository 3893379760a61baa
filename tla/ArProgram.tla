---------------------------- MODULE ArProgram ----------------------------
(***************************************************************************)
(* ar(1) and ranlib(1) writing archives, ar/ar.c, ar/write.c and           *)
(* ar/acpyacc.y.                                                           *)
(*                                                                         *)
(* A command line names one archive and one edit.  ranlib writes the       *)
(* symbol table of each archive it is given.  A script works on a copy,    *)
(* tmpac, of the archive it opened, and moves the copy over its target     *)
(* when it is told to SAVE.  Every program reads all the members of an     *)
(* archive, edits the list in memory and then writes the archive in place, *)
(* so a program that stops while it writes leaves a torn file.             *)
(***************************************************************************)
EXTENDS ArMembers

CONSTANTS Archives,        \* names of archives
          Lines,           \* command lines: [mode, argv, posarg, opts]
          RanlibArgs,      \* arguments of ranlib: sequences of archives
          ScriptArgs,      \* member lists of script commands
          ScriptOpts,      \* options ar -M was started with
          StartDisk,       \* what the archives hold at first
          CopyFails,       \* the copy OPEN makes may fail half way
          WriteFails,      \* writing an archive may fail half way
          MaxRuns,         \* programs run
          MaxCommands      \* commands of one script

ASSUME SomeArchives == Archives # {} /\ MaxRuns \in Nat /\ MaxCommands \in Nat

Tmp == "tmpac"             \* the file mkstemp made; its name is in no script
Freed == "freed"           \* a file name in memory that was freed
None == "none"
NoArchive == [EmptyImage EXCEPT !.tablesz = -1]   \* no such file

ASSUME DiskAssumption ==
    /\ Tmp \notin Archives /\ None \notin Archives
    /\ RanlibArgs \subseteq Seq(Archives)
    /\ StartDisk \in [Archives -> Images \cup {NoArchive}]

ASSUME LinesAssumption ==
    /\ \A line \in Lines : line.mode \in {"d", "m", "q", "r", "s"} /\ line.argv \in Seq(Names)
    /\ ScriptArgs \subseteq Seq(Names)

VARIABLES disk,            \* what each archive and Tmp hold
          running,         \* the program: None, "ar", "ranlib" or "script"
          bsdar,           \* filename, options and what write_objs left
          v_obj,           \* the edit that will be written
          writing,         \* write_objs is next
          rest,            \* archives ranlib has still to do
          target,          \* the archive a script will SAVE to
          tmpac,           \* the script has a temporary archive
          ran, commands    \* programs run, commands of this script

vars == <<disk, running, bsdar, v_obj, writing, rest, target, tmpac, ran, commands>>
script == <<target, tmpac, commands>>

Idle == [filename |-> None, opts |-> {}, carry |-> NoCarry]
NoEdit == Edit(<<>>, "s", <<>>, None, {})

Init ==
    /\ disk = [f \in Archives \cup {Tmp} |-> IF f = Tmp THEN NoArchive ELSE StartDisk[f]]
    /\ running = None /\ bsdar = Idle /\ v_obj = NoEdit /\ writing = FALSE
    /\ rest = <<>> /\ target = None /\ tmpac = FALSE /\ ran = 0 /\ commands = 0

Exists(f) == disk[f] # NoArchive

(***************************************************************************)
(* ar_write_archive, in two steps: the members are read and edited, and    *)
(* the archive is written.  Nothing is created in modes A, d, m and s.     *)
(***************************************************************************)
Creates(mode) == mode \in {"r", "q"}

Contents(f) == IF Exists(f) THEN disk[f] ELSE EmptyImage

StartWrite(f, mode, argv, posarg, opts, lib) ==
    /\ Exists(f) \/ Creates(mode)
    /\ v_obj' = EditArchive(Contents(f), mode, argv, posarg, opts, lib)
    /\ writing' = TRUE
    /\ UNCHANGED disk

\* The process is gone, with everything but the files.  A temporary file it leaves
\* behind has a name that no later program uses.
Exit ==
    /\ running' = None
    /\ bsdar' = Idle
    /\ v_obj' = NoEdit
    /\ writing' = FALSE
    /\ rest' = <<>>
    /\ target' = None
    /\ tmpac' = FALSE
    /\ commands' = 0

Start(program) ==
    /\ running = None
    /\ ran < MaxRuns
    /\ running' = program
    /\ ran' = ran + 1

\* A command line of ar.
RunAr(f, line) ==
    /\ Start("ar")
    /\ bsdar' = [Idle EXCEPT !.filename = f, !.opts = line.opts]
    /\ StartWrite(f, line.mode, line.argv, line.posarg, line.opts, EmptyImage)
    /\ UNCHANGED <<rest, script>>

\* ranlib: option -s, and one archive after the other in one process.
RunRanlib(fs) ==
    /\ Start("ranlib")
    /\ bsdar' = [Idle EXCEPT !.opts = {"s"}]
    /\ rest' = fs
    /\ UNCHANGED <<disk, v_obj, writing, script>>

NextRanlib ==
    /\ running = "ranlib" /\ ~writing /\ rest # <<>>
    /\ bsdar' = [bsdar EXCEPT !.filename = Head(rest)]
    /\ rest' = Tail(rest)
    /\ \/ StartWrite(Head(rest), "s", <<>>, None, bsdar.opts, EmptyImage)
       \/ ~Exists(Head(rest)) /\ UNCHANGED <<disk, v_obj, writing>>
    /\ UNCHANGED <<running, ran, script>>

RanlibDone ==
    /\ running = "ranlib" /\ ~writing /\ rest = <<>>
    /\ Exit
    /\ UNCHANGED <<disk, ran>>

(***************************************************************************)
(* write_objs and write_cleanup.                                           *)
(***************************************************************************)
Written == WriteObjs(v_obj.objs, bsdar.opts, bsdar.carry)
Corrupt(w) == v_obj.freed \/ w.crashes

Write ==
    /\ writing
    /\ LET w == Written
       IN  /\ ~Corrupt(w)
           /\ disk' = [disk EXCEPT ![bsdar.filename] = w.image]
           /\ IF running = "ar" THEN Exit
              ELSE /\ bsdar' = [bsdar EXCEPT !.carry = w.carry]
                   /\ v_obj' = NoEdit
                   /\ writing' = FALSE
                   /\ UNCHANGED <<running, rest, script>>
    /\ UNCHANGED ran

\* The archive is written in place: when that fails after n members, the program
\* exits and they are all the archive holds.
WriteFailsAfter(n) ==
    /\ writing
    /\ WriteFails
    /\ LET w == Written
       IN  /\ ~Corrupt(w)
           /\ n < Len(w.image.members)
           /\ disk' = [disk EXCEPT ![bsdar.filename] = [w.image EXCEPT !.members = SubSeq(@, 1, n)]]
    /\ Exit
    /\ UNCHANGED ran

\* A null or freed pointer is used before the archive is opened for writing.
Crash ==
    /\ writing /\ Corrupt(Written)
    /\ Exit
    /\ UNCHANGED <<disk, ran>>

(***************************************************************************)
(* Script mode: the commands of acpyacc.y.                                 *)
(***************************************************************************)
RunScript(opts) ==
    /\ Start("script")
    /\ bsdar' = [Idle EXCEPT !.opts = opts]
    /\ UNCHANGED <<disk, v_obj, writing, rest, script>>

Command ==
    /\ running = "script" /\ ~writing
    /\ commands < MaxCommands
    /\ commands' = commands + 1
    /\ UNCHANGED <<running, rest, ran>>

\* arscp_create: the temporary archive is made anew, and becomes the current one.
Create_InPlace(content, out) ==
    /\ disk' = [disk EXCEPT ![Tmp] = content, ![out] = content]
    /\ target' = out
    /\ tmpac' = TRUE
    /\ bsdar' = [bsdar EXCEPT !.filename = out]

Create(content, out) ==
    /\ disk' = [disk EXCEPT ![Tmp] = content]
    /\ target' = out
    /\ tmpac' = TRUE
    /\ bsdar' = [bsdar EXCEPT !.filename = Tmp]

CreateCmd(f) == Command /\ Create(EmptyImage, f) /\ UNCHANGED <<v_obj, writing>>

ClearCmd ==
    /\ Command
    /\ target # None
    /\ Create(EmptyImage, target)
    /\ UNCHANGED <<v_obj, writing>>

\* archive_read_next_header finds something in the archive.
HasHeader(img) == img.table \/ img.strsz > 0 \/ img.members # <<>>

OpenCmd(f) ==
    /\ Command
    /\ Exists(f)
    /\ IF HasHeader(disk[f]) THEN Create(disk[f], f) ELSE UNCHANGED <<disk, target, tmpac, bsdar>>
    /\ UNCHANGED <<v_obj, writing>>

\* The copy fails after n members.  The file name is then in memory that was freed,
\* where strdup() may have put the new one.
OpenFails(f, n) ==
    /\ Command
    /\ CopyFails
    /\ Exists(f) /\ HasHeader(disk[f])
    /\ n < Len(disk[f].members)
    /\ disk' = [disk EXCEPT ![Tmp] = [disk[f] EXCEPT !.members = SubSeq(@, 1, n)]]
    /\ tmpac' = TRUE
    /\ \E name \in {Tmp, Freed} :
           bsdar' = [bsdar EXCEPT !.filename = IF @ = None THEN None ELSE name]
    /\ UNCHANGED <<target, v_obj, writing>>

\* An archive that cannot be opened ends the program.
OpenMissing(f) ==
    /\ running = "script" /\ ~writing /\ commands < MaxCommands
    /\ ~Exists(f)
    /\ Exit
    /\ UNCHANGED <<disk, ran>>

EditCmd(mode, argv, lib) ==
    /\ Command
    /\ target # None
    /\ bsdar.filename = Tmp
    /\ StartWrite(Tmp, mode, argv, None, bsdar.opts, lib)
    /\ UNCHANGED <<bsdar, target, tmpac>>

AddlibCmd(f, argv) == Exists(f) /\ EditCmd("A", argv, disk[f])
AddmodCmd(argv) == EditCmd("q", argv, EmptyImage)
DeleteCmd(argv) == EditCmd("d", argv, EmptyImage)
ReplaceCmd(argv) == EditCmd("r", argv, EmptyImage)

SaveCmd ==
    /\ Command
    /\ target # None
    /\ disk' = [disk EXCEPT ![target] = disk[Tmp], ![Tmp] = NoArchive]
    /\ target' = None
    /\ tmpac' = FALSE
    /\ bsdar' = [bsdar EXCEPT !.filename = None]
    /\ UNCHANGED <<v_obj, writing>>

\* DIRECTORY lists an archive, and leaves bsdar->filename naming the temporary one.
DirectoryCmd(f) ==
    /\ Command
    /\ Exists(f)
    /\ bsdar' = [bsdar EXCEPT !.filename = IF tmpac THEN Tmp ELSE None]
    /\ UNCHANGED <<disk, target, tmpac, v_obj, writing>>

EndCmd ==
    /\ running = "script" /\ ~writing
    /\ disk' = [disk EXCEPT ![Tmp] = NoArchive]
    /\ Exit
    /\ UNCHANGED ran

ScriptStep ==
    \/ \E f \in Archives : CreateCmd(f) \/ OpenCmd(f) \/ OpenMissing(f) \/ DirectoryCmd(f)
    \/ \E f \in Archives, n \in 0..3 : OpenFails(f, n)
    \/ \E argv \in ScriptArgs : AddmodCmd(argv) \/ DeleteCmd(argv) \/ ReplaceCmd(argv)
    \/ \E f \in Archives, argv \in ScriptArgs \cup {<<>>} : AddlibCmd(f, argv)
    \/ ClearCmd \/ SaveCmd \/ EndCmd

Next ==
    \/ \E f \in Archives, line \in Lines : RunAr(f, line)
    \/ \E fs \in RanlibArgs : RunRanlib(fs)
    \/ \E opts \in ScriptOpts : RunScript(opts)
    \/ NextRanlib \/ RanlibDone
    \/ Write \/ Crash \/ \E n \in 0..3 : WriteFailsAfter(n)
    \/ ScriptStep

Spec == Init /\ [][Next]_vars

(***************************************************************************)
(* Properties.                                                             *)
(***************************************************************************)
\* Every file is an archive or missing, an edit is pending only while a program
\* runs, and a script has a temporary archive for its target.
ArType ==
    /\ DOMAIN disk = Archives \cup {Tmp}
    /\ running \in {None, "ar", "ranlib", "script"}
    /\ writing => running # None /\ bsdar.filename \in Archives \cup {Tmp}
    /\ target \in Archives \cup {None}
    /\ target # None => running = "script" /\ tmpac /\ Exists(Tmp)
    /\ tmpac => Exists(Tmp)

\* The table a reader of the archive needs: each global symbol of each member, with
\* the place of that member in the file.
NeededEntries(img) ==
    FlattenSeq([i \in 1..Len(img.members) |->
        [k \in 1..Len(img.members[i].syms) |->
            [sym |-> img.members[i].syms[k], off |-> MemberOffset(img, i)]]])

\* A symbol table is right: it lists exactly the symbols of the members, and each
\* offset, worked out before anything was written, is where libarchive then puts
\* the member (write.c:728-735, ar.1:150).  An archive torn while it was written or
\* copied has at least the entries of the members it still holds.
SymtabRight ==
    \A f \in Archives : Exists(f) /\ disk[f].table =>
        IF WriteFails \/ CopyFails THEN IsPrefix(NeededEntries(disk[f]), disk[f].entries)
        ELSE disk[f].entries = NeededEntries(disk[f])

\* The members an edit has no business with: no argument names them, or it asks
\* for a file that is not there or not newer (ar.1:299, ar.1:336).
Named(m, e) == \E i \in DOMAIN e.argv : SameName(e.argv[i], m, e.opts)

Untouchable(m, e) ==
    \/ e.mode \in {"q", "s", "A"}
    \/ ~Named(m, e)
    \/ e.mode = "r" /\ \A i \in DOMAIN e.argv :
           SameName(e.argv[i], m, e.opts) => ~CreateObj(e.argv[i], m.mtime, e.opts)

\* Members that the edit does not concern are all kept, unchanged and in their
\* order, whatever is deleted, moved, replaced or inserted around them
\* (ar_write_archive, write.c:460-504).
OthersKept ==
    writing /\ ~v_obj.freed =>
        LET before == Contents(bsdar.filename).members
            objs == v_obj.objs
            left == {k \in DOMAIN objs : objs[k].id =< Len(before) /\ Untouchable(objs[k], v_obj)}
        IN  /\ \A i \in DOMAIN before : Untouchable(before[i], v_obj) =>
                   \E k \in DOMAIN objs : objs[k].id = i
            /\ \A k \in left : Stored(objs[k]) = before[objs[k].id]
            /\ \A j, k \in left : j < k => objs[j].id < objs[k].id

\* An argument deals with one member: as many members go as arguments were found,
\* even when several members have one name (the break of write.c:501).
OneMemberPerArgument ==
    writing /\ v_obj.mode \in {"d", "m"} =>
        Len(v_obj.objs) + (IF v_obj.mode = "d" THEN Len(v_obj.argv) - Len(v_obj.left) ELSE 0)
            = Len(Contents(bsdar.filename).members)

\* The members a move or a replacement has put somewhere: new ones, and those moved
\* whose name no other member has.
Placeable(o, e, before) ==
    \/ o.id > Len(before)
    \/ e.mode = "m" /\ Named(o, e) /\ Cardinality({i \in DOMAIN before : before[i].name = o.name}) = 1

\* With -b the members moved or added stand together right before the position, and
\* with -a right after it (insert_obj, write.c:212-238; ar.1:157-184).
Placed ==
    writing /\ ~v_obj.freed /\ v_obj.opts \cap {"a", "b"} # {} =>
        \A p, i \in DOMAIN v_obj.objs :
            /\ v_obj.objs[p].id = v_obj.pos /\ ~Named(v_obj.objs[p], v_obj)
            /\ Placeable(v_obj.objs[i], v_obj, Contents(bsdar.filename).members)
            => IF "b" \in v_obj.opts
               THEN i < p /\ \A j \in i..(p - 1) : Named(v_obj.objs[j], v_obj)
               ELSE i > p /\ \A j \in (p + 1)..i : Named(v_obj.objs[j], v_obj)

Editor == INSTANCE ArEditor WITH
              AtFirst <- StartDisk, Empty <- EmptyImage, NoCurrent <- None,
              saved <- [f \in Archives |-> disk[f]],
              work <- IF target = None THEN NoArchive ELSE disk[Tmp],
              current <- target, scripted <- running = "script"

\* A script changes its current archive only by SAVE, and every other archive never;
\* a program that stops, fails to write or is told END leaves them all as they were
\* (acpyacc.y:273-326, 467-491, 514-527).
ScriptsEditCopies == Editor!Spec

(***************************************************************************)
(* What the documentation says that the code does not do.                  *)
(***************************************************************************)
\* ar.1:297: "Replacing existing members will not change the order of members
\* within the archive."
ReplaceKeepsOrder ==
    writing /\ v_obj.mode = "r" =>
        LET before == Contents(bsdar.filename).members
        IN  Len(v_obj.objs) = Len(before) =>
                \A i \in DOMAIN before : v_obj.objs[i].name = before[i].name

\* write.c:220: "If the object to move happens to be the position obj", it goes to
\* the end: the position is always an object of the list.
PositionIsLive == writing => ~v_obj.freed

\* write.c:750: ranlib writes "the symbol table even if it is empty".
SymbolsNeverMissing == writing => ~Written.crashes

\* ar.1:282: "Append the files specified by arguments".
AppendedIsThere ==
    [][running = "ar" /\ writing /\ running' = None /\ v_obj.mode = "q" /\ ~Corrupt(Written) =>
           [i \in DOMAIN v_obj.objs |-> Stored(v_obj.objs[i])] = disk'[bsdar.filename].members]_vars

\* ar.1:527: OPEN makes the archive "the current archive".
OpenMakesCurrent ==
    [][\A f \in Archives : OpenCmd(f) => target' = f]_vars

\* ar.1:537: SAVE commits "all changes to the current archive": what it commits is
\* what the commands made of the working copy of that archive.
WorkingCopyKept ==
    [][running = "script" /\ running' = "script" /\ ~writing /\ target # None /\ target' = target =>
           disk'[Tmp] \in {disk[Tmp], disk[target], EmptyImage}]_vars

\* ar.1:534: "the named modules must already exist in the current archive".
ReplaceOnlyReplaces ==
    writing /\ running = "script" /\ v_obj.mode = "r" =>
        Len(v_obj.objs) = Len(disk[Tmp].members)
=============================================================================
