---------------------------- MODULE ArMembers ----------------------------
(***************************************************************************)
(* How ar(1) edits the members of an archive and writes it, ar/write.c.    *)
(*                                                                         *)
(* All members are read into a list, v_obj; members are deleted, moved,    *)
(* replaced and added there; then the archive is written anew, with a      *)
(* symbol table whose offsets are worked out before anything is written.   *)
(* ArProgram runs these operators from a command line and from a script.   *)
(***************************************************************************)
EXTENDS Integers, SequencesExt, FiniteSetsExt

CONSTANTS Names,        \* names of files and of members
          Files,        \* what the file of each name holds: [size, syms, mtime]
          NameLen,      \* the length of each name, and of each symbol
          Short         \* the first 15 characters of each name

NoFile == [size |-> -1, syms |-> <<>>, mtime |-> 0]

ASSUME NamesAssumption ==
    /\ NameLen \in [DOMAIN NameLen -> Nat]
    /\ \A n \in Names :
          /\ {n, Short[n]} \subseteq DOMAIN NameLen
          /\ Files[n] \in [size : Nat, syms : Seq(DOMAIN NameLen), mtime : Nat] \cup {NoFile}

(***************************************************************************)
(* An archive in the file system: a symbol table, a table of long names    *)
(* and the members.  The offsets of members are those libarchive gives.    *)
(***************************************************************************)
Members == [name : DOMAIN NameLen, size : Nat, syms : Seq(DOMAIN NameLen), mtime : Nat]
Entries == [sym : DOMAIN NameLen, off : Nat]
Images == [bsd : BOOLEAN, table : BOOLEAN, tablesz : Nat, entries : Seq(Entries),
           strsz : Nat, members : Seq(Members)]

HdrLen == 60
MagicLen == 8
RoundUp2(n) == n + (n % 2)

LongName(n, bsd) == NameLen[n] > IF bsd THEN 16 ELSE 15

\* The bytes of a member, with its header and padding.
Space(m, bsd) ==
    HdrLen + RoundUp2(m.size + IF bsd /\ LongName(m.name, bsd) THEN NameLen[m.name] ELSE 0)

TotalSpace(objs, bsd) == FoldLeft(LAMBDA n, m : n + Space(m, bsd), 0, objs)

MemberOffset(img, i) ==
    MagicLen
    + (IF img.table THEN HdrLen + img.tablesz ELSE 0)
    + (IF img.strsz > 0 THEN HdrLen + img.strsz ELSE 0)
    + TotalSpace(SubSeq(img.members, 1, i - 1), img.bsd)

EmptyImage == [bsd |-> FALSE, table |-> FALSE, tablesz |-> 0, entries |-> <<>>,
               strsz |-> 0, members |-> <<>>]

(***************************************************************************)
(* The list v_obj.  An object has an identity, id, because the position    *)
(* given by -a or -b is a pointer to one.                                  *)
(***************************************************************************)
Object(m, id) == [name |-> m.name, size |-> m.size, syms |-> m.syms, mtime |-> m.mtime, id |-> id]
Stored(o) == [name |-> o.name, size |-> o.size, syms |-> o.syms, mtime |-> o.mtime]

ReadObjs(img) == [i \in 1..Len(img.members) |-> Object(img.members[i], i)]

\* create_obj_from_file makes an object of the file n, unless there is none or, with
\* -u, it is not newer than the member it would replace.
FileObject(n, opts, id) ==
    [name |-> IF "T" \in opts THEN Short[n] ELSE n, size |-> Files[n].size, syms |-> Files[n].syms,
     mtime |-> IF "D" \in opts THEN 0 ELSE Files[n].mtime, id |-> id]

CreateObj(n, mtime, opts) ==
    /\ Files[n] # NoFile
    /\ "u" \in opts /\ mtime # 0 => Files[n].mtime > mtime

\* The state of an edit: the list, the position, the options, the arguments not
\* dealt with yet, the next identity, and whether memory that was freed was used.
Edit(objs, mode, argv, posarg, opts) ==
    LET p == SelectInSeq(objs, LAMBDA o : o.name = posarg)
        given == mode \in {"d", "m", "r"} /\ opts \cap {"a", "b"} # {}
    IN  [objs |-> objs, mode |-> mode, argv |-> argv,
         pos |-> IF given THEN p ELSE 0,
         opts |-> IF given /\ p = 0 THEN opts \ {"a", "b"} ELSE opts,
         left |-> <<>>, id |-> Len(objs) + 1, freed |-> FALSE]

InsertObj(e, o) ==
    LET p == SelectInSeq(e.objs, LAMBDA x : x.id = e.pos)
    IN  IF e.pos = 0 \/ o.id = e.pos THEN [e EXCEPT !.objs = Append(@, o)]
        ELSE IF p = 0 THEN [e EXCEPT !.freed = TRUE]
        ELSE IF "b" \in e.opts THEN [e EXCEPT !.objs = InsertAt(@, p, o)]
        ELSE IF "a" \in e.opts THEN [e EXCEPT !.objs = InsertAt(@, p + 1, o)]
        ELSE [e EXCEPT !.objs = Append(@, o)]

SameName(n, o, opts) == IF "T" \in opts THEN Short[n] = Short[o.name] ELSE n = o.name

\* One argument of mode q, or one left in mode r: its file becomes a new member.
AddArg(e, n) ==
    IF CreateObj(n, 0, e.opts)
    THEN InsertObj([e EXCEPT !.id = @ + 1], FileObject(n, e.opts, e.id))
    ELSE e

\* One argument of modes d, m and r: the first member of its name is deleted,
\* moved or replaced.  A member that is not replaced stays where it is.

EditArg_RemovedFirst(e, n) ==
    LET k == SelectInSeq(e.objs, LAMBDA x : SameName(n, x, e.opts))
    IN  IF k = 0 \/ e.mode # "r" THEN e ELSE AddArg([e EXCEPT !.objs = RemoveAt(@, k)], n)

EditArg(e, n) ==
    LET k == SelectInSeq(e.objs, LAMBDA x : SameName(n, x, e.opts))
        removed == [e EXCEPT !.objs = RemoveAt(@, k), !.id = @ + 1]
    IN  IF k = 0 THEN [e EXCEPT !.left = Append(@, n)]
        ELSE CASE e.mode = "d" -> removed
               [] e.mode = "m" -> InsertObj(removed, e.objs[k])
               [] e.mode = "r" ->
                      IF CreateObj(n, e.objs[k].mtime, e.opts)
                      THEN InsertObj(removed, FileObject(n, e.opts, e.id))
                      ELSE e

\* read_objs with checkargv: each argument takes one member.
TakeNamed(img, argv) ==
    FoldLeft(LAMBDA t, m :
                LET k == SelectInSeq(t.left, LAMBDA n : n = m.name)
                IN  IF k = 0 THEN t
                    ELSE [objs |-> Append(t.objs, m), left |-> RemoveAt(t.left, k)],
             [objs |-> <<>>, left |-> argv], img.members).objs

\* ar_write_archive up to the point where the archive is written: img is what the
\* archive holds, and addlib what the archive named by ADDLIB holds.
EditArchive(img, mode, argv, posarg, opts, addlib) ==
    LET e0 == Edit(ReadObjs(img), mode, argv, posarg, opts)
        e1 == FoldLeft(EditArg, e0, argv)
        lib == IF argv = <<>> THEN addlib.members ELSE TakeNamed(addlib, argv)
    IN  CASE mode = "s" -> e0
          [] mode = "A" -> [e0 EXCEPT !.objs = @ \o [i \in 1..Len(lib) |-> Object(lib[i], e0.id + i)]]
          [] mode = "q" -> FoldLeft(AddArg, e0, argv)
          [] mode = "r" -> FoldLeft(AddArg, e1, e1.left)
          [] OTHER      -> e1

(***************************************************************************)
(* write_objs.  s_cnt and s_sn_sz are set back to 0 only when the first    *)
(* symbol is added to a table that write_cleanup freed, so carry brings    *)
(* them from one archive written by a program to the next one.             *)
(***************************************************************************)
NoCarry == [s_cnt |-> 0, s_sn_sz |-> 0]

\* The symbols of the members, each with the offset of its member's header from
\* the end of the tables, which rela_off holds.
RelativeEntries(objs, bsd) ==
    FlattenSeq([i \in 1..Len(objs) |->
        [k \in 1..Len(objs[i].syms) |->
            [sym |-> objs[i].syms[k], off |-> TotalSpace(SubSeq(objs, 1, i - 1), bsd)]]])

\* The bytes of the names of the symbols, each with its NUL.
NamesSize(entries) == FoldLeft(LAMBDA n, e : n + NameLen[e.sym] + 1, 0, entries)

\* The bytes of the string table "//": each long name is followed by "/\n".
StringTableSize(objs, bsd) ==
    IF bsd THEN 0
    ELSE RoundUp2(FoldLeft(LAMBDA n, o : n + IF LongName(o.name, bsd) THEN NameLen[o.name] + 2 ELSE 0,
                           0, objs))

SymtabSize(cnt, snsz, bsd) == IF bsd THEN 16 + 16 * cnt + snsz ELSE 4 + 4 * cnt + snsz

\* The size of everything in front of the members.
TablesSize_NoStringTable(symsz, strsz) == MagicLen + HdrLen + symsz
TablesSize(symsz, strsz) ==
    MagicLen + HdrLen + symsz + IF strsz > 0 THEN HdrLen + strsz ELSE 0

\* What is left in bsdar once the symbols of the members have been added.
CountSymbols(entries, carry) ==
    IF entries = <<>> THEN carry
    ELSE [s_cnt |-> Len(entries), s_sn_sz |-> NamesSize(entries)]

\* What is written of the list.  A member of size 0 has no Elf: elf_rawfile() fails
\* for it and it is left out.
WrittenMembers(objs) ==
    FoldLeft(LAMBDA ms, o : IF o.size > 0 THEN Append(ms, Stored(o)) ELSE ms, <<>>, objs)

\* The archive written.
WriteObjs(objs, opts, carry) ==
    LET bsd     == "F" \in opts
        entries == IF "S" \in opts THEN <<>> ELSE RelativeEntries(objs, bsd)
        counted == CountSymbols(entries, carry)
        snsz    == IF counted.s_cnt # 0 THEN RoundUp2(counted.s_sn_sz) ELSE counted.s_sn_sz
        strsz   == StringTableSize(objs, bsd)
        symsz   == SymtabSize(counted.s_cnt, snsz, bsd)
        table   == counted.s_cnt # 0 \/ "s" \in opts
    IN  [carry   |-> [s_cnt |-> counted.s_cnt, s_sn_sz |-> snsz],
         \* offsets are written to an array that was freed
         crashes |-> entries = <<>> /\ counted.s_cnt # 0,
         image   |-> [bsd |-> bsd, table |-> table,
                      tablesz |-> IF table THEN symsz ELSE 0,
                      entries |-> [i \in 1..Len(entries) |->
                          [entries[i] EXCEPT !.off = @ + TablesSize(symsz, strsz)]],
                      strsz |-> strsz,
                      members |-> WrittenMembers(objs)]]
=============================================================================
