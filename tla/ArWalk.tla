------------------------------- MODULE ArWalk -------------------------------
(***************************************************************************)
(* Reading an ar(1) archive through libelf: where elf_begin finds the      *)
(* first member, and how elf_begin, elf_next and elf_rand share the cursor *)
(* e_next of the archive descriptor (src/libelf/libelf_ar_util.c,          *)
(* libelf_ar.c, elf_next.c, elf_rand.c).  The application may hold several *)
(* members open and call these functions in any order.                     *)
(*                                                                         *)
(* An archive is a sequence of items, each a header and the bytes that     *)
(* follow; the offsets in the file follow from their sizes.  Numeric       *)
(* header fields are well formed, and the bytes of a member are never      *)
(* mistaken for a header.                                                  *)
(***************************************************************************)
EXTENDS Integers, Sequences, FiniteSets

CONSTANTS
    Magic,     \* SARMAG, the size of the archive's magic string
    HdrSize,   \* sizeof(struct ar_hdr)
    Archives   \* the archives considered

ASSUME EvenAssumption ==
    Magic \in Nat \ {0} /\ HdrSize \in Nat \ {0} /\ Magic % 2 = 0 /\ HdrSize % 2 = 0

\* An item is the SVR4 symbol table "/", the SVR4 string table "//", the BSD
\* symbol table "__.SYMDEF" or a member; sz is ar_size, nsz the part of it a BSD
\* extended name takes, ok whether its bytes are acceptable to elf_memory.
Item == [name : {"sym", "str", "bsdsym", "file"}, sz : Nat, nsz : Nat, ok : BOOLEAN]

\* The last item of odd size may lack its padding byte (padded), and cut bytes
\* are missing at the end of the file.
Archive == [items : Seq(Item), padded : BOOLEAN, cut : Nat]

ASSUME ArchivesAssumption == Archives \subseteq Archive

VARIABLES
    ar,     \* the archive
    next,   \* e_u.e_ar.e_next
    open,   \* the items of which a descriptor is open
    last,   \* what the last elf_begin on the archive gave
    want    \* the item the next elf_begin should open

vars == <<ar, next, open, last, want>>

Adjust(n) == n + (n % 2)

\* Offset of the header of item k of archive a; one more for the end.
Start(a) ==
    LET n == Len(a.items)
        s[k \in 1..n + 1] ==
            IF k = 1 THEN Magic ELSE s[k - 1] + HdrSize + Adjust(a.items[k - 1].sz)
    IN  s

\* e_rawsize
RawSize(a) ==
    LET n == Len(a.items)
        odd == IF n = 0 \/ a.padded THEN 0 ELSE a.items[n].sz % 2
    IN  Start(a)[n + 1] - odd - a.cut

HasHeader(a, k) == k <= Len(a.items) /\ Start(a)[k] + HdrSize <= RawSize(a)

\* Offset of the bytes of item k, and their number, for the descriptor elf_begin
\* makes of it.  Nothing compares the length a BSD name claims with ar_size: a
\* number below zero stands for the size_t that wraps, of which elf_memory refuses
\* zero alone and elf_next takes an off_t back.
Raw(a, k) == Start(a)[k] + HdrSize + a.items[k].nsz
RawLen(a, k) == a.items[k].sz - a.items[k].nsz

\* The items _libelf_ar_open skips, or 0 when it fails (ELF_E_ARCHIVE): the
\* position of the cursor is that of the item after them.
FirstItem_NoStrtab(a) == IF a.items[1].name = "file" THEN 1 ELSE 2
FirstItem(a) ==
    LET is(k, name) == HasHeader(a, k) /\ a.items[k].name = name
        damaged == \/ ~HasHeader(a, 1)
                   \/ a.items[1].name \in {"sym", "str"} /\ a.items[1].sz = 0
                   \/ is(1, "sym") /\ ~HasHeader(a, 2)
    IN  IF damaged THEN 0
        ELSE IF is(1, "sym") /\ is(2, "str") THEN 3
        ELSE IF is(1, "file") THEN 1 ELSE 2

\* elf_begin(fd, ELF_C_READ, NULL) on a file that is an archive it accepts.
Init ==
    /\ ar \in {a \in Archives : a.items # <<>> /\ FirstItem(a) > 0}
    /\ next = Start(ar)[FirstItem(ar)]
    /\ open = {} /\ last = <<"none">>
    /\ want = FirstItem(ar)

----------------------------------------------------------------------------
\* The item whose header is at offset o, if any.
ItemAt(o) == {k \in DOMAIN ar.items : Start(ar)[k] = o}

\* What _libelf_ar_open_member makes of the cursor: the end of the archive, the
\* descriptor of an item, or an error.
Found ==
    LET at == ItemAt(next)
        k == CHOOSE k \in at : TRUE
    IN  IF next = 0 THEN <<"end">>
        ELSE IF at = {} \/ ~HasHeader(ar, k) THEN <<"error", "ARCHIVE">>
        ELSE IF next + HdrSize + ar.items[k].sz > RawSize(ar) THEN <<"error", "ARCHIVE">>
        ELSE IF RawLen(ar, k) = 0 THEN <<"error", "ARGUMENT">>
        ELSE IF ~ar.items[k].ok THEN <<"error", "HEADER">>
        ELSE <<"item", k>>

\* elf_begin(fd, ELF_C_READ, archive)
Begin ==
    /\ last' = Found
    /\ open' = IF Found[1] = "item" THEN open \cup {Found[2]} ELSE open
    /\ UNCHANGED <<ar, next, want>>

\* elf_next(e) of the open member k: the cursor moves past that member, wherever
\* it was, and to 0 when nothing follows.
NextOffset_FromCursor(k) ==
    LET c == CHOOSE c \in DOMAIN ar.items : ItemAt(next) \in {{}, {c}}
    IN  Raw(ar, c) + RawLen(ar, c)
NextOffset(k) == Raw(ar, k) + RawLen(ar, k)

IsLast(o) == o >= RawSize(ar)

NextOf(k) ==
    LET o == Adjust(NextOffset(k))
    IN  /\ k \in open
        /\ next' = IF IsLast(o) THEN 0 ELSE o
        /\ want' = k + 1 /\ last' = <<"none">>
        /\ UNCHANGED <<ar, open>>

\* elf_end(e)
End(k) ==
    /\ k \in open /\ open' = open \ {k}
    /\ UNCHANGED <<ar, next, last, want>>

\* elf_rand(archive, offset): refused unless offset is that of a header with at
\* least one byte of the file after it.
RandOk(o) == o % 2 = 0 /\ o >= Magic /\ o + HdrSize < RawSize(ar) /\ ItemAt(o) # {}

Rand(o) ==
    /\ RandOk(o) /\ next' = o
    /\ want' = (CHOOSE k \in ItemAt(o) : TRUE) /\ last' = <<"none">>
    /\ UNCHANGED <<ar, open>>

Next ==
    \/ Begin
    \/ \E k \in DOMAIN ar.items : NextOf(k) \/ End(k) \/ Rand(Start(ar)[k])

Spec == Init /\ [][Next]_vars

----------------------------------------------------------------------------
(* Properties *)

\* Every variable has its type.
TypeOK ==
    /\ ar \in Archives /\ next \in Nat /\ open \subseteq DOMAIN ar.items
    /\ last \in {<<"none">>, <<"end">>} \cup ({"error"} \X {"ARCHIVE", "ARGUMENT", "HEADER"})
                \cup ({"item"} \X DOMAIN ar.items)
    /\ want \in 1..Len(ar.items) + 1

\* Unless it is 0 the cursor is at the header of the item asked for last, or at
\* the end, and even (the assertion of libelf_ar.c:241): from the size of a member
\* as its descriptor knows it, without the bytes of a BSD name and without
\* padding, elf_next finds the header of the next one.
CursorOnHeader == next # 0 => next % 2 = 0 /\ next = Start(ar)[want]

\* Members are opened in the order of the file, from the first after the special
\* members, and where elf_rand pointed: however elf_next, elf_rand and elf_end of
\* several open members interleave, elf_begin gives what the last elf_next or
\* elf_rand asked for or no descriptor at all.
OpensWhatWasAsked == last[1] = "item" => last[2] = want

\* "`next' is only set to zero by elf_next() when the last member of an archive is
\* processed" (libelf_ar.c:232): a truncated or unpadded archive does not end
\* before its last header.
ZeroOnlyAtEnd == next = 0 => want = Len(ar.items) + 1 \/ ~HasHeader(ar, want)

\* "To rewind an archive": elf_rand(archive, SARMAG), elf_rand.3:83.  The
\* cursor is then where it was when the archive was opened.
RewindIsFirst == [][next' = Magic => want' = FirstItem(ar)]_vars

-----------------------------------------------------------------------------
(* Applications.  One calls elf_begin, elf_next, elf_rand and elf_end in   *)
(* any order.  The other is the loop of the EXAMPLES section of            *)
(* elf_begin(3) and elf_next(3), which the tools of this repository write  *)
(* too (size.c:592), over an archive without empty or damaged members:     *)
(*   while ((e = elf_begin(fd, c, ar)) != NULL)                            *)
(*     { ... c = elf_next(e); elf_end(e); }                                *)

VARIABLES pc, cur, seen   \* where the loop is, its e, the items it processed

loopvars == <<vars, pc, cur, seen>>

\* The file is complete, its special items are where ar(5) has them, and each member
\* has contents elf_memory accepts.
IsSound(a) ==
    /\ a.cut = 0
    /\ \A k \in DOMAIN a.items :
          IF a.items[k].name = "file" THEN a.items[k].ok /\ a.items[k].nsz < a.items[k].sz
          ELSE k = 1 \/ (k = 2 /\ a.items[2].name = "str" /\ a.items[1].name = "sym")

LoopInit ==
    /\ Init /\ cur = 0 /\ seen = <<>>
    /\ pc = "free" \/ (pc = "begin" /\ IsSound(ar))

FreeCall == pc = "free" /\ Next /\ UNCHANGED <<pc, cur, seen>>

LoopBegin ==
    /\ pc = "begin" /\ Begin
    /\ IF last'[1] = "item"
       THEN pc' = "next" /\ cur' = last'[2] /\ seen' = Append(seen, cur')
       ELSE pc' = "done" /\ UNCHANGED <<cur, seen>>

LoopNext ==
    /\ pc = "next" /\ NextOf(cur) /\ pc' = "end"
    /\ UNCHANGED <<cur, seen>>

LoopEnd ==
    /\ pc = "end" /\ End(cur) /\ pc' = "begin"
    /\ UNCHANGED <<cur, seen>>

\* The loop goes on as long as it is not done: it is one thread's.
LoopSpec ==
    /\ LoopInit /\ [][FreeCall \/ LoopBegin \/ LoopNext \/ LoopEnd]_loopvars
    /\ WF_loopvars(LoopBegin \/ LoopNext \/ LoopEnd)

----------------------------------------------------------------------------
\* The members: what follows the special items at the head of the archive.
Members ==
    LET n == Len(ar.items)
        head == CHOOSE h \in 0..n : \A k \in 1..n : ar.items[k].name = "file" <=> k > h
    IN  [k \in 1..n - head |-> head + k]

Scan == INSTANCE ArScan WITH
            todo <- IF pc = "free" THEN <<>> ELSE SubSeq(Members, Len(seen) + 1, Len(Members)),
            seen <- seen,
            done <- pc \in {"done", "free"}

\* The loop visits every member of a sound archive once, in order, and ends.
VisitsEachOnce == Scan!Spec
=============================================================================
