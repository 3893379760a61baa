----------------------------- MODULE ElfHandles -----------------------------
(***************************************************************************)
(* The lifetime of libelf descriptors (struct _Elf): activation counts,    *)
(* the tree of an ar(1) archive and its open members, and the memory each  *)
(* descriptor holds (src/libelf/elf_begin.c, elf_memory.c, libelf_open.c,  *)
(* libelf_ar_util.c, libelf_ar.c, elf_end.c, libelf_allocate.c).           *)
(*                                                                         *)
(* An archive whose last activation is ended while members are open stays  *)
(* allocated until the last of them is ended, so elf_end may climb from a  *)
(* member to its archive, and further when the archive is itself a member. *)
(* The loop of elf_end is the machine's steps; every other call is atomic. *)
(* The heap and the mappings are the sets res: a call that fails without   *)
(* leaving anything allocated changes nothing and is not an action.        *)
(***************************************************************************)
EXTENDS Naturals, FiniteSets
LOCAL INSTANCE TLC

CONSTANTS
    Handles,   \* addresses of Elf structures
    None,      \* NULL
    MaxRefs    \* bound: activations of one descriptor

ASSUME HandlesAssumption ==
    /\ None \notin Handles /\ IsFiniteSet(Handles)
    /\ MaxRefs \in Nat \ {0}

\* Structures differ in nothing but their addresses (TLC checks one of each kind).
Symmetry == Permutations(Handles)

\* What the bytes of a file or of a member are: an ELF object, an ELF object of
\* an unknown class or version, an archive, one with a damaged first header, or
\* neither.
Contents == {"ELF", "BADELF", "AR", "BADAR", "OTHER"}

\* What a descriptor may hold besides other descriptors: its own structure, the
\* file it read or mapped, the header elf_getarhdr translated, the table
\* elf_getarsym translated, and its section descriptors and headers.
Resources == {"elf", "raw", "arhdr", "symtab", "scns"}

VARIABLES
    elf,    \* handle -> the structure's fields
    res,    \* handle -> what is allocated for it
    own,    \* handle -> successful opens the application has not ended
    cur,    \* the descriptor elf_end is at, or None
    freed   \* what the last step freed

vars == <<elf, res, own, cur, freed>>

\* e_kind, e_cmd, e_activations, e_u.e_ar.e_nchildren, e_parent, and the
\* flags LIBELF_F_RAWFILE_* (file) and LIBELF_F_AR_HEADER (arh).
ElfRec == [kind : {"ELF", "AR", "NONE"}, cmd : {"READ", "RDWR", "WRITE"}, act : Nat,
           nch : Nat, parent : Handles \cup {None}, file : BOOLEAN, arh : BOOLEAN]

\* calloc'ed by _libelf_allocate_elf, with one activation.
Fresh == [kind |-> "NONE", cmd |-> "READ", act |-> 1, nch |-> 0, parent |-> None,
          file |-> FALSE, arh |-> FALSE]

Live == {h \in Handles : "elf" \in res[h]}
Unused == {h \in Handles : res[h] = {}}
Children(a) == {h \in Live : elf[h].parent = a}

Init ==
    /\ elf = [h \in Handles |-> Fresh] /\ res = [h \in Handles |-> {}]
    /\ own = [h \in Handles |-> 0] /\ cur = None /\ freed = {}

----------------------------------------------------------------------------
(* Opening. *)

Call == cur = None /\ cur' = None /\ freed' = {}

\* The kind _libelf_memory gives a descriptor.  With reporterror a bad ELF header
\* or a bad archive is an error, otherwise the descriptor is of no kind.
Kind(c) == IF c \in {"ELF", "AR"} THEN c ELSE "NONE"
Rejected(c, rep) == rep /\ c \in {"BADELF", "BADAR"}

Return(h, e, r) ==
    /\ elf' = [elf EXCEPT ![h] = e]
    /\ res' = [res EXCEPT ![h] = r]
    /\ own' = [own EXCEPT ![h] = 1]

\* What a failed open leaves allocated in h, which nobody is given.
Abandon(h, r) ==
    /\ elf' = [elf EXCEPT ![h] = Fresh]
    /\ res' = [res EXCEPT ![h] = r]
    /\ UNCHANGED own

\* elf_begin(fd, ELF_C_WRITE, a): the descriptor a is ignored.
BeginWrite(h) ==
    /\ Call /\ h \in Unused
    /\ Return(h, [Fresh EXCEPT !.kind = "ELF", !.cmd = "WRITE"], {"elf"})

\* _libelf_open_object for ELF_C_READ and ELF_C_RDWR: elf_begin(fd, c, NULL)
\* reports errors, elf_open(fd) does not.  The file is read or mapped first; when
\* _libelf_memory fails it is unmapped, but _libelf_ar_open has then dropped the
\* descriptor; an archive opened for ELF_C_RDWR is ended before the descriptor
\* has been told that it owns the mapping.
OpenFile(h, c, what, rep) ==
    /\ Call /\ h \in Unused /\ (c = "RDWR" => rep)
    /\ IF Rejected(what, rep) THEN what = "BADAR" /\ Abandon(h, {"elf"})
       ELSE IF c = "RDWR" /\ what = "AR" THEN Abandon(h, {"raw"})
       ELSE Return(h, [Fresh EXCEPT !.kind = Kind(what), !.cmd = c,
                                    !.file = TRUE], {"elf", "raw"})

\* elf_memory(image, size), and elf_openmemory, which does not report errors: the
\* image is the application's.
OpenMemory(h, what, rep) ==
    /\ Call /\ h \in Unused
    /\ IF Rejected(what, rep) THEN what = "BADAR" /\ Abandon(h, {"elf"})
       ELSE Return(h, [Fresh EXCEPT !.kind = Kind(what)], {"elf"})

\* elf_begin(fd, ELF_C_READ, a) where a is an archive: the member at e_next, its
\* bytes inside those of the archive.
Adopted(a) == [elf[a] EXCEPT !.nch = @ + 1]

OpenMember(h, a, what) ==
    /\ Call /\ h \in Unused /\ own[a] > 0
    /\ elf[a].kind = "AR" /\ elf[a].cmd = "READ"
    /\ IF Rejected(what, TRUE) THEN what = "BADAR" /\ Abandon(h, {"elf"})
       ELSE /\ elf' = [elf EXCEPT ![h] = [Fresh EXCEPT !.kind = Kind(what), !.parent = a],
                                  ![a] = Adopted(a)]
            /\ res' = [res EXCEPT ![h] = {"elf"}]
            /\ own' = [own EXCEPT ![h] = 1]

\* elf_begin(fd, ELF_C_READ, e) on anything else counts one more activation.
Activated_Not(e) == e
Activated(e) == [e EXCEPT !.act = @ + 1]

Reopen(h) ==
    /\ Call /\ own[h] \in 1..MaxRefs - 1
    /\ elf[h].kind # "AR" /\ elf[h].cmd = "READ"
    /\ elf' = [elf EXCEPT ![h] = Activated(@)]
    /\ own' = [own EXCEPT ![h] = @ + 1]
    /\ UNCHANGED res

----------------------------------------------------------------------------
(* Using. *)

\* elf_getarhdr(e): an error for a descriptor that is not a member.
GetArhdr(h) ==
    /\ Call /\ own[h] > 0 /\ elf[h].parent # None /\ ~elf[h].arh
    /\ elf' = [elf EXCEPT ![h].arh = TRUE]
    /\ res' = [res EXCEPT ![h] = @ \cup {"arhdr"}]
    /\ UNCHANGED own

\* elf_getarsym(ar)
GetArsym(h) ==
    /\ Call /\ own[h] > 0 /\ elf[h].kind = "AR"
    /\ res' = [res EXCEPT ![h] = @ \cup {"symtab"}]
    /\ UNCHANGED <<elf, own>>

\* elf_getscn, elf_newscn, elf_getdata, elf_getehdr, ... on an ELF object
Load(h) ==
    /\ Call /\ own[h] > 0 /\ elf[h].kind = "ELF"
    /\ res' = [res EXCEPT ![h] = @ \cup {"scns"}]
    /\ UNCHANGED <<elf, own>>

----------------------------------------------------------------------------
(* elf_end *)

EndBegin(h) ==
    /\ cur = None /\ own[h] > 0 /\ freed' = {}
    /\ own' = [own EXCEPT ![h] = @ - 1]
    /\ elf' = [elf EXCEPT ![h].act = @ - 1]
    /\ cur' = IF elf[h].act = 1 THEN h ELSE None
    /\ UNCHANGED res

\* An archive with open members is reclaimed when the last of them is.
Deferred_Never(e) == FALSE
Deferred(e) == e.kind = "AR" /\ e.nch > 0

EndDefer ==
    /\ cur # None /\ Deferred(elf[cur])
    /\ cur' = None /\ freed' = {}
    /\ UNCHANGED <<elf, res, own>>

\* What elf_end and _libelf_release_elf free of descriptor h.
Releases(h) ==
    {"elf"} \cup (IF elf[h].file THEN {"raw"} ELSE {})
            \cup (IF elf[h].kind = "AR" THEN res[h] \cap {"symtab"} ELSE {})
            \cup (IF elf[h].kind = "ELF"
                  THEN (res[h] \cap {"scns"}) \cup (IF elf[h].arh THEN {"arhdr"} ELSE {})
                  ELSE {})

\* The loop goes on to the parent if nobody else holds it.
Climb_Never(p) == None
Climb(p) == IF p # None /\ elf[p].act = 0 THEN p ELSE None

EndRelease ==
    LET p == elf[cur].parent
    IN  /\ cur # None /\ ~Deferred(elf[cur])
        /\ freed' = Releases(cur) \X {cur}
        /\ res' = [res EXCEPT ![cur] = @ \ Releases(cur)]
        /\ elf' = [h \in Handles |-> IF h = cur THEN Fresh
                                    ELSE IF h = p THEN [elf[p] EXCEPT !.nch = @ - 1]
                                    ELSE elf[h]]
        /\ cur' = Climb(p)
        /\ UNCHANGED own

----------------------------------------------------------------------------
Open(h) ==
    \/ BeginWrite(h)
    \/ \E what \in Contents, rep \in BOOLEAN :
         OpenMemory(h, what, rep) \/ \E c \in {"READ", "RDWR"} : OpenFile(h, c, what, rep)
    \/ \E a \in Handles, what \in Contents : OpenMember(h, a, what)

Use(h) == Reopen(h) \/ GetArhdr(h) \/ GetArsym(h) \/ Load(h)

Next ==
    \/ \E h \in Handles : Open(h) \/ Use(h) \/ EndBegin(h)
    \/ EndDefer \/ EndRelease

Spec == Init /\ [][Next]_vars

----------------------------------------------------------------------------
(* Properties *)

\* Every variable has its type; no count of struct _Elf wraps below zero.
TypeOK ==
    /\ elf \in [Handles -> ElfRec] /\ res \in [Handles -> SUBSET Resources]
    /\ own \in [Handles -> Nat] /\ cur \in Handles \cup {None}
    /\ freed \in SUBSET (Resources \X Handles)

\* A descriptor the application still holds is allocated, and its activation
\* count is the number of times the application may still end it.
HeldIsLive ==
    \A h \in Handles : own[h] > 0 => h \in Live /\ elf[h].act = own[h]

\* The archive of an open member is allocated, and so are the bytes of the file
\* that the member's e_rawfile points into, up to the outermost archive.
MemberHasArchive ==
    \A h \in Live : elf[h].parent # None =>
        LET p == elf[h].parent
        IN  p \in Live /\ elf[p].kind = "AR" /\ (elf[p].file => "raw" \in res[p])

\* e_nchildren counts the open members, so that the deferred elf_end of an
\* archive is made good by the last of them and by no other.
ChildrenCounted ==
    \A a \in Live : elf[a].kind = "AR" => elf[a].nch = Cardinality(Children(a))

\* elf_end frees nothing that is not allocated: nothing twice, and neither the
\* bytes of an archive with a member nor the image given to elf_memory.
FreesOnlyAllocated ==
    [][\A x \in freed' : x[1] \in res[x[2]]]_vars

\* A descriptor that was given to the application is reclaimed as soon as the
\* application holds neither it nor a member of it: the reclaiming elf_end
\* deferred is neither lost nor left half way up the tree.
NothingKept ==
    cur = None => \A h \in Live :
        elf[h].act = 0 => Children(h) # {}

(* "elf_end is used to release the resources associated with an ELF descriptor" *)
(* (elf_end.3:40): when the application holds no descriptor nothing is left.    *)

Idle == cur = None /\ \A h \in Handles : own[h] = 0

\* Every file that was mapped or read in is unmapped or freed.
MappingReleased == Idle => \A h \in Handles : "raw" \notin res[h]

\* Every archive member header elf_getarhdr allocated is freed.
ArhdrReleased == Idle => \A h \in Handles : "arhdr" \notin res[h]

\* Every Elf structure is freed.
DescriptorReleased == Idle => Live = {}
=============================================================================
