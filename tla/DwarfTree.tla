------------------------------ MODULE DwarfTree ------------------------------
(***************************************************************************)
(* libdwarf, from a tree of DIEs to the same tree: an application builds a *)
(* compilation unit with the producer, the unit is linked with another,    *)
(* and an application walks both with the consumer                         *)
(* (dwarf_pro_die.c, dwarf_pro_attr.c, libdwarf_info.c, dwarf_cu.c,        *)
(* dwarf_die.c, dwarf_form.c; DwarfDies has the bytes).                    *)
(*                                                                         *)
(* Units of the consumer are loaded one at a time, and abbreviations as    *)
(* far as they were needed, so what a call finds depends on the calls      *)
(* before it.  Calls with arguments that are NULL are left out.            *)
(***************************************************************************)
EXTENDS DwarfDies, FiniteSetsExt

CONSTANTS MaxDies,     \* bound: DIEs the application makes
          MaxAttrs,    \* bound: attributes it adds
          Consts,      \* the values of the constants among them
          Other        \* the unit linked with it: [dies, root]

VARIABLES dies,        \* the DIEs of the producer
          file,        \* what was made of them, or NoFile
          cus,         \* the units the consumer has loaded
          current,     \* dbg_cu_current: its place in cus, or None
          held         \* the DIE the application of the consumer holds

vars == <<dies, file, cus, current, held>>

NoFile == [units |-> <<>>, info |-> <<>>, size |-> 0]

Root == 1

Init ==
    /\ dies = <<FreshDie("unit")>> /\ file = NoFile
    /\ cus = <<>> /\ current = None /\ held = NoDie

-----------------------------------------------------------------------------
(* The producer.                                                           *)

\* A chain of siblings that is not below anything starts with d.
Detached(d) == d # Root /\ dies[d].parent = None /\ dies[d].left = None

RECURSIVE Below(_, _)
Below(ds, d) == IF d = None THEN {} ELSE {d} \cup Below(ds, ds[d].child) \cup Below(ds, ds[d].right)

\* Links that undo no other link: the place must be free.  What the code does
\* to a link that is in the way loses DIEs.
Free(ds, d, kind, other) ==
    LET head(x) == x # Root /\ ds[x].parent = None /\ ds[x].left = None
    IN  CASE kind = "parent" -> head(d) /\ other \notin Below(ds, d)
          [] kind = "child"  -> head(other) /\ ds[d].child = None /\ d \notin Below(ds, other)
          [] kind = "left"   -> head(d) /\ other # Root /\ ds[other].right = None /\ other \notin Below(ds, d)
          [] kind = "right"  -> head(other) /\ d # Root /\ ds[d].right = None /\ d \notin Below(ds, other)

Kinds == {"parent", "child", "left", "right"}

Producing == file = NoFile

\* dwarf_new_die
NewDie(kind, other) ==
    /\ Producing /\ Len(dies) < MaxDies
    /\ \E ds \in {Append(dies, FreshDie("entry"))} :
          /\ Free(ds, Len(ds), kind, other)
          /\ dies' = DieLink(ds, Len(ds), kind, other)
    /\ UNCHANGED <<file, cus, current, held>>

NewLooseDie ==
    /\ Producing /\ Len(dies) < MaxDies
    /\ dies' = Append(dies, FreshDie("entry"))
    /\ UNCHANGED <<file, cus, current, held>>

\* dwarf_die_link
LinkDie(d, kind, other) ==
    /\ Producing /\ d # other /\ Free(dies, d, kind, other)
    /\ dies' = DieLink(dies, d, kind, other)
    /\ UNCHANGED <<file, cus, current, held>>

\* The application is done with the links when it adds attributes.
Attributes(ds) == {<<d, i>> \in (DOMAIN ds) \X (1..MaxAttrs) : i \in DOMAIN ds[d].attrs}

\* Bound: of the trees that differ in the numbers of their DIEs only, those whose
\* numbers grow downwards and to the right.
Numbered == \A d \in DOMAIN dies : dies[d].parent < d /\ dies[d].left < d

MayAdd(d) ==
    /\ Producing /\ Len(dies) = MaxDies /\ Numbered
    /\ Cardinality(Attributes(dies)) < MaxAttrs
    /\ \A x \in DOMAIN dies : x > d => dies[x].attrs = <<>>

\* dwarf_add_AT_reference
AddReference(d, ref) ==
    /\ MayAdd(d) /\ dies' = AddAttr(dies, d, ReferenceTo("type", ref))
    /\ UNCHANGED <<file, cus, current, held>>

\* dwarf_add_AT_signed_const
AddConst(d, val) ==
    /\ MayAdd(d) /\ dies' = AddAttr(dies, d, SignedConst(val))
    /\ UNCHANGED <<file, cus, current, held>>

\* dwarf_add_AT_const_value_signedint
AddSignedInt(d, val) ==
    /\ MayAdd(d) /\ dies' = AddAttr(dies, d, SignedInt(val))
    /\ UNCHANGED <<file, cus, current, held>>

\* Each unit moves behind the one before it; its abbreviations stay its own.
Placed(g, base) == [off \in {o + base : o \in DOMAIN g.bytes} |-> g.bytes[off - base]]

Joined(a, b) ==
    [units |-> <<[off |-> 0, gen |-> a, table |-> AbbrevGen(a)],
                 [off |-> a.size, gen |-> b, table |-> AbbrevGen(b)]>>,
     info  |-> a.bytes @@ Placed(b, a.size),
     size  |-> a.size + b.size]

\* dwarf_transform_to_disk_form, and a linker that puts the unit before or after
\* the other one.  Every DIE is somewhere below the root.
Transform ==
    /\ Producing /\ Len(dies) = MaxDies /\ Numbered
    /\ \A d \in DOMAIN dies : d = Root \/ ~Detached(d)
    /\ \E mine \in {UnitGen(dies, Root)}, other \in {UnitGen(Other.dies, Other.root)} :
          file' \in {Joined(mine, other), Joined(other, mine)}
    /\ UNCHANGED <<dies, cus, current, held>>

-----------------------------------------------------------------------------
(* The consumer.                                                           *)

\* _dwarf_info_load: the headers from dbg_info_off on, one of them or all.
Header(i) ==
    LET u == file.units[i]
    IN  [off |-> u.off, first |-> u.off + HeaderSize, next |-> u.off + u.gen.size,
         table |-> u.table, abcur |-> 1, known |-> {}, loaded |-> FALSE]

InfoLoad(list, all) ==
    list \o [i \in 1..((IF all THEN Len(file.units)
                        ELSE Min({Len(list) + 1, Len(file.units)})) - Len(list)) |-> Header(Len(list) + i)]

Consuming == file # NoFile

\* The unit of a DIE (die_cu).
UnitOf(list, off) == CHOOSE i \in DOMAIN list : list[i].off <= off /\ off < list[i].next

\* dwarf_next_cu_header_d: after the last unit the iteration is at none.
NextUnit ==
    /\ Consuming
    /\ \E list \in {IF current = Len(cus) THEN InfoLoad(cus, FALSE) ELSE cus} :
          /\ cus' = list
          /\ current' = IF current < Len(list) THEN current + 1 ELSE None
    /\ UNCHANGED <<dies, file, held>>

\* What a call returns that read r in unit i: a DIE or none, and the units after it.
Read(list, i, r) == [ret |-> r.ret, die |-> r.die, cus |-> [list EXCEPT ![i] = r.cu]]

\* dwarf_offdie_b: the current unit first, then all of them.
InUnit(cu, off) == off > cu.off /\ off < cu.next

SearchIn(list, i, off) == Read(list, i, DieParse(file.info, list[i].table, list[i], off, FALSE, 1))

OffDie(off) ==
    IF current # None /\ InUnit(cus[current], off) THEN SearchIn(cus, current, off)
    ELSE LET list == InfoLoad(cus, TRUE)
         IN  SearchIn(list, Min({j \in DOMAIN list : list[j].off <= off /\ off <= list[j].next}), off)

\* dwarf_siblingof_b without a DIE.
FirstOf == OffDie(cus[current].first)

\* dwarf_child: the unit is that of the DIE.
ChildOfHeld ==
    LET i == UnitOf(cus, held.off)
    IN  Read(cus, i, ChildOf(file.info, cus[i].table, cus[i], held))

\* dwarf_siblingof_b: the unit is that of the iteration, whatever the DIE is in.
SiblingOfHeld ==
    Read(cus, current, SiblingOf(file.info, cus[current].table, cus[current], held))

\* dwarf_global_formref of a reference, and dwarf_offdie_b.
GlobalFormref(die, a) == a.val + die.unit

Referenced == OffDie(GlobalFormref(held, AttrFind(held.attrs, "type")))

\* The application keeps what it has when there is no entry.
Get(answer) ==
    /\ cus' = answer.cus
    /\ held' = IF answer.ret = "ok" THEN answer.die ELSE held
    /\ UNCHANGED <<dies, file, current>>

Holding == Consuming /\ held # NoDie
Refers == Holding /\ HasAttr(held.attrs, "type")

FirstDie  == Consuming /\ current # None /\ Get(FirstOf)
Child     == Holding /\ Get(ChildOfHeld)
Sibling   == Holding /\ current # None /\ Get(SiblingOfHeld)
FollowRef == Refers /\ Get(Referenced)

Next ==
    \/ \E kind \in Kinds, other \in DOMAIN dies : NewDie(kind, other)
    \/ NewLooseDie
    \/ \E d, other \in DOMAIN dies, kind \in Kinds : LinkDie(d, kind, other)
    \/ \E d, ref \in DOMAIN dies : AddReference(d, ref)
    \/ \E d \in DOMAIN dies, val \in Consts : AddConst(d, val) \/ AddSignedInt(d, val)
    \/ Transform
    \/ NextUnit \/ FirstDie \/ Child \/ Sibling \/ FollowRef

Spec == Init /\ [][Next]_vars

-----------------------------------------------------------------------------
(* Properties.                                                             *)

\* The DIE of the producer at an offset of the file: its unit and its number there.
DieAt(off) ==
    LET u == CHOOSE i \in DOMAIN file.units : \E d \in DOMAIN file.units[i].gen.offset :
                 file.units[i].off + file.units[i].gen.offset[d] = off
    IN  [unit |-> u, dies |-> file.units[u].gen.dies,
         d    |-> CHOOSE d \in DOMAIN file.units[u].gen.offset :
                      file.units[u].off + file.units[u].gen.offset[d] = off]

Same(die, unit, d) ==
    LET u == file.units[unit]
    IN  /\ die.off = u.off + u.gen.offset[d] /\ die.tag = u.gen.dies[d].tag
        /\ \A a \in ToSet(u.gen.dies[d].attrs) : a.attr = "const_value" =>
              SignedValue(AttrFind(die.attrs, "const_value")) = a.val

\* The answer is the DIE of the set, or no entry when it is empty.
Is(answer, unit, xs) ==
    IF xs = {} THEN answer.ret = "no_entry"
    ELSE answer.ret = "ok" /\ \E x \in xs : Same(answer.die, unit, x)

With(at, field, x) == {d \in DOMAIN at.dies : at.dies[d][field] = x}

\* What the application linked comes back: the first DIE of a unit is its root,
\* the child of a DIE is the one without a left sibling that has it as its parent,
\* and its sibling the one it is the left sibling of, with the constants it was
\* given; whichever units and abbreviations earlier calls have loaded, and however
\* the links were made.  (A sibling is asked for in the unit the iteration is at.)
TreeComesBack ==
    /\ Consuming /\ current # None => Is(FirstOf, current, {Root})
    /\ Holding => \E at \in {DieAt(held.off)} :
          /\ Is(ChildOfHeld, at.unit, With(at, "parent", at.d) \cap With(at, "left", None))
          /\ current # None /\ InUnit(cus[current], held.off) =>
                Is(SiblingOfHeld, at.unit, With(at, "left", at.d))

\* A reference between DIEs leads to the DIE it was made to, forwards and backwards,
\* whichever unit the iteration is at and whether or not the unit is loaded yet.
RefsResolve ==
    Refers => \E at \in {DieAt(held.off)} :
        Is(Referenced, at.unit, {AttrFind(at.dies[at.d].attrs, "type").ref})
=============================================================================
