------------------------------ MODULE DwarfDies ------------------------------
(***************************************************************************)
(* libdwarf: debugging information entries, from the links between them in *)
(* the producer (dwarf_pro_die.c, libdwarf_die.c, libdwarf_attr.c) to the  *)
(* .debug_info and .debug_abbrev sections of one compilation unit, and     *)
(* back (libdwarf_die.c, libdwarf_abbrev.c, libdwarf_attr.c).              *)
(*                                                                         *)
(* The module holds no state of its own: DwarfTree calls its operators  *)
(* from the actions of the producer and of the consumer.  A DIE of the     *)
(* producer is named by a number, None is a null pointer.  A section is a  *)
(* function from the offsets where something was written to what was       *)
(* written there, so that a reader that is off by one byte finds nothing.  *)
(***************************************************************************)
EXTENDS Integers, Sequences, FiniteSets, SequencesExt, TLC

None == 0

\* calloc in _dwarf_die_alloc: no links and no attributes.
FreshDie(tag) ==
    [tag |-> tag, parent |-> None, child |-> None, left |-> None, right |-> None, attrs |-> <<>>]

-----------------------------------------------------------------------------
(* The links of the producer.                                              *)

\* The siblings from d on, in order.
RECURSIVE Chain(_, _)
Chain(dies, d) == IF d = None THEN <<>> ELSE <<d>> \o Chain(dies, dies[d].right)

\* A mutant: the last child is given a right link and the new one no left link.
LinkParent_OneWay(dies, d, p) ==
    LET kids == Chain(dies, dies[p].child)
        up   == [dies EXCEPT ![d].parent = p]
    IN  IF kids = <<>> THEN [up EXCEPT ![p].child = d] ELSE [up EXCEPT ![p].child = d, ![d].right = kids[1]]

LinkParent(dies, d, p) ==
    LET old  == dies[d].parent
        cut  == IF old \in {None, p} \/ dies[old].child # d THEN dies
                ELSE [dies EXCEPT ![old].child = None]
        kids == Chain(cut, cut[p].child)
        up   == [cut EXCEPT ![d].parent = p]
    IN  IF kids = <<>> THEN [up EXCEPT ![p].child = d]
        ELSE [up EXCEPT ![Last(kids)].right = d, ![d].left = Last(kids)]

LinkChild(dies, d, c) ==
    LET old == dies[d].child
        cut == IF old \in {None, c} THEN dies ELSE [dies EXCEPT ![old].parent = None]
    IN  [cut EXCEPT ![d].child = c, ![c].parent = d]

LinkLeft(dies, d, l) ==
    LET old == dies[d].left
        cut == IF old \in {None, l} THEN dies ELSE [dies EXCEPT ![old].right = None]
    IN  [cut EXCEPT ![d].left = l, ![l].right = d]

LinkRight(dies, d, r) ==
    LET old == dies[d].right
        cut == IF old \in {None, r} THEN dies ELSE [dies EXCEPT ![old].left = None]
    IN  [cut EXCEPT ![d].right = r, ![r].left = d]

\* At most one link is given; dwarf_new_die and dwarf_die_link refuse more.
DieLink(dies, d, kind, other) ==
    CASE kind = "parent" -> LinkParent(dies, d, other)
      [] kind = "child"  -> LinkChild(dies, d, other)
      [] kind = "left"   -> LinkLeft(dies, d, other)
      [] kind = "right"  -> LinkRight(dies, d, other)
      [] OTHER           -> dies

-----------------------------------------------------------------------------
(* Attributes.  An attribute has a name, a form, and a value or a DIE; at  *)
(* is the offset the second pass comes back to.                            *)

Attribute(attr, form, ref, val) == [attr |-> attr, form |-> form, ref |-> ref, val |-> val, at |-> 0]

AddAttr(dies, d, a) == [dies EXCEPT ![d].attrs = Append(@, a)]

\* The producer writes 32-bit DWARF only: a reference takes four bytes.
ReferenceTo(attr, ref) == Attribute(attr, "ref4", ref, 0)

\* A constant takes the smallest form it fits, or the form of its own length.
SignedConst(val) ==
    Attribute("const_value", IF val \in -128..127 THEN "data1" ELSE "data2", None, val)

SignedInt(val) == Attribute("const_value", "sdata", None, val)

\* The bytes of a form, and of the SLEB128 number of the form "sdata": seven bits
\* each, the last of which holds the sign; four hold all values used here.
Sleb128Size(val) == CHOOSE n \in 1..4 : \A m \in 1..4 :
    m >= n <=> val \in -(2 ^ (7 * m - 1))..2 ^ (7 * m - 1) - 1

FormSize(form, val) ==
    IF form = "sdata" THEN Sleb128Size(val) ELSE [ref4 |-> 4, data1 |-> 1, data2 |-> 2][form]

\* dbg->write: as many bytes as the form has; four hold all values used here, and
\* an SLEB128 number keeps its sign.
Written(form, val) ==
    IF form \in {"ref4", "sdata"} THEN val ELSE val % 2 ^ (8 * FormSize(form, val))

HasAttr(attrs, attr) == \E i \in DOMAIN attrs : attrs[i].attr = attr

AttrFind(attrs, attr) == attrs[CHOOSE i \in DOMAIN attrs :
    attrs[i].attr = attr /\ \A j \in 1..(i - 1) : attrs[j].attr # attr]

-----------------------------------------------------------------------------
(* Writing one unit.  The record g is the unit while it is written: its    *)
(* bytes, its abbreviations, the DIEs with the attributes the library adds *)
(* to them, the offset of each DIE, and whether a reference was written    *)
(* before the DIE it names.                                                *)

HeaderSize == 11

Emit(g, token, size) == [g EXCEPT !.bytes = (g.size :> token) @@ @, !.size = @ + size]

\* A DIE with children and a right sibling gets DW_AT_sibling.
WithSibling(g, d) ==
    LET e == g.dies[d]
    IN  IF e.child # None /\ e.right # None /\ ~HasAttr(e.attrs, "sibling")
        THEN [g EXCEPT !.dies = AddAttr(@, d, ReferenceTo("sibling", e.right))] ELSE g

AbbrevOf(e) ==
    [tag |-> e.tag, children |-> e.child # None,
     defs |-> [i \in DOMAIN e.attrs |-> <<e.attrs[i].attr, e.attrs[i].form>>]]

Shared(g, d) == {i \in DOMAIN g.abbrevs : g.abbrevs[i] = AbbrevOf(g.dies[d])}

WithAbbrev(g, d) ==
    IF Shared(g, d) # {} THEN g ELSE [g EXCEPT !.abbrevs = Append(@, AbbrevOf(g.dies[d]))]

\* die_offset and the abbreviation code.
WriteCode(g, d) ==
    Emit([g EXCEPT !.offset[d] = g.size],
         [kind |-> "code", val |-> CHOOSE i \in Shared(g, d) : TRUE], 1)

\* A reference to a DIE that is not written yet is 0 until the second pass.
WriteAttr(g, d, i) ==
    LET a     == g.dies[d].attrs[i]
        later == a.ref # None /\ g.offset[a.ref] = 0
        val   == IF a.ref # None THEN g.offset[a.ref] ELSE a.val
        noted == IF later THEN [g EXCEPT !.pass2 = TRUE, !.dies[d].attrs[i].at = g.size] ELSE g
    IN  Emit(noted, [kind |-> a.form, val |-> Written(a.form, val)], FormSize(a.form, val))

WriteAttrs(g, d) ==
    FoldLeft(LAMBDA h, i : WriteAttr(h, d, i), g, [i \in DOMAIN g.dies[d].attrs |-> i])

\* A mutant: the second pass writes at the start of the DIE.
FillAttr_NoOffset(g, d, i) ==
    LET a == g.dies[d].attrs[i]
    IN  IF a.ref = None \/ a.at = 0 THEN g ELSE [g EXCEPT !.bytes[a.at].val = g.offset[d]]

FillAttr(g, d, i) ==
    LET a == g.dies[d].attrs[i]
    IN  IF a.form # "ref4" \/ a.ref = None \/ a.at = 0 THEN g
        ELSE [g EXCEPT !.bytes[a.at].val = g.offset[a.ref]]

FillAttrs(g, d) ==
    FoldLeft(LAMBDA h, i : FillAttr(h, d, i), g, [i \in DOMAIN g.dies[d].attrs |-> i])

\* A null entry ends each chain of siblings; the second pass writes them again.
EndLevel(g, d) == IF g.dies[d].right = None THEN Emit(g, [kind |-> "code", val |-> 0], 1) ELSE g

RECURSIVE DieGen(_, _, _)
DieGen(g, d, pass2) ==
    LET self == IF pass2 THEN FillAttrs(g, d)
                ELSE WriteAttrs(WriteCode(WithAbbrev(WithSibling(g, d), d), d), d)
        kids == IF self.dies[d].child = None THEN self ELSE DieGen(self, self.dies[d].child, pass2)
        rest == IF kids.dies[d].right = None THEN kids ELSE DieGen(kids, kids.dies[d].right, pass2)
    IN  EndLevel(rest, d)

\* _dwarf_info_gen: the header, both passes, then the length.
UnitGen(dies, root) ==
    LET start == [bytes |-> <<>>, size |-> HeaderSize, abbrevs |-> <<>>, dies |-> dies,
                  offset |-> [d \in DOMAIN dies |-> 0], pass2 |-> FALSE]
        once  == DieGen(start, root, FALSE)
    IN  IF once.pass2 THEN DieGen(once, root, TRUE) ELSE once

\* _dwarf_abbrev_gen: each abbreviation under its code, then the code 0.
AbbrevGen(g) ==
    [i \in 1..Len(g.abbrevs) |-> [code |-> i, ab |-> g.abbrevs[i]]] \o <<[code |-> 0, ab |-> {}]>>

-----------------------------------------------------------------------------
(* Reading.  A unit cu of the consumer has the offsets off, first and next *)
(* of its header, its first DIE and its end, the abbreviations found so    *)
(* far, and where to look for more.                                        *)

\* Reading goes on from abcur until the code or the end of the table is met.
AbbrevFind(table, cu, code) ==
    LET ahead == {i \in cu.abcur..Len(table) : table[i].code \in {code, 0}}
        stop  == CHOOSE i \in ahead : \A j \in ahead : i <= j
        known == {k \in cu.known : k.code = code}
    IN  CASE known # {} -> [found |-> TRUE, ab |-> (CHOOSE k \in known : TRUE).ab, cu |-> cu]
          [] known = {} /\ (cu.loaded \/ ahead = {}) -> [found |-> FALSE, ab |-> {}, cu |-> cu]
          [] OTHER ->
               [found |-> table[stop].code = code, ab |-> table[stop].ab,
                cu    |-> [cu EXCEPT !.known  = @ \cup {table[i] : i \in cu.abcur..stop},
                                     !.abcur  = stop + 1,
                                     !.loaded = table[stop].code = 0]]

Readable(info, off, kind) == off \in DOMAIN info /\ info[off].kind = kind

\* The values of the attributes an abbreviation lists, from off on; nothing
\* comes back for bytes that were written as something else.
RECURSIVE AttrsAt(_, _, _)
AttrsAt(info, off, defs) ==
    IF defs = <<>> THEN [ok |-> TRUE, attrs |-> <<>>, next |-> off]
    ELSE IF ~Readable(info, off, Head(defs)[2]) THEN [ok |-> FALSE, attrs |-> <<>>, next |-> off]
    ELSE LET rest == AttrsAt(info, off + FormSize(Head(defs)[2], info[off].val), Tail(defs))
         IN  [rest EXCEPT !.attrs = <<Attribute(Head(defs)[1], Head(defs)[2], None, info[off].val)>> \o @]

Answer(ret, die, cu) == [ret |-> ret, die |-> die, cu |-> cu]

NoDie == [off |-> 0]

\* _dwarf_die_parse, with level 1 at the start: a search passes over whole
\* DIEs until it is back at the level of the DIE whose sibling is wanted.
RECURSIVE DieParse(_, _, _, _, _, _)
DieParse(info, table, cu, off, search, level) ==
    IF off >= cu.next THEN Answer("no_entry", NoDie, cu)
    ELSE IF ~Readable(info, off, "code") THEN Answer("garbage", NoDie, cu)
    ELSE IF info[off].val = 0
    THEN IF level = 0 \/ ~search THEN Answer("no_entry", NoDie, cu)
         ELSE DieParse(info, table, cu, off + 1, search, level - 1)
    ELSE LET got == AbbrevFind(table, cu, info[off].val)
             ats == AttrsAt(info, off + 1, got.ab.defs)
             die == [off |-> off, unit |-> cu.off, tag |-> got.ab.tag, children |-> got.ab.children,
                     attrs |-> ats.attrs, next |-> ats.next]
         IN  IF ~got.found THEN Answer("no_entry", NoDie, got.cu)
             ELSE IF ~ats.ok THEN Answer("garbage", NoDie, got.cu)
             ELSE IF search /\ level > 0
             THEN DieParse(info, table, got.cu, ats.next, search,
                           IF got.ab.children THEN level + 1 ELSE level)
             ELSE Answer("ok", die, got.cu)

\* dwarf_child
ChildOf(info, table, cu, die) ==
    IF ~die.children THEN Answer("no_entry", NoDie, cu)
    ELSE DieParse(info, table, cu, die.next, FALSE, 1)

\* dwarf_siblingof_b for a DIE: cu is the unit the iteration stands at.
SiblingOf(info, table, cu, die) ==
    IF ~die.children THEN DieParse(info, table, cu, die.next, FALSE, 1)
    ELSE IF HasAttr(die.attrs, "sibling")
    THEN DieParse(info, table, cu, AttrFind(die.attrs, "sibling").val + cu.off, FALSE, 1)
    ELSE DieParse(info, table, cu, die.next, TRUE, 1)

\* dwarf_attrval_signed: what the form stores, with its sign.
SignedValue(a) ==
    LET half == 2 ^ (8 * FormSize(a.form, a.val) - 1)
    IN  IF a.form # "sdata" /\ a.val >= half THEN a.val - 2 * half ELSE a.val
=============================================================================
