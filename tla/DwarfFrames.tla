----------------------------- MODULE DwarfFrames ------------------------------
(***************************************************************************)
(* libdwarf: call frame information, from the CIEs, FDEs and instructions  *)
(* of the producer (dwarf_pro_frame.c) through the .debug_frame section    *)
(* (libdwarf_frame.c) to the unwinding rules at a program counter          *)
(* (dwarf_frame.c).                                                        *)
(*                                                                         *)
(* An instruction is a record of its operation and operands; the three     *)
(* ways to advance and the _extended and _sf encodings are one operation   *)
(* each.  Expressions, .eh_frame and its augmentations are left out: the   *)
(* producer writes none of them.                                           *)
(***************************************************************************)
EXTENDS Integers, Sequences, SequencesExt

CONSTANTS Cies,        \* the CIEs an application adds: [caf, daf, insts]
          Insts,       \* the instructions of its FDEs
          MaxInsts,    \* bound: instructions and FDEs together
          Regs,        \* the registers
          Linked,      \* the object linked before this one: [cies, fdes]
          Base         \* where the linker puts the text of the two objects

VARIABLE fdes          \* dbgp_fdelist; dbgp_cielist is Cies

\* Register numbers that are no registers (libdwarf.h).
CfaColumn == -1
Undefined == -2
SameValue == -3

Inst(op, reg, val) == [op |-> op, reg |-> reg, val |-> val]

-----------------------------------------------------------------------------
(* The producer.  Functions are 4 bytes long and 4 bytes apart.            *)

Length == 4

FrameInit == fdes = <<>>

Added == FoldLeft(LAMBDA n, f : n + 1 + Len(f.insts), 0, fdes)

\* dwarf_new_fde and dwarf_add_frame_fde_b, which counts CIEs from 0.
NewFde(cie) ==
    /\ Added < MaxInsts
    /\ fdes' = Append(fdes, [cie |-> cie, loc |-> 2 * Length * Len(fdes), range |-> Length, insts |-> <<>>])

\* The states remembered and not yet restored.
Remembered(insts) ==
    Len(SelectSeq(insts, LAMBDA i : i.op = "remember_state"))
        - Len(SelectSeq(insts, LAMBDA i : i.op = "restore_state"))

\* dwarf_add_fde_inst.  The reader has room for one remembered state.
AddInst(i) ==
    /\ fdes # <<>> /\ Added < MaxInsts
    /\ i.op = "remember_state" => Remembered(Last(fdes).insts) = 0
    /\ i.op = "restore_state" => Remembered(Last(fdes).insts) = 1
    /\ fdes' = [fdes EXCEPT ![Len(fdes)].insts = Append(@, i)]

FrameNext == (\E cie \in DOMAIN Cies : NewFde(cie)) \/ \E i \in Insts : AddInst(i)

-----------------------------------------------------------------------------
(* The section.                                                            *)

\* A FDE of the producer names its CIE by index; the bytes written name it
\* by offset, which is relocated against .debug_frame.  header is the size
\* of an entry without its instructions, and padding follows them.
PointerSize == 4

EntrySize(header, insts) ==
    LET len == header + Len(insts)
    IN  4 + ((len + PointerSize - 1) \div PointerSize) * PointerSize

Padded(header, insts) ==
    insts \o [i \in 1..(EntrySize(header, insts) - 4 - header - Len(insts)) |-> Inst("nop", 0, 0)]

Place(section, offset, kind, entry) ==
    Append(section, [offset |-> offset, kind |-> kind, entry |-> entry])

SectionEnd(section, header) ==
    IF section = <<>> THEN 0
    ELSE Last(section).offset + EntrySize(header[Last(section).kind], Last(section).entry.insts)

\* The bytes of an entry before its instructions, after the length.
HeaderOf == [cie |-> 9, fde |-> 12]

GenCie(section, c) ==
    Place(section, SectionEnd(section, HeaderOf), "cie",
          [caf |-> c.caf, daf |-> c.daf, insts |-> Padded(HeaderOf.cie, c.insts)])

\* base is where the linker puts this object's .debug_frame, text where it
\* puts the functions.
GenFde(section, f, base, text) ==
    Place(section, SectionEnd(section, HeaderOf), "fde",
          [cie   |-> base + section[f.cie].offset, loc |-> text + f.loc, range |-> f.range,
           insts |-> Padded(HeaderOf.fde, f.insts)])

\* All CIEs come first, so the CIE with index i is entry i of the section.
FrameGen(obj, base, text) ==
    FoldLeft(LAMBDA s, f : GenFde(s, f, base, text), FoldLeft(GenCie, <<>>, obj.cies), obj.fdes)

Moved(section, base) == [i \in DOMAIN section |-> [section[i] EXCEPT !.offset = @ + base]]

\* The section of the linked file.
FrameSection ==
    LET before == FrameGen(Linked, 0, Base[1])
        base   == SectionEnd(before, HeaderOf)
    IN  before \o Moved(FrameGen([cies |-> Cies, fdes |-> fdes], base, Base[2]), base)

-----------------------------------------------------------------------------
(* Reading.                                                                *)

\* dwarf_get_fde_list: the FDEs in order, each with the CIE at its offset.
FdeList(section) ==
    LET found == SelectSeq(section, LAMBDA e : e.kind = "fde")
        CieAt(off) == CHOOSE e \in ToSet(section) : e.kind = "cie" /\ e.offset = off
    IN  [i \in DOMAIN found |->
            [loc |-> found[i].entry.loc, range |-> found[i].entry.range, insts |-> found[i].entry.insts,
             cie |-> CieAt(found[i].entry.cie).entry]]

\* dwarf_get_fde_at_pc
FdesAtPc(list, pc) == {i \in DOMAIN list : list[i].loc <= pc /\ pc < list[i].loc + list[i].range}

FdeAtPc(list, pc) == list[CHOOSE i \in FdesAtPc(list, pc) : \A j \in FdesAtPc(list, pc) : i <= j]

Rule(relevant, reg, off) == [relevant |-> relevant, reg |-> reg, off |-> off]

\* A mutant: a row has the rules that are set at its end.
Passed_Late(pc_req, pc) == pc_req + 1 < pc

\* The row for pc_req ends where the next one starts.
Passed(pc_req, pc) == pc_req < pc

\* One instruction.  m has the table, the initial and the saved table, the
\* pc, and done once the pc asked for is passed.
RunInst(m, i, caf, daf, pc_req) ==
    LET Set(reg, rule) == [m EXCEPT !.table.regs[reg] = rule, !.row_pc = m.pc]
        Cfa(rule)      == [m EXCEPT !.table.cfa = rule, !.row_pc = m.pc]
        cfa == m.table.cfa
    IN  CASE m.done \/ i.op = "nop" -> m
          [] ~m.done /\ i.op = "advance" ->
               [m EXCEPT !.pc = @ + i.val * caf, !.done = Passed(pc_req, m.pc + i.val * caf)]
          [] ~m.done /\ i.op = "offset"     -> Set(i.reg, Rule(TRUE, CfaColumn, i.val * daf))
          [] ~m.done /\ i.op = "restore"    -> Set(i.reg, m.init.regs[i.reg])
          [] ~m.done /\ i.op = "undefined"  -> Set(i.reg, [m.table.regs[i.reg] EXCEPT !.relevant = FALSE, !.reg = Undefined])
          [] ~m.done /\ i.op = "same_value" -> [m EXCEPT !.table.regs[i.reg].relevant = FALSE,
                                                         !.table.regs[i.reg].reg = SameValue]
          [] ~m.done /\ i.op = "register"   -> Set(i.reg, [m.table.regs[i.reg] EXCEPT !.relevant = FALSE, !.reg = i.val])
          [] ~m.done /\ i.op = "remember_state" -> [m EXCEPT !.saved = m.table]
          [] ~m.done /\ i.op = "restore_state"  -> [m EXCEPT !.table = m.saved, !.row_pc = m.pc]
          [] ~m.done /\ i.op = "def_cfa"          -> Cfa(Rule(TRUE, i.reg, i.val))
          [] ~m.done /\ i.op = "def_cfa_register" -> Cfa([cfa EXCEPT !.reg = i.reg])
          [] ~m.done /\ i.op = "def_cfa_offset"   -> Cfa([cfa EXCEPT !.relevant = TRUE, !.off = i.val])

\* _dwarf_frame_run_inst: the table it starts from is also the initial one.
RunInsts(table, insts, caf, daf, pc, pc_req) ==
    FoldLeft(LAMBDA m, i : RunInst(m, i, caf, daf, pc_req),
             [table |-> table, init |-> table, saved |-> table, pc |-> pc, row_pc |-> pc, done |-> FALSE],
             insts)

\* _dwarf_frame_get_internal_table: Forever stands for the pc ~0.
Forever == 2 ^ 16

InternalTable(fde, pc_req) ==
    LET clear == [cfa |-> Rule(FALSE, 0, 0), regs |-> [r \in Regs |-> Rule(FALSE, SameValue, 0)]]
        cie   == RunInsts(clear, fde.cie.insts, fde.cie.caf, fde.cie.daf, 0, Forever)
    IN  IF pc_req < fde.loc THEN cie
        ELSE RunInsts(cie.table, fde.insts, fde.cie.caf, fde.cie.daf, fde.loc, pc_req)

-----------------------------------------------------------------------------
(* What call frame information means, by position instead of by execution. *)

\* The instructions in force at a distance from the start of the function: those
\* before the first advance beyond it, without what a restored state undoes.
Reached(insts, caf, dist) ==
    {k \in DOMAIN insts : dist >= caf *
        FoldLeft(LAMBDA n, i : IF i.op = "advance" THEN n + i.val ELSE n, 0, SubSeq(insts, 1, k))}

InForce(insts, caf, dist) ==
    LET ks == Reached(insts, caf, dist)
    IN  {k \in ks : ~\E i, j \in ks : /\ i <= k /\ k <= j
                                       /\ insts[i].op = "remember_state" /\ insts[j].op = "restore_state"
                                       /\ \A m \in i + 1..j - 1 : insts[m].op # "restore_state"}

\* The last of them with an operation in ops on a register.
LastOf(insts, ks, ops, reg) ==
    LET on == {k \in ks : insts[k].op \in ops /\ insts[k].reg = reg}
    IN  IF on = {} THEN 0 ELSE CHOOSE k \in on : \A j \in on : j <= k

RegOps == {"offset", "undefined", "same_value", "register"}

Saved(insts, ks, reg, daf, before) ==
    LET k == LastOf(insts, ks, RegOps \cup {"restore"}, reg)
    IN  CASE k = 0 \/ insts[k].op = "restore"  -> before
          [] k # 0 /\ insts[k].op = "offset"    -> [reg |-> CfaColumn, off |-> insts[k].val * daf]
          [] k # 0 /\ insts[k].op = "undefined" -> [reg |-> Undefined, off |-> 0]
          [] k # 0 /\ insts[k].op = "same_value" -> [reg |-> SameValue, off |-> 0]
          [] k # 0 /\ insts[k].op = "register"  -> [reg |-> insts[k].val, off |-> 0]

SavedAt(f, c, reg, pc) ==
    Saved(f.insts, InForce(f.insts, c.caf, pc - f.loc), reg, c.daf,
          Saved(c.insts, DOMAIN c.insts, reg, c.daf, [reg |-> SameValue, off |-> 0]))

\* The CFA: CIE and FDE in a row; register and offset may be set apart.
CfaAt(f, c, pc) ==
    LET all == c.insts \o f.insts
        ks  == DOMAIN c.insts \cup {k + Len(c.insts) : k \in InForce(f.insts, c.caf, pc - f.loc)}
        latest(ops) == LET on == {k \in ks : all[k].op \in ops} IN CHOOSE k \in on : \A j \in on : j <= k
    IN  [reg |-> all[latest({"def_cfa", "def_cfa_register"})].reg,
         off |-> all[latest({"def_cfa", "def_cfa_offset"})].val]

AsRead(rule) == [reg |-> rule.reg, off |-> IF rule.relevant THEN rule.off ELSE 0]

\* At every address of every function the unwinding rules that are read are the
\* ones the instructions of its own FDE and CIE define, in an object linked behind
\* another one: advances, the factors of the CIE, its initial rules and remembered
\* states included.
UnwindRight ==
    \A list \in {FdeList(FrameSection)} : \A i \in DOMAIN fdes :
        \A pc \in fdes[i].loc..(fdes[i].loc + fdes[i].range - 1) :
            \A t \in {InternalTable(FdeAtPc(list, Base[2] + pc), Base[2] + pc).table} :
                /\ AsRead(t.cfa) = CfaAt(fdes[i], Cies[fdes[i].cie], pc)
                /\ \A reg \in Regs : AsRead(t.regs[reg]) = SavedAt(fdes[i], Cies[fdes[i].cie], reg, pc)
=============================================================================
