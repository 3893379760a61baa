------------------------------ MODULE DwarfLines ------------------------------
(***************************************************************************)
(* libdwarf: line number programs.  dwarf_pro_lineno.c collects entries,   *)
(* _dwarf_lineno_gen_program turns them into opcodes, and                  *)
(* _dwarf_lineno_run_program runs the opcodes and collects the rows of the *)
(* line table; addr2line looks an address up in these rows.                *)
(*                                                                         *)
(* An entry is a row the application adds, the start of a sequence (its    *)
(* sym is the symbol the address is relative to) or its end.  Columns,     *)
(* which behave as files do, are left out; an opcode is a record.          *)
(***************************************************************************)
EXTENDS Integers, Sequences, SequencesExt

CONSTANTS MaxEntries,  \* bound: entries in the list
          Offsets,     \* the addresses, relative to the symbol of their sequence
          Sources,     \* the rows: [line, file, stmt, block]
          Symbol,      \* the address each symbol gets, and how many there are
          Machines     \* the machines it is made for

ASSUME LinesAssumption == MaxEntries \in Nat /\ Offsets \subseteq Nat

VARIABLES entries,     \* li_lnlist of the producer
          machine

lineVars == <<entries, machine>>


\* What _dwarf_lineno_gen sets up: line_base, line_range and opcode_base.
LineBase  == -5
LineRange == 14
OpBase    == 10

MinLen(m) == CASE m = "arm" -> 2 [] m = "x86" -> 1 [] OTHER -> 4

-----------------------------------------------------------------------------
(* The producer's list of entries.                                         *)

SetAddress(off, sym) ==
    [addr |-> off, sym |-> sym, end |-> FALSE, line |-> 0, file |-> 0, stmt |-> FALSE, block |-> FALSE]

EndSequence(addr) == [SetAddress(addr, 0) EXCEPT !.end = TRUE]

LineEntry(addr, source) == source @@ SetAddress(addr, 0)

\* dwarf_add_line_entry wants an entry before it, and no address goes back.
MayAddLine(addr) == entries # <<>> /\ Last(entries).addr <= addr

MayEnd(addr) == entries = <<>> \/ Last(entries).addr < addr

\* The application gives each sequence a symbol of its own, starts it with
\* dwarf_lne_set_address and ends it with dwarf_lne_end_sequence.
Open == entries # <<>> /\ ~Last(entries).end

AddLine(addr, source) ==
    /\ Open /\ Len(entries) < MaxEntries - 1 /\ MayAddLine(addr)
    /\ entries' = Append(entries, LineEntry(addr, source)) /\ UNCHANGED machine

StartSequence(sym) ==
    /\ ~Open /\ Len(entries) < MaxEntries - 2 /\ \A i \in DOMAIN entries : entries[i].sym # sym
    /\ entries' = Append(entries, SetAddress(0, sym)) /\ UNCHANGED machine

EndOfSequence(addr) ==
    /\ Open /\ Len(entries) < MaxEntries /\ MayEnd(addr)
    /\ entries' = Append(entries, EndSequence(addr)) /\ UNCHANGED machine

LineInit == entries = <<>> /\ machine \in Machines

LineNext ==
    \/ \E sym \in DOMAIN Symbol : StartSequence(sym)
    \/ \E addr \in Offsets, source \in Sources : AddLine(addr, source)
    \/ \E addr \in Offsets : EndOfSequence(addr)

-----------------------------------------------------------------------------
(* From entries to opcodes.  The writer keeps the registers of the machine *)
(* that will read its program: r.                                          *)

Reset == [address |-> 0, file |-> 1, line |-> 1, stmt |-> TRUE, block |-> FALSE]

Op(op, arg) == <<[op |-> op, arg |-> arg]>>

OpIf(cond, op, arg) == IF cond THEN Op(op, arg) ELSE <<>>

\* File, statement and basic block come first, each only if it changes.
StateOps(r, e) ==
    OpIf(e.file # r.file, "set_file", e.file)
        \o OpIf(e.stmt # r.stmt, "negate_stmt", 0)
        \o OpIf(e.block /\ ~r.block, "set_basic_block", 0)

Special(line, advance) == line - LineBase + LineRange * advance + OpBase

\* A mutant: the opcode base is forgotten, as DW_LNS_const_add_pc does not.
MaxAdvance_NoBase == 255 \div LineRange

MaxAdvance == (255 - OpBase) \div LineRange

\* Opcodes that append a row clear the basic block.
EndsBlock(ops) == \E i \in DOMAIN ops : ops[i].op = "copy" \/ (ops[i].op = "special" /\ i = 1)

FitsLine(line) == line \in LineBase..(LineBase + LineRange - 1)

\* The difference to the registers in one special opcode, or in pieces.
AdvanceOps(line, advance, block) ==
    IF FitsLine(line) /\ Special(line, advance) <= 255
    THEN Op("special", Special(line, advance))
    ELSE LET rest == Special(0, advance - MaxAdvance)
             pc   == CASE advance = 0 -> <<>>
                       [] advance # 0 /\ advance >= MaxAdvance /\ rest <= 255
                            -> Op("const_add_pc", 0) \o Op("special", rest)
                       [] OTHER -> Op("advance_pc", advance)
         IN  OpIf(line # 0, "advance_line", line) \o pc \o OpIf(line # 0 \/ block, "copy", 0)

\* One entry: the opcodes for it and the registers after it.  An entry at
\* the address and line of the registers gets no row; where the entry moves
\* on, a basic block that is set ends with a row.
GenEntry(g, e, minlen) ==
    LET r       == g.r
        advance == (e.addr - r.address) \div minlen
        line    == e.line - r.line
        block   == e.block \/ r.block
        move    == AdvanceOps(line, advance, block)
        row     == [r EXCEPT !.file = e.file, !.stmt = e.stmt, !.block = block]
    IN  CASE e.sym # 0 ->
               [ops |-> g.ops \o Op("set_address", [off |-> e.addr, sym |-> e.sym]),
                r   |-> [r EXCEPT !.address = e.addr]]
          [] e.sym = 0 /\ e.end ->
               [ops |-> g.ops \o OpIf(advance # 0, "advance_pc", advance) \o Op("end_sequence", 0),
                r   |-> Reset]
          [] e.sym = 0 /\ ~e.end /\ advance = 0 /\ line = 0 ->
               [ops |-> g.ops \o StateOps(r, e), r |-> row]
          [] OTHER ->
               [ops |-> g.ops \o StateOps(r, e) \o move,
                r   |-> [row EXCEPT !.address = e.addr, !.line = e.line,
                                    !.block = block /\ ~EndsBlock(move)]]

GenProgram(list, minlen) ==
    FoldLeft(LAMBDA g, e : GenEntry(g, e, minlen), [ops |-> <<>>, r |-> Reset], list).ops

-----------------------------------------------------------------------------
(* Running a program.  Symbol has the value the linker relocates with.   *)

Row(r, end) == [addr |-> r.address, line |-> r.line, file |-> r.file, stmt |-> r.stmt,
                block |-> r.block, end |-> end]

AppendRow(m, r, end) == [m EXCEPT !.rows = Append(@, Row(r, end))]

RunOp(m, o, minlen) ==
    LET r == m.r
        code == o.arg - OpBase
        moved == [r EXCEPT !.line = @ + LineBase + (code % LineRange),
                           !.address = @ + (code \div LineRange) * minlen]
    IN  CASE o.op = "end_sequence" -> [AppendRow(m, r, TRUE) EXCEPT !.r = Reset]
          [] o.op = "set_address"  -> [m EXCEPT !.r.address = Symbol[o.arg.sym] + o.arg.off]
          [] o.op = "copy"         -> [AppendRow(m, r, FALSE) EXCEPT !.r.block = FALSE]
          [] o.op = "advance_pc"   -> [m EXCEPT !.r.address = @ + o.arg * minlen]
          [] o.op = "advance_line" -> [m EXCEPT !.r.line = @ + o.arg]
          [] o.op = "set_file"     -> [m EXCEPT !.r.file = o.arg]
          [] o.op = "negate_stmt"  -> [m EXCEPT !.r.stmt = ~@]
          [] o.op = "set_basic_block" -> [m EXCEPT !.r.block = TRUE]
          [] o.op = "const_add_pc" -> [m EXCEPT !.r.address = @ + ((255 - OpBase) \div LineRange) * minlen]
          [] o.op = "special"      -> [AppendRow(m, moved, FALSE) EXCEPT !.r = [moved EXCEPT !.block = FALSE]]

RunProgram(ops, minlen) ==
    FoldLeft(LAMBDA m, o : RunOp(m, o, minlen), [rows |-> <<>>, r |-> Reset], ops).rows

-----------------------------------------------------------------------------
(* The loop of addr2line's translate over the rows: a row at the address,  *)
(* or else the row before two neighbours that have the address between     *)
(* them.  When neither is found it is left with the last row it looked at. *)

Hits(rows, addr) ==
    {i \in DOMAIN rows : \/ rows[i].addr = addr
                         \/ i > 1 /\ rows[i - 1].addr < addr /\ addr < rows[i].addr}

Lookup(rows, addr) ==
    LET i == CHOOSE j \in Hits(rows, addr) : \A k \in Hits(rows, addr) : j <= k
    IN  CASE Hits(rows, addr) # {} /\ rows[i].addr = addr  -> rows[i]
          [] Hits(rows, addr) # {} /\ rows[i].addr # addr -> rows[i - 1]
          [] OTHER                                        -> Last(rows)

-----------------------------------------------------------------------------
(* Properties.                                                             *)

Rows == RunProgram(GenProgram(entries, MinLen(machine)), MinLen(machine))

\* The address an entry has in the linked file, and the entries that are rows.
Address(i) ==
    LET start == SelectLastInSubSeq(entries, 1, i, LAMBDA e : e.sym # 0)
    IN  Symbol[entries[start].sym] + entries[i].addr

Given == {i \in DOMAIN entries : entries[i].sym = 0 /\ ~entries[i].end}

First(i) == entries[i - 1].sym # 0

Follows(i) == i - 1 \in Given

\* What the writer and the loop of addr2line need: sequences in the order of
\* their addresses with room between them, rows of one sequence at different
\* addresses, a first row that is not on line 1, and a new file only with a new
\* line.
Ascending == \A i \in 2..Len(entries) : Address(i - 1) < Address(i) \/ First(i)

Shown == \A i \in Given :
    /\ First(i) => entries[i].line # 1
    /\ Follows(i) /\ entries[i].file # entries[i - 1].file => entries[i].line # entries[i - 1].line

\* An address between a row and the next entry is translated to the line and the
\* file of that row: what the producer wrote as differences in whichever opcodes
\* fit, the linker moved, and the reader adds up again.
LineRight ==
    ~Open /\ Ascending /\ Shown => \A rows \in {Rows} : \A i \in Given :
        \A a \in Address(i)..(Address(i + 1) - 1) :
            Lookup(rows, a).line = entries[i].line /\ Lookup(rows, a).file = entries[i].file

\* dwarf_add_line_entry "adds a line number information entry" (dwarf_add_line_entry.3):
\* each entry is a row of the table.
EveryEntryIsARow ==
    ~Open => \A rows \in {Rows} : \A i \in Given : \E k \in DOMAIN rows :
        rows[k].addr = Address(i) /\ rows[k].line = entries[i].line /\ rows[k].file = entries[i].file
=============================================================================
