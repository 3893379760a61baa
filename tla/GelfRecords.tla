---------------------------- MODULE GelfRecords ----------------------------
(***************************************************************************)
(* Reading and updating one record of a table through the class-           *)
(* independent interface of libelf: gelf_getsym(3), gelf_update_sym(3) and *)
(* their siblings, and the pair that reads and updates a symbol together   *)
(* with its extended section index.                                        *)
(*                                                                         *)
(* In memory the records of an ELFCLASS32 object have narrow fields.  An   *)
(* update copies field after field and gives up at the first value that    *)
(* does not fit, so a failed update may have changed a part of a record.   *)
(* Widths are scaled down.                                                 *)
(***************************************************************************)
EXTENDS Integers, SequencesExt

CONSTANTS Word,            \* values of an unsigned 32 bit field: 0..Word-1
          Type8, Sym24,    \* values of the parts of a 32 bit r_info
          Records,         \* records in the data of each table
          Kinds,           \* the tables: section types
          Wide,            \* sample values of 64 bit fields, by their type
          Linked           \* what index descriptors may be like

ASSUME Widths == Type8 \in Nat \ {0} /\ Sym24 \in Nat \ {0} /\ Word = Sym24 * Type8

VARIABLES class,           \* ELFCLASS32 or ELFCLASS64
          kind,            \* the type of the section
          data,            \* the records in memory
          index,           \* the data of the SHT_SYMTAB_SHNDX section
          result           \* of the last call: [call, ndx, arg, xarg, ok, rec, xndx]

recordVars == <<class, kind, data, index, result>>

(***************************************************************************)
(* The type of the data of a section, _libelf_xlate_shtype.                *)
(***************************************************************************)
XlateShtype(sht) ==
    CASE sht \in {"SYMTAB", "DYNSYM"}         -> "SYM"
      [] sht = "DYNAMIC"                      -> "DYN"
      [] sht \in {"SYMTAB_SHNDX", "GROUP"}    -> "WORD"
      [] sht \in {"REL", "RELA", "MOVE", "SYMINFO"} -> sht
      [] OTHER                                -> "BYTE"

(***************************************************************************)
(* The records.  Each field has a name and the way an ELFCLASS32 record    *)
(* holds it: "same" width, "u32", "s32" or "info", a symbol and a type     *)
(* packed into halves of other widths.  Fields are copied in this order.   *)
(***************************************************************************)
SymFields == <<<<"st_name", "same">>, <<"st_shndx", "same">>, <<"st_value", "u32">>, <<"st_size", "u32">>>>
RelFields == <<<<"r_offset", "u32">>, <<"r_info", "info">>>>
RelaFields == Append(RelFields, <<"r_addend", "s32">>)
DynFields == <<<<"d_tag", "s32">>, <<"d_val", "u32">>>>
MoveFields == <<<<"m_value", "same">>, <<"m_info", "u32">>, <<"m_poffset", "u32">>, <<"m_repeat", "same">>>>
CapFields == <<<<"c_tag", "u32">>, <<"c_val", "u32">>>>
SyminfoFields == <<<<"si_boundto", "same">>, <<"si_flags", "same">>>>

Fields(t) ==
    CASE t = "SYM"     -> SymFields
      [] t = "REL"     -> RelFields
      [] t = "RELA"    -> RelaFields
      [] t = "DYN"     -> DynFields
      [] t = "MOVE"    -> MoveFields
      [] t = "CAP"     -> CapFields
      [] t = "SYMINFO" -> SyminfoFields

RecordTypes == {"SYM", "REL", "RELA", "DYN", "MOVE", "CAP", "SYMINFO"}

\* The accessors meant for each section.
Meant(k) == CASE k \in {"SYMTAB", "DYNSYM"} -> "SYM" [] k = "DYNAMIC" -> "DYN" [] OTHER -> k

FieldNames(t) == {Fields(t)[i][1] : i \in DOMAIN Fields(t)}

\* What an application has in a 64 bit field: a number of the field's type.
ASSUME RecordsAssumption ==
    /\ Records \in Nat /\ \A k \in Kinds : Meant(k) \in RecordTypes
    /\ Wide.u32 \subseteq Nat /\ Wide.s32 \subseteq Int /\ Wide.info \subseteq Nat

AllSamples(t) ==
    CASE t = "SYM"     -> [st_name : Wide.same, st_shndx : Wide.same, st_value : Wide.u32, st_size : Wide.u32]
      [] t = "REL"     -> [r_offset : Wide.u32, r_info : Wide.info]
      [] t = "RELA"    -> [r_offset : Wide.u32, r_info : Wide.info, r_addend : Wide.s32]
      [] t = "DYN"     -> [d_tag : Wide.s32, d_val : Wide.u32]
      [] t = "MOVE"    -> [m_value : Wide.same, m_info : Wide.u32, m_poffset : Wide.u32, m_repeat : Wide.same]
      [] t = "CAP"     -> [c_tag : Wide.u32, c_val : Wide.u32]
      [] t = "SYMINFO" -> [si_boundto : Wide.same, si_flags : Wide.same]

(***************************************************************************)
(* Widths.  Narrow is what an ELFCLASS32 field holds of a value, Widen     *)
(* what is read from it.                                                   *)
(***************************************************************************)

Fits(w, v) ==
    CASE w = "same" -> TRUE
      [] w = "u32"  -> v < Word
      [] w = "s32"  -> v >= -(Word \div 2) /\ v < Word \div 2
      [] w = "info" -> v \div Word < Sym24 /\ v % Word < Type8

Narrow(w, v) ==
    CASE w \in {"u32", "s32"} -> v % Word
      [] w = "info"           -> (v \div Word) * Type8 + (v % Word)
      [] OTHER                -> v

Widen_Unsigned(w, m) == IF w = "info" THEN (m \div Type8) * Word + (m % Type8) ELSE m

Widen(w, m) ==
    CASE w = "s32"  -> IF m < Word \div 2 THEN m ELSE m - Word
      [] w = "info" -> (m \div Type8) * Word + (m % Type8)
      [] OTHER      -> m

(***************************************************************************)
(* A record in memory, and how it is read and written.                     *)
(***************************************************************************)
Way(t, f) == Fields(t)[SelectInSeq(Fields(t), LAMBDA x : x[1] = f)][2]

Read(t, m) ==
    IF class = 64 THEN m ELSE [f \in FieldNames(t) |-> Widen(Way(t, f), m[f])]

\* The fields copied before the first one that does not fit.
Copied(t, rec) ==
    {Fields(t)[i][1] : i \in {k \in DOMAIN Fields(t) :
        class = 32 => \A j \in 1..k : Fits(Fields(t)[j][2], rec[Fields(t)[j][1]])}}

Stored(t, m, rec) ==
    [f \in FieldNames(t) |->
        IF f \notin Copied(t, rec) THEN m[f]
        ELSE IF class = 64 THEN rec[f] ELSE Narrow(Way(t, f), rec[f])]

(***************************************************************************)
(* The calls.  An index is in range while it is less than the number of    *)
(* records in the data.                                                    *)
(***************************************************************************)
Accepts(t, ndx) == XlateShtype(kind) = t /\ ndx >= 0 /\ ndx < Len(data)

NoRecord == <<>>
NoCall == [call |-> "none", ndx |-> 0, arg |-> NoRecord, xarg |-> 0,
           ok |-> FALSE, rec |-> NoRecord, xndx |-> 0]
Asked(ndx) == [NoCall EXCEPT !.call = "get", !.ndx = ndx]
Given(ndx, rec) == [NoCall EXCEPT !.call = "update", !.ndx = ndx, !.arg = rec]

GetRecord(t, ndx) ==
    /\ result' = IF Accepts(t, ndx)
                 THEN [Asked(ndx) EXCEPT !.ok = TRUE, !.rec = Read(t, data[ndx + 1])]
                 ELSE Asked(ndx)
    /\ UNCHANGED <<class, kind, data, index>>

Updated(t, ndx, rec) == IF Accepts(t, ndx) THEN [data EXCEPT ![ndx + 1] = Stored(t, @, rec)] ELSE data
Done(t, ndx, rec) == Accepts(t, ndx) /\ Copied(t, rec) = FieldNames(t)

UpdateRecord(t, ndx, rec) ==
    /\ data' = Updated(t, ndx, rec)
    /\ result' = [Given(ndx, IF Accepts(t, ndx) THEN rec ELSE NoRecord) EXCEPT !.ok = Done(t, ndx, rec)]
    /\ UNCHANGED <<class, kind, index>>

GetSym(ndx) == GetRecord("SYM", ndx)
UpdateSym(ndx, rec) == UpdateRecord("SYM", ndx, rec)
GetRel(ndx) == GetRecord("REL", ndx)
UpdateRel(ndx, rec) == UpdateRecord("REL", ndx, rec)
GetRela(ndx) == GetRecord("RELA", ndx)
UpdateRela(ndx, rec) == UpdateRecord("RELA", ndx, rec)
GetDyn(ndx) == GetRecord("DYN", ndx)
UpdateDyn(ndx, rec) == UpdateRecord("DYN", ndx, rec)
GetMove(ndx) == GetRecord("MOVE", ndx)
UpdateMove(ndx, rec) == UpdateRecord("MOVE", ndx, rec)
GetCap(ndx) == GetRecord("CAP", ndx)
UpdateCap(ndx, rec) == UpdateRecord("CAP", ndx, rec)
GetSyminfo(ndx) == GetRecord("SYMINFO", ndx)
UpdateSyminfo(ndx, rec) == UpdateRecord("SYMINFO", ndx, rec)

(***************************************************************************)
(* A symbol and its extended section index.  The update checks the type of *)
(* the symbol data where it means that of the index data.                  *)
(***************************************************************************)
IndexUsable(dtype) ==
    index.sht # "NULL" /\ index.elf = "same" /\ XlateShtype(index.sht) = "WORD" /\ dtype = "WORD"

GetSymShndx(ndx) ==
    LET found == IndexUsable(index.dtype) /\ ndx < Len(index.cells)
    IN  /\ result' =
               IF Accepts("SYM", ndx) /\ (found \/ index.sht = "NULL")
               THEN [Asked(ndx) EXCEPT !.ok = TRUE, !.rec = Read("SYM", data[ndx + 1]),
                                       !.xndx = IF found THEN index.cells[ndx + 1] ELSE 0]
               ELSE Asked(ndx)
        /\ UNCHANGED <<class, kind, data, index>>

UpdateSymShndx(ndx, rec, xndx) ==
    LET usable == /\ Done("SYM", ndx, rec)
                  /\ IndexUsable(index.symtype) /\ ndx < Len(index.cells)
    IN  /\ data' = Updated("SYM", ndx, rec)
        /\ index' = IF usable THEN [index EXCEPT !.cells[ndx + 1] = xndx] ELSE index
        /\ result' = [Given(ndx, rec) EXCEPT !.ok = usable, !.xarg = xndx]
        /\ UNCHANGED <<class, kind>>

RecordInit ==
    /\ class \in {32, 64}
    /\ kind \in Kinds
    /\ data = [i \in 1..Records |-> [f \in FieldNames(Meant(kind)) |-> 0]]
    /\ index \in Linked /\ (kind # "SYMTAB" => index.sht = "NULL")
    /\ result = NoCall

\* The records given; one is enough where the call is refused without reading it.
Samples(t) == IF XlateShtype(kind) = t THEN AllSamples(t) ELSE {CHOOSE rec \in AllSamples(t) : TRUE}

RecordNext ==
    \E ndx \in -1..Records :
        \/ GetSym(ndx) \/ GetRel(ndx) \/ GetRela(ndx) \/ GetDyn(ndx) \/ GetMove(ndx) \/ GetCap(ndx)
        \/ GetSyminfo(ndx) \/ GetSymShndx(ndx)
        \/ \E rec \in Samples("SYM") : UpdateSym(ndx, rec) \/ UpdateSymShndx(ndx, rec, 1)
        \/ \E rec \in Samples("REL") : UpdateRel(ndx, rec)
        \/ \E rec \in Samples("RELA") : UpdateRela(ndx, rec)
        \/ \E rec \in Samples("DYN") : UpdateDyn(ndx, rec)
        \/ \E rec \in Samples("MOVE") : UpdateMove(ndx, rec)
        \/ \E rec \in Samples("CAP") : UpdateCap(ndx, rec)
        \/ \E rec \in Samples("SYMINFO") : UpdateSyminfo(ndx, rec)

RecordSpec == RecordInit /\ [][RecordNext]_recordVars

(***************************************************************************)
(* Properties.                                                             *)
(***************************************************************************)
\* Records have the fields of their type, whose values fit the class.
RecordTypeOK ==
    /\ \A i \in DOMAIN data : DOMAIN data[i] = FieldNames(Meant(kind))
    /\ class = 32 => \A i \in DOMAIN data : \A f \in DOMAIN data[i] :
          Way(Meant(kind), f) # "same" => data[i][f] \in 0..(Word - 1)

Array == INSTANCE RecordArray WITH
             table <- [i \in DOMAIN data |-> Read(Meant(kind), data[i])]

\* The table behaves as an array of class-independent records, whatever the class:
\* what an update that succeeds stored is what is read back, sign and packing
\* included; one that fails leaves each field with its old value or the new one;
\* and no call touches any other record (gelf_getsym.3:63-90).
ImplementsArray == Array!Spec

\* gelf_getsymshndx.3:125: gelf_update_symshndx updates the symbol, and "In addition
\* it sets the extended section index": a symbol that fits, with an index descriptor
\* of the right section and size, gets its index too.
IndexFollowsSymbol ==
    [][result'.xarg # 0 /\ index.sht = "SYMTAB_SHNDX" /\ index.dtype = "WORD" /\ index.symtype = "SYM"
          /\ index.elf = "same" /\ result'.ndx + 1 \in DOMAIN index.cells
          /\ Done("SYM", result'.ndx, result'.arg)
       => index'.cells[result'.ndx + 1] = result'.xarg]_recordVars

\* gelf_getsymshndx.3:169: "xndxdata was not associated with a section of type
\* SHT_SYMTAB_SHNDX" is an error.
OnlyIndexSections == index.sht = "GROUP" => result.xndx = 0

\* gelf_getcap.3:53: the functions work on "a section of type SHT_SUNW_cap".
CapabilitiesReadable ==
    kind = "CAP" /\ result.call = "get" /\ result.ndx \in 0..(Records - 1) => result.ok
=============================================================================
