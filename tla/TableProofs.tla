----------------------------- MODULE TableProofs -----------------------------
(***************************************************************************)
(* Theorems about the tables libelf and libelftc keep.  About GelfRecords, *)
(* for any widths of the narrow fields, any values, any number of records  *)
(* and any sequence of calls: the accessors implement an array of class-   *)
(* independent records.  About StringTable, for any strings, sizes and     *)
(* sequence of calls: the table implements the map of StringMap, the       *)
(* compaction in place included, and finds the entry of every string it    *)
(* passes.                                                                 *)
(***************************************************************************)
EXTENDS GelfRecords, StringTable, SequenceTheorems, WellFoundedInduction, TLAPS

----------------------------------------------------------------------------
(* Records of a section. *)

Ways == {"same", "u32", "s32", "info"}

\* What the proofs use of the fields fs of a record type: each is listed once.
Listed(fs) ==
    /\ Len(fs) \in Nat /\ DOMAIN fs = 1..Len(fs)
    /\ \A i \in 1..Len(fs) : fs[i][2] \in Ways
    /\ \A i, j \in 1..Len(fs) : fs[i][1] = fs[j][1] => i = j

\* A record with the fields of its type, each with a value of the application.
Sampled(t, rec) ==
    /\ rec = [f \in FieldNames(t) |-> rec[f]]
    /\ \A i \in DOMAIN Fields(t) : rec[Fields(t)[i][1]] \in Wide[Fields(t)[i][2]]

----------------------------------------------------------------------------
(* Widths. *)

\* A word has room.
LEMMA WordPositive == Word \in Nat \ {0} /\ Type8 \in Nat \ {0} /\ Sym24 \in Nat \ {0}
BY Widths

\* The quotient and the rest of a number put together from both.
LEMMA DivMod ==
    ASSUME NEW n \in Nat \ {0}, NEW q \in Int, NEW r \in 0..n - 1
    PROVE  (q * n + r) \div n = q /\ (q * n + r) % n = r
OBVIOUS

\* Dividing and putting together again.
LEMMA ModDiv ==
    ASSUME NEW n \in Nat \ {0}, NEW v \in Nat
    PROVE  v = (v \div n) * n + (v % n) /\ v \div n \in Nat /\ v % n \in 0..n - 1
OBVIOUS

\* The rest of a small negative number.
LEMMA NegativeMod ==
    ASSUME NEW n \in Nat \ {0}, NEW v \in Int, -n <= v, v < 0
    PROVE  v % n = v + n
OBVIOUS

\* What fits comes back from a narrow field: signs are extended, and the symbol and
\* the type of r_info are taken apart where they were put together.
LEMMA NarrowComesBack ==
    ASSUME NEW w \in Ways, NEW v \in Wide[w], Fits(w, v)
    PROVE  Widen(w, Narrow(w, v)) = v
<1>1. CASE w = "same"
  BY <1>1 DEF Narrow, Widen
<1>2. CASE w = "u32"
  <2>1. v \in Nat /\ v < Word /\ Word \in Nat \ {0}
    BY <1>2, WordPositive, RecordsAssumption DEF Fits
  <2>2. v % Word = v
    BY <2>1
  <2> QED BY <1>2, <2>2 DEF Narrow, Widen
<1>3. CASE w = "s32"
  <2> DEFINE h == Word \div 2
  <2>1. v \in Int /\ v >= -h /\ v < h /\ Word \in Nat \ {0}
    BY <1>3, WordPositive, RecordsAssumption DEF Fits
  <2>2. h \in Nat /\ h + h <= Word
    BY <2>1
  <2>3. Narrow(w, v) = v % Word /\ Widen(w, v % Word) = IF v % Word < h THEN v % Word ELSE (v % Word) - Word
    BY <1>3 DEF Narrow, Widen
  <2> HIDE DEF h
  <2>4. CASE v >= 0
    <3>1. v % Word = v
      BY <2>1, <2>2, <2>4
    <3> QED BY <2>1, <2>3, <3>1
  <2>5. CASE v < 0
    <3>1. v % Word = v + Word
      BY <2>1, <2>2, <2>5
    <3> QED BY <2>1, <2>2, <2>3, <3>1
  <2> QED BY <2>1, <2>4, <2>5
<1>4. CASE w = "info"
  <2> DEFINE s == v \div Word
             y == v % Word
  <2>1. v \in Nat /\ y < Type8 /\ Word \in Nat \ {0} /\ Type8 \in Nat \ {0}
    BY <1>4, WordPositive, RecordsAssumption DEF Fits
  <2>2. v = s * Word + y /\ s \in Nat /\ y \in Nat /\ y \in 0..Type8 - 1
    <3>1. v = (v \div Word) * Word + (v % Word) /\ v \div Word \in Nat /\ v % Word \in Nat
      BY <2>1
    <3> QED BY <2>1, <3>1
  <2>3. Narrow(w, v) = s * Type8 + y
    BY <1>4 DEF Narrow
  <2> HIDE DEF s, y
  <2>4. (s * Type8 + y) \div Type8 = s /\ (s * Type8 + y) % Type8 = y
    BY <2>1, <2>2, DivMod
  <2> QED BY <1>4, <2>2, <2>3, <2>4 DEF Widen
<1> QED BY <1>1, <1>2, <1>3, <1>4 DEF Ways

\* A narrow field holds what is stored in it.
LEMMA NarrowRange ==
    ASSUME NEW w \in Ways, NEW v \in Wide[w], Fits(w, v), w # "same"
    PROVE  Narrow(w, v) \in 0..Word - 1
<1>1. CASE w \in {"u32", "s32"}
  <2>1. v \in Int /\ Word \in Nat \ {0}
    BY <1>1, WordPositive, RecordsAssumption
  <2>2. v % Word \in 0..Word - 1
    BY <2>1
  <2> QED BY <1>1, <2>2 DEF Narrow
<1>2. CASE w = "info"
  <2> DEFINE s == v \div Word
             y == v % Word
  <2>1. v \in Nat /\ s < Sym24 /\ y < Type8 /\ Word \in Nat \ {0} /\ Type8 \in Nat \ {0} /\ Sym24 \in Nat \ {0}
    BY <1>2, WordPositive, RecordsAssumption DEF Fits
  <2>2. s \in Nat /\ y \in Nat
    BY <2>1
  <2>3. Narrow(w, v) = s * Type8 + y /\ Word = Sym24 * Type8
    BY <1>2, Widths DEF Narrow
  <2> HIDE DEF s, y
  <2>4. s + 1 <= Sym24 /\ s * Type8 \in Nat /\ Sym24 * Type8 \in Nat
    BY <2>1, <2>2
  <2>5. (s + 1) * Type8 <= Sym24 * Type8 /\ (s + 1) * Type8 = s * Type8 + Type8
    BY <2>1, <2>2, <2>4
  <2> QED BY <2>1, <2>2, <2>3, <2>4, <2>5
<1> QED BY <1>1, <1>2 DEF Ways

----------------------------------------------------------------------------
(* Record types. *)

LEMMA FieldsListed == \A t \in RecordTypes : Listed(Fields(t))
<1>1. Listed(SymFields)
  <2>1. DOMAIN SymFields = 1..4 /\ Len(SymFields) = 4
    BY DEF SymFields
  <2>2. \A i \in 1..4 : SymFields[i][2] \in Ways
    BY DEF SymFields, Ways
  <2>3. \A i, j \in 1..4 : SymFields[i][1] = SymFields[j][1] => i = j
    BY DEF SymFields
  <2> QED BY <2>1, <2>2, <2>3 DEF Listed
<1>2. Listed(RelFields)
  <2>1. DOMAIN RelFields = 1..2 /\ Len(RelFields) = 2
    BY DEF RelFields
  <2>2. \A i \in 1..2 : RelFields[i][2] \in Ways
    BY DEF RelFields, Ways
  <2>3. \A i, j \in 1..2 : RelFields[i][1] = RelFields[j][1] => i = j
    BY DEF RelFields
  <2> QED BY <2>1, <2>2, <2>3 DEF Listed
<1>3. Listed(RelaFields)
  <2>1. DOMAIN RelaFields = 1..3 /\ Len(RelaFields) = 3
    BY DEF RelaFields, RelFields
  <2>2. \A i \in 1..3 : RelaFields[i][2] \in Ways
    BY DEF RelaFields, RelFields, Ways
  <2>3. \A i, j \in 1..3 : RelaFields[i][1] = RelaFields[j][1] => i = j
    BY DEF RelaFields, RelFields
  <2> QED BY <2>1, <2>2, <2>3 DEF Listed
<1>4. Listed(DynFields)
  <2>1. DOMAIN DynFields = 1..2 /\ Len(DynFields) = 2
    BY DEF DynFields
  <2>2. \A i \in 1..2 : DynFields[i][2] \in Ways
    BY DEF DynFields, Ways
  <2>3. \A i, j \in 1..2 : DynFields[i][1] = DynFields[j][1] => i = j
    BY DEF DynFields
  <2> QED BY <2>1, <2>2, <2>3 DEF Listed
<1>5. Listed(MoveFields)
  <2>1. DOMAIN MoveFields = 1..4 /\ Len(MoveFields) = 4
    BY DEF MoveFields
  <2>2. \A i \in 1..4 : MoveFields[i][2] \in Ways
    BY DEF MoveFields, Ways
  <2>3. \A i, j \in 1..4 : MoveFields[i][1] = MoveFields[j][1] => i = j
    BY DEF MoveFields
  <2> QED BY <2>1, <2>2, <2>3 DEF Listed
<1>6. Listed(CapFields)
  <2>1. DOMAIN CapFields = 1..2 /\ Len(CapFields) = 2
    BY DEF CapFields
  <2>2. \A i \in 1..2 : CapFields[i][2] \in Ways
    BY DEF CapFields, Ways
  <2>3. \A i, j \in 1..2 : CapFields[i][1] = CapFields[j][1] => i = j
    BY DEF CapFields
  <2> QED BY <2>1, <2>2, <2>3 DEF Listed
<1>7. Listed(SyminfoFields)
  <2>1. DOMAIN SyminfoFields = 1..2 /\ Len(SyminfoFields) = 2
    BY DEF SyminfoFields
  <2>2. \A i \in 1..2 : SyminfoFields[i][2] \in Ways
    BY DEF SyminfoFields, Ways
  <2>3. \A i, j \in 1..2 : SyminfoFields[i][1] = SyminfoFields[j][1] => i = j
    BY DEF SyminfoFields
  <2> QED BY <2>1, <2>2, <2>3 DEF Listed
<1>8. \A t \in RecordTypes : Fields(t) \in {SymFields, RelFields, RelaFields, DynFields, MoveFields,
                                            CapFields, SyminfoFields}
  BY DEF RecordTypes, Fields
<1> QED BY <1>1, <1>2, <1>3, <1>4, <1>5, <1>6, <1>7, <1>8

\* A way is found by the name of the field.
LEMMA WayOfField ==
    ASSUME NEW t \in RecordTypes, NEW i \in DOMAIN Fields(t)
    PROVE  Way(t, Fields(t)[i][1]) = Fields(t)[i][2]
<1> DEFINE fs == Fields(t)
           f == fs[i][1]
           I == {k \in 1..Len(fs) : fs[k][1] = f}
<1>1. Listed(fs)
  BY FieldsListed
<1>2. I = {i}
  BY <1>1 DEF Listed
<1>3. SelectInSeq(fs, LAMBDA x : x[1] = f) = Min(I)
  BY <1>2 DEF SelectInSeq
<1>4. Min(I) = i
  <2>1. i \in Nat
    BY <1>1 DEF Listed
  <2> HIDE DEF I
  <2> QED BY <1>2, <2>1 DEF Min
<1> QED BY <1>3, <1>4 DEF Way

\* The fields of a record.
LEMMA FieldsOf ==
    ASSUME NEW t \in RecordTypes, NEW f \in FieldNames(t)
    PROVE  /\ Way(t, f) \in Ways
           /\ \E i \in DOMAIN Fields(t) : f = Fields(t)[i][1] /\ Way(t, f) = Fields(t)[i][2]
<1>1. PICK i \in DOMAIN Fields(t) : f = Fields(t)[i][1]
  BY DEF FieldNames
<1>2. Way(t, f) = Fields(t)[i][2] /\ Fields(t)[i][2] \in Ways
  BY <1>1, WayOfField, FieldsListed DEF Listed
<1> QED BY <1>1, <1>2

\* The records an application passes have the fields of their type, with values of it.
LEMMA SamplesTyped == \A t \in RecordTypes : \A rec \in AllSamples(t) : Sampled(t, rec)
<1>1. ASSUME NEW rec \in AllSamples("SYM") PROVE Sampled("SYM", rec)
  <2>1. Fields("SYM") = SymFields /\ DOMAIN SymFields = 1..4
    BY DEF Fields, SymFields
  <2>2. rec \in [st_name : Wide.same, st_shndx : Wide.same, st_value : Wide.u32, st_size : Wide.u32]
    BY DEF AllSamples
  <2>3. \A i \in 1..4 : rec[SymFields[i][1]] \in Wide[SymFields[i][2]]
    BY <2>2 DEF SymFields
  <2>4. {SymFields[i][1] : i \in 1..4} = {"st_name", "st_shndx", "st_value", "st_size"}
    BY DEF SymFields
  <2>5. rec = [f \in {"st_name", "st_shndx", "st_value", "st_size"} |-> rec[f]]
    BY <2>2
  <2> QED BY <2>1, <2>3, <2>4, <2>5 DEF Sampled, FieldNames
<1>2. ASSUME NEW rec \in AllSamples("REL") PROVE Sampled("REL", rec)
  <2>1. Fields("REL") = RelFields /\ DOMAIN RelFields = 1..2
    BY DEF Fields, RelFields
  <2>2. rec \in [r_offset : Wide.u32, r_info : Wide.info]
    BY DEF AllSamples
  <2>3. \A i \in 1..2 : rec[RelFields[i][1]] \in Wide[RelFields[i][2]]
    BY <2>2 DEF RelFields
  <2>4. {RelFields[i][1] : i \in 1..2} = {"r_offset", "r_info"}
    BY DEF RelFields
  <2>5. rec = [f \in {"r_offset", "r_info"} |-> rec[f]]
    BY <2>2
  <2> QED BY <2>1, <2>3, <2>4, <2>5 DEF Sampled, FieldNames
<1>3. ASSUME NEW rec \in AllSamples("RELA") PROVE Sampled("RELA", rec)
  <2>1. Fields("RELA") = RelaFields /\ DOMAIN RelaFields = 1..3
    BY DEF Fields, RelaFields, RelFields
  <2>2. rec \in [r_offset : Wide.u32, r_info : Wide.info, r_addend : Wide.s32]
    BY DEF AllSamples
  <2>3. \A i \in 1..3 : rec[RelaFields[i][1]] \in Wide[RelaFields[i][2]]
    BY <2>2 DEF RelaFields, RelFields
  <2>4. {RelaFields[i][1] : i \in 1..3} = {"r_offset", "r_info", "r_addend"}
    BY DEF RelaFields, RelFields
  <2>5. rec = [f \in {"r_offset", "r_info", "r_addend"} |-> rec[f]]
    BY <2>2
  <2> QED BY <2>1, <2>3, <2>4, <2>5 DEF Sampled, FieldNames
<1>4. ASSUME NEW rec \in AllSamples("DYN") PROVE Sampled("DYN", rec)
  <2>1. Fields("DYN") = DynFields /\ DOMAIN DynFields = 1..2
    BY DEF Fields, DynFields
  <2>2. rec \in [d_tag : Wide.s32, d_val : Wide.u32]
    BY DEF AllSamples
  <2>3. \A i \in 1..2 : rec[DynFields[i][1]] \in Wide[DynFields[i][2]]
    BY <2>2 DEF DynFields
  <2>4. {DynFields[i][1] : i \in 1..2} = {"d_tag", "d_val"}
    BY DEF DynFields
  <2>5. rec = [f \in {"d_tag", "d_val"} |-> rec[f]]
    BY <2>2
  <2> QED BY <2>1, <2>3, <2>4, <2>5 DEF Sampled, FieldNames
<1>5. ASSUME NEW rec \in AllSamples("MOVE") PROVE Sampled("MOVE", rec)
  <2>1. Fields("MOVE") = MoveFields /\ DOMAIN MoveFields = 1..4
    BY DEF Fields, MoveFields
  <2>2. rec \in [m_value : Wide.same, m_info : Wide.u32, m_poffset : Wide.u32, m_repeat : Wide.same]
    BY DEF AllSamples
  <2>3. \A i \in 1..4 : rec[MoveFields[i][1]] \in Wide[MoveFields[i][2]]
    BY <2>2 DEF MoveFields
  <2>4. {MoveFields[i][1] : i \in 1..4} = {"m_value", "m_info", "m_poffset", "m_repeat"}
    BY DEF MoveFields
  <2>5. rec = [f \in {"m_value", "m_info", "m_poffset", "m_repeat"} |-> rec[f]]
    BY <2>2
  <2> QED BY <2>1, <2>3, <2>4, <2>5 DEF Sampled, FieldNames
<1>6. ASSUME NEW rec \in AllSamples("CAP") PROVE Sampled("CAP", rec)
  <2>1. Fields("CAP") = CapFields /\ DOMAIN CapFields = 1..2
    BY DEF Fields, CapFields
  <2>2. rec \in [c_tag : Wide.u32, c_val : Wide.u32]
    BY DEF AllSamples
  <2>3. \A i \in 1..2 : rec[CapFields[i][1]] \in Wide[CapFields[i][2]]
    BY <2>2 DEF CapFields
  <2>4. {CapFields[i][1] : i \in 1..2} = {"c_tag", "c_val"}
    BY DEF CapFields
  <2>5. rec = [f \in {"c_tag", "c_val"} |-> rec[f]]
    BY <2>2
  <2> QED BY <2>1, <2>3, <2>4, <2>5 DEF Sampled, FieldNames
<1>7. ASSUME NEW rec \in AllSamples("SYMINFO") PROVE Sampled("SYMINFO", rec)
  <2>1. Fields("SYMINFO") = SyminfoFields /\ DOMAIN SyminfoFields = 1..2
    BY DEF Fields, SyminfoFields
  <2>2. rec \in [si_boundto : Wide.same, si_flags : Wide.same]
    BY DEF AllSamples
  <2>3. \A i \in 1..2 : rec[SyminfoFields[i][1]] \in Wide[SyminfoFields[i][2]]
    BY <2>2 DEF SyminfoFields
  <2>4. {SyminfoFields[i][1] : i \in 1..2} = {"si_boundto", "si_flags"}
    BY DEF SyminfoFields
  <2>5. rec = [f \in {"si_boundto", "si_flags"} |-> rec[f]]
    BY <2>2
  <2> QED BY <2>1, <2>3, <2>4, <2>5 DEF Sampled, FieldNames
<1> QED BY <1>1, <1>2, <1>3, <1>4, <1>5, <1>6, <1>7 DEF RecordTypes

----------------------------------------------------------------------------
(* The records in memory. *)

\* The record m has the fields of t, which a narrow record can hold.
Held(t, m) ==
    /\ m = [f \in FieldNames(t) |-> m[f]]
    /\ class = 32 => \A f \in FieldNames(t) : Way(t, f) # "same" => m[f] \in 0..Word - 1

RecordInv ==
    /\ class \in {32, 64} /\ kind \in Kinds
    /\ data \in Seq({data[i] : i \in DOMAIN data})
    /\ \A i \in DOMAIN data : Held(Meant(kind), data[i])

\* What is accepted is of the kind of the table.
LEMMA AcceptedMeant ==
    ASSUME NEW t \in RecordTypes, XlateShtype(kind) = t
    PROVE  Meant(kind) = t
<1>1. CASE kind \in {"SYMTAB", "DYNSYM"}
  BY <1>1 DEF XlateShtype, Meant
<1>2. CASE kind = "DYNAMIC"
  BY <1>2 DEF XlateShtype, Meant
<1>3. CASE kind \in {"REL", "RELA", "MOVE", "SYMINFO"}
  BY <1>3 DEF XlateShtype, Meant
<1>4. CASE kind \notin {"SYMTAB", "DYNSYM", "DYNAMIC", "REL", "RELA", "MOVE", "SYMINFO"}
  BY <1>4 DEF XlateShtype, RecordTypes
<1> QED BY <1>1, <1>2, <1>3, <1>4

\* A field that was copied fits.
LEMMA CopiedFits ==
    ASSUME NEW t \in RecordTypes, NEW rec, class = 32, NEW f \in Copied(t, rec)
    PROVE  f \in FieldNames(t) /\ Fits(Way(t, f), rec[f])
<1>1. PICK i \in DOMAIN Fields(t) :
         /\ f = Fields(t)[i][1] /\ \A j \in 1..i : Fits(Fields(t)[j][2], rec[Fields(t)[j][1]])
  BY DEF Copied
<1>2. i \in 1..i
  BY FieldsListed DEF Listed
<1>3. Way(t, f) = Fields(t)[i][2]
  BY <1>1, WayOfField
<1> QED BY <1>1, <1>2, <1>3 DEF FieldNames

\* What an update makes of a record: each field has its new value or the old one.
LEMMA StoredReads ==
    ASSUME NEW t \in RecordTypes, NEW m, NEW rec, Held(t, m), Sampled(t, rec), class \in {32, 64}
    PROVE  /\ Held(t, Stored(t, m, rec))
           /\ Read(t, Stored(t, m, rec)) = [f \in FieldNames(t) |-> IF f \in Copied(t, rec) THEN rec[f] ELSE Read(t, m)[f]]
<1> DEFINE x == Stored(t, m, rec)
<1>1. /\ x = [f \in FieldNames(t) |-> x[f]]
      /\ \A f \in FieldNames(t) :
            x[f] = IF f \notin Copied(t, rec) THEN m[f] ELSE IF class = 64 THEN rec[f] ELSE Narrow(Way(t, f), rec[f])
  BY DEF Stored
<1>2. \A f \in FieldNames(t) : rec[f] \in Wide[Way(t, f)] /\ Way(t, f) \in Ways
  BY FieldsOf DEF Sampled
<1> HIDE DEF x
<1>3. CASE class = 64
  <2>1. Read(t, x) = x /\ Read(t, m) = m
    BY <1>3 DEF Read
  <2>2. x = [f \in FieldNames(t) |-> IF f \in Copied(t, rec) THEN rec[f] ELSE m[f]]
    BY <1>1, <1>3
  <2>3. Held(t, x)
    BY <1>1, <1>3 DEF Held
  <2> QED BY <2>1, <2>2, <2>3 DEF x
<1>4. CASE class = 32
  <2>1. ASSUME NEW f \in FieldNames(t), f \in Copied(t, rec)
        PROVE  /\ Widen(Way(t, f), x[f]) = rec[f]
               /\ Way(t, f) # "same" => x[f] \in 0..Word - 1
    <3>1. Fits(Way(t, f), rec[f]) /\ x[f] = Narrow(Way(t, f), rec[f])
      BY <1>1, <1>4, <2>1, CopiedFits
    <3> QED BY <1>2, <3>1, NarrowComesBack, NarrowRange
  <2>2. \A f \in FieldNames(t) : Read(t, x)[f] = IF f \in Copied(t, rec) THEN rec[f] ELSE Read(t, m)[f]
    BY <1>1, <1>4, <2>1 DEF Read
  <2>3. Read(t, x) = [f \in FieldNames(t) |-> Read(t, x)[f]]
    BY <1>4 DEF Read
  <2>4. Held(t, x)
    BY <1>1, <1>4, <2>1 DEF Held
  <2> QED BY <2>2, <2>3, <2>4 DEF x
<1> QED BY <1>3, <1>4

----------------------------------------------------------------------------
(* The calls. *)

\* A call that leaves the records alone.
LEMMA SameRecords == RecordInv /\ UNCHANGED <<class, kind, data>> => RecordInv'
BY DEF RecordInv, Held

LEMMA SameTable ==
    ASSUME UNCHANGED <<class, kind, data>>
    PROVE  [i \in DOMAIN data |-> Read(Meant(kind), data[i])]' = [i \in DOMAIN data |-> Read(Meant(kind), data[i])]
BY DEF Read

\* The functions that read a record.
LEMMA GetStep ==
    ASSUME RecordInv, NEW t \in RecordTypes, NEW ndx \in Int, UNCHANGED <<class, kind, data>>,
           result'.call = "get", result'.ndx = ndx,
           result'.ok => Accepts(t, ndx) /\ result'.rec = Read(t, data[ndx + 1])
    PROVE  RecordInv' /\ Array!Get(result'.ndx + 1)
<1>1. result'.ok => ndx + 1 \in DOMAIN data /\ result'.rec = Read(Meant(kind), data[ndx + 1])
  <2>1. DOMAIN data = 1..Len(data) /\ Len(data) \in Nat
    BY DEF RecordInv
  <2> QED BY <2>1, AcceptedMeant DEF Accepts
<1> QED BY <1>1, SameRecords, SameTable DEF Array!Get

\* The functions that change a record.
LEMMA UpdateStep ==
    ASSUME RecordInv, NEW t \in RecordTypes, NEW ndx \in Int, NEW rec, UNCHANGED <<class, kind>>,
           data' = Updated(t, ndx, rec), Accepts(t, ndx) => Sampled(t, rec) /\ result'.arg = rec,
           result'.call = "update", result'.ndx = ndx, result'.ok => Done(t, ndx, rec)
    PROVE  RecordInv' /\ Array!Update(result'.ndx + 1)
<1>1. CASE ~ Accepts(t, ndx)
  <2>1. data' = data /\ ~ result'.ok
    BY <1>1 DEF Updated, Done
  <2>2. UNCHANGED <<class, kind, data>>
    BY <2>1
  <2> QED BY <2>1, <2>2, SameRecords, SameTable DEF Array!Update, Array!Others
<1>2. CASE Accepts(t, ndx)
  <2> DEFINE k == ndx + 1
             m == data[k]
             x == Stored(t, m, rec)
  <2>1. /\ Meant(kind) = t /\ Meant(kind') = t /\ class' = class /\ class \in {32, 64}
        /\ DOMAIN data = 1..Len(data) /\ Len(data) \in Nat /\ k \in DOMAIN data
        /\ \A i \in DOMAIN data : Held(t, data[i])
    BY <1>2, AcceptedMeant DEF Accepts, RecordInv
  <2>2. data' = [data EXCEPT ![k] = x]
    BY <1>2 DEF Updated
  <2>3. Held(t, x) /\ Read(t, x) = [f \in FieldNames(t) |-> IF f \in Copied(t, rec) THEN rec[f] ELSE Read(t, m)[f]]
    BY <1>2, <2>1, StoredReads
  <2> HIDE DEF x
  <2>4. DOMAIN data' = DOMAIN data /\ data'[k] = x /\ \A i \in DOMAIN data : i # k => data'[i] = data[i]
    BY <2>1, <2>2
  <2>5. data' \in Seq({data'[i] : i \in DOMAIN data'})
    <3>1. data' = [i \in 1..Len(data) |-> data'[i]]
      BY <2>1, <2>2
    <3> QED BY <2>1, <2>4, <3>1
  <2>6. \A i \in DOMAIN data' : Held(t, data'[i])
    BY <2>1, <2>3, <2>4
  <2>7. RecordInv'
    BY <2>1, <2>5, <2>6 DEF RecordInv, Held
  <2> DEFINE T == [i \in DOMAIN data |-> Read(Meant(kind), data[i])]
  <2>8. /\ DOMAIN T = DOMAIN data /\ DOMAIN T' = DOMAIN data
        /\ \A i \in DOMAIN data : T[i] = Read(t, data[i])
        /\ \A i \in DOMAIN data : T'[i] = Read(t, data'[i])
    BY <2>1, <2>4 DEF Read
  <2>9. DOMAIN Read(t, m) = FieldNames(t)
    BY <2>1 DEF Read, Held
  <2>u. Array!Update(k) <=>
           /\ result'.call = "update" /\ DOMAIN T' = DOMAIN T
           /\ \A j \in DOMAIN T : j # k => T'[j] = T[j]
           /\ IF result'.ok THEN k \in DOMAIN T /\ T'[k] = result'.arg
              ELSE T' = T \/ \A f \in DOMAIN T[k] : T'[k][f] \in {T[k][f], result'.arg[f]}
    BY Zenon DEF Array!Update, Array!Others, Array!Between
  <2>k. result'.ndx + 1 = k
    OBVIOUS
  <2> HIDE DEF T, k, m
  <2>10. \A j \in DOMAIN T : j # k => T'[j] = T[j]
    BY <2>4, <2>8
  <2>11. CASE result'.ok
    <3>1. Copied(t, rec) = FieldNames(t) /\ rec = [f \in FieldNames(t) |-> rec[f]] /\ result'.arg = rec
      BY <1>2, <2>11 DEF Done, Sampled
    <3>2. Read(t, x) = rec
      BY <2>3, <3>1
    <3> QED BY <2>1, <2>4, <2>7, <2>8, <2>10, <2>11, <2>u, <2>k, <3>1, <3>2
  <2>12. CASE ~ result'.ok
    <3>1. \A f \in DOMAIN T[k] : T'[k][f] \in {T[k][f], result'.arg[f]}
      BY <1>2, <2>1, <2>3, <2>4, <2>8, <2>9 DEF m
    <3> QED BY <2>1, <2>7, <2>8, <2>10, <2>12, <2>u, <2>k, <3>1
  <2> QED BY <2>7, <2>11, <2>12
<1> QED BY <1>1, <1>2

LEMMA GetRecordStep ==
    ASSUME RecordInv, NEW t \in RecordTypes, NEW ndx \in Int, GetRecord(t, ndx)
    PROVE  RecordInv' /\ Array!Get(result'.ndx + 1)
<1>1. /\ UNCHANGED <<class, kind, data>>
      /\ result'.call = "get" /\ result'.ndx = ndx
      /\ result'.ok => Accepts(t, ndx) /\ result'.rec = Read(t, data[ndx + 1])
  BY DEF GetRecord, Asked, NoCall
<1> QED BY <1>1, GetStep

LEMMA GetSymShndxStep ==
    ASSUME RecordInv, NEW ndx \in Int, GetSymShndx(ndx)
    PROVE  RecordInv' /\ Array!Get(result'.ndx + 1)
<1>1. /\ UNCHANGED <<class, kind, data>>
      /\ result'.call = "get" /\ result'.ndx = ndx
      /\ result'.ok => Accepts("SYM", ndx) /\ result'.rec = Read("SYM", data[ndx + 1])
  BY DEF GetSymShndx, Asked, NoCall
<1> QED BY <1>1, GetStep DEF RecordTypes

\* The records passed to a call that accepts them.
LEMMA SampleAccepted ==
    ASSUME NEW t \in RecordTypes, NEW rec \in Samples(t), NEW ndx, Accepts(t, ndx)
    PROVE  Sampled(t, rec)
BY SamplesTyped DEF Samples, Accepts

LEMMA UpdateRecordStep ==
    ASSUME RecordInv, NEW t \in RecordTypes, NEW ndx \in Int, NEW rec \in Samples(t), UpdateRecord(t, ndx, rec)
    PROVE  RecordInv' /\ Array!Update(result'.ndx + 1)
<1>1. /\ UNCHANGED <<class, kind>> /\ data' = Updated(t, ndx, rec)
      /\ result'.call = "update" /\ result'.ndx = ndx /\ (Accepts(t, ndx) => result'.arg = rec)
      /\ result'.ok = Done(t, ndx, rec)
  BY DEF UpdateRecord, Given, NoCall
<1> QED BY <1>1, SampleAccepted, UpdateStep

\* The pair of functions that also reads and sets the index fails after the record
\* has changed when the index cannot be used.
LEMMA UpdateSymShndxStep ==
    ASSUME RecordInv, NEW ndx \in Int, NEW rec \in Samples("SYM"), NEW x, UpdateSymShndx(ndx, rec, x)
    PROVE  RecordInv' /\ Array!Update(result'.ndx + 1)
<1>1. /\ UNCHANGED <<class, kind>> /\ data' = Updated("SYM", ndx, rec)
      /\ result'.call = "update" /\ result'.ndx = ndx /\ result'.arg = rec
      /\ result'.ok => Done("SYM", ndx, rec)
  BY DEF UpdateSymShndx, Given, NoCall
<1>2. "SYM" \in RecordTypes
  BY DEF RecordTypes
<1> QED BY <1>1, <1>2, SampleAccepted, UpdateStep

LEMMA CallStep ==
    ASSUME RecordInv, RecordNext
    PROVE  RecordInv' /\ Array!Next
<1>1. PICK ndx \in -1..Records :
        \/ GetSym(ndx) \/ GetRel(ndx) \/ GetRela(ndx) \/ GetDyn(ndx) \/ GetMove(ndx) \/ GetCap(ndx)
        \/ GetSyminfo(ndx) \/ GetSymShndx(ndx)
        \/ \E rec \in Samples("SYM") : UpdateSym(ndx, rec) \/ UpdateSymShndx(ndx, rec, 1)
        \/ \E rec \in Samples("REL") : UpdateRel(ndx, rec)
        \/ \E rec \in Samples("RELA") : UpdateRela(ndx, rec)
        \/ \E rec \in Samples("DYN") : UpdateDyn(ndx, rec)
        \/ \E rec \in Samples("MOVE") : UpdateMove(ndx, rec)
        \/ \E rec \in Samples("CAP") : UpdateCap(ndx, rec)
        \/ \E rec \in Samples("SYMINFO") : UpdateSyminfo(ndx, rec)
  BY DEF RecordNext
<1>2. ndx \in Int
  BY RecordsAssumption
<1>3. CASE \E t \in RecordTypes : GetRecord(t, ndx)
  BY <1>2, <1>3, GetRecordStep DEF Array!Next
<1>4. CASE GetSymShndx(ndx)
  BY <1>2, <1>4, GetSymShndxStep DEF Array!Next
<1>5. CASE \E t \in RecordTypes : \E rec \in Samples(t) : UpdateRecord(t, ndx, rec)
  BY <1>2, <1>5, UpdateRecordStep DEF Array!Next
<1>6. CASE \E rec \in Samples("SYM") : UpdateSymShndx(ndx, rec, 1)
  BY <1>2, <1>6, UpdateSymShndxStep DEF Array!Next
<1>7. {"SYM", "REL", "RELA", "DYN", "MOVE", "CAP", "SYMINFO"} = RecordTypes
  BY DEF RecordTypes
<1> QED
  BY <1>1, <1>3, <1>4, <1>5, <1>6, <1>7, Zenon
  DEF GetSym, GetRel, GetRela, GetDyn, GetMove, GetCap, GetSyminfo,
      UpdateSym, UpdateRel, UpdateRela, UpdateDyn, UpdateMove, UpdateCap, UpdateSyminfo

LEMMA RecordInitially == RecordInit => RecordInv /\ Array!Init
<1> SUFFICES ASSUME RecordInit PROVE RecordInv /\ Array!Init
  OBVIOUS
<1> DEFINE z == [f \in FieldNames(Meant(kind)) |-> 0]
<1>1. /\ class \in {32, 64} /\ kind \in Kinds /\ data = [i \in 1..Records |-> z] /\ ~ result.ok
  BY DEF RecordInit, NoCall
<1>2. Held(Meant(kind), z)
  <2>1. 0 \in 0..Word - 1
    BY WordPositive
  <2> QED BY <2>1 DEF Held
<1> HIDE DEF z
<1>3. data \in Seq({data[i] : i \in DOMAIN data})
  BY <1>1, RecordsAssumption
<1> QED BY <1>1, <1>2, <1>3 DEF RecordInv, Array!Init

----------------------------------------------------------------------------
(* Theorems. *)

LEMMA RecordStep == RecordInv /\ [RecordNext]_recordVars => RecordInv' /\ [Array!Next]_(Array!vars)
<1> SUFFICES ASSUME RecordInv, [RecordNext]_recordVars PROVE RecordInv' /\ [Array!Next]_(Array!vars)
  OBVIOUS
<1>1. CASE RecordNext
  BY <1>1, CallStep
<1>2. CASE UNCHANGED recordVars
  <2>1. UNCHANGED <<class, kind, data>> /\ result' = result
    BY <1>2 DEF recordVars
  <2> QED BY <2>1, SameRecords, SameTable DEF Array!vars
<1> QED BY <1>1, <1>2

\* The invariant behind the other theorems: the records in memory have the fields of
\* the section's type, whose values a narrow record can hold.
THEOREM RecordsInvariant == RecordSpec => []RecordInv
<1> QED BY RecordInitially, RecordStep, PTL DEF RecordSpec

\* Records keep their fields, and a narrow field never gets more than it holds
\* (the LIBELF_COPY macros of gelf.h and their range checks).
THEOREM RecordsTyped == RecordSpec => []RecordTypeOK
<1>1. RecordInv => RecordTypeOK
  BY DEF RecordInv, RecordTypeOK, Held
<1> QED BY <1>1, RecordsInvariant, PTL

\* The functions gelf_get* and gelf_update_* on any table, 32 or 64 bit wide,
\* implement an array of class-independent records: what was stored is what is read,
\* and a call changes no record but its own.
THEOREM RecordsImplementArray == RecordSpec => ImplementsArray
<1> QED BY RecordInitially, RecordStep, RecordsInvariant, PTL DEF RecordSpec, ImplementsArray, Array!Spec

----------------------------------------------------------------------------
(* Tables of strings. *)

(***************************************************************************)
(* Strings in a pool, whatever the pool.  EndIn says that the string at p  *)
(* ends at q.                                                              *)
(***************************************************************************)
EndIn(pl, p, q) ==
    /\ q \in p..Len(pl)
    /\ q = Len(pl) \/ pl[q + 1] = 0
    /\ \A k \in p..q - 1 : pl[k + 1] # 0

TextIn(pl, p) == SubSeq(pl, p + 1, CHOOSE q \in p..Len(pl) : /\ q = Len(pl) \/ pl[q + 1] = 0
                                                             /\ \A k \in p..q - 1 : pl[k + 1] # 0)

StartsIn(pl, from, to) == {p \in from..to - 1 : pl[p] = 0}

\* Every nonempty set of natural numbers has a least element.
LEMMA Least ==
    ASSUME NEW T \in SUBSET Nat, T # {}
    PROVE  \E m \in T : \A k \in T : m <= k
<1> DEFINE R == OpToRel(<, Nat)
<1>1. IsWellFoundedOn(R, Nat)
  BY NatLessThanWellFounded
<1>2. PICK m \in T : \A k \in T : ~ (<<k, m>> \in R)
  <2> HIDE DEF R
  <2> QED BY <1>1, WFMin
<1>3. \A k \in T : ~ (k < m)
  BY <1>2 DEF OpToRel
<1> QED BY <1>3

\* A string ends in one place.
LEMMA EndUnique ==
    ASSUME NEW pl \in Seq(Nat), NEW p \in Nat, NEW q \in Nat, NEW r \in Nat, EndIn(pl, p, q), EndIn(pl, p, r)
    PROVE  q = r
<1>1. Len(pl) \in Nat /\ q \in Nat /\ r \in Nat /\ p <= q /\ p <= r /\ q <= Len(pl) /\ r <= Len(pl)
  BY DEF EndIn
<1>2. ~ (q < r)
  BY <1>1 DEF EndIn
<1>3. ~ (r < q)
  BY <1>1 DEF EndIn
<1> QED BY <1>1, <1>2, <1>3

\* The text of a string whose end is known.
LEMMA TextOf ==
    ASSUME NEW pl \in Seq(Nat), NEW p \in Nat, NEW q \in Nat, EndIn(pl, p, q)
    PROVE  /\ TextIn(pl, p) = SubSeq(pl, p + 1, q)
           /\ q \in Nat /\ p <= q /\ q <= Len(pl)
           /\ TextIn(pl, p) \in Seq(Nat) /\ Len(TextIn(pl, p)) = q - p
           /\ \A k \in 1..q - p : TextIn(pl, p)[k] = pl[p + k]
<1> DEFINE e == CHOOSE x \in p..Len(pl) : /\ x = Len(pl) \/ pl[x + 1] = 0
                                          /\ \A k \in p..x - 1 : pl[k + 1] # 0
<1>1. \E x \in p..Len(pl) : (x = Len(pl) \/ pl[x + 1] = 0) /\ \A k \in p..x - 1 : pl[k + 1] # 0
  BY DEF EndIn
<1>2. EndIn(pl, p, e)
  BY <1>1 DEF EndIn
<1>3. e = q
  <2>1. e \in Nat
    BY <1>2 DEF EndIn
  <2> HIDE DEF e
  <2> QED BY <2>1, <1>2, EndUnique
<1>4. TextIn(pl, p) = SubSeq(pl, p + 1, q)
  BY <1>3 DEF TextIn
<1>5. Len(pl) \in Nat /\ q \in Nat /\ p <= q /\ q <= Len(pl)
  BY DEF EndIn
<1>6. \A k \in p + 1..q : pl[k] \in Nat
  BY <1>5
<1> QED BY <1>4, <1>5, <1>6

\* A string before a NUL ends before it.
LEMMA EndExists ==
    ASSUME NEW pl \in Seq(Nat), NEW p \in Nat, NEW n \in 1..Len(pl), p < n, pl[n] = 0
    PROVE  \E q \in p..n - 1 : EndIn(pl, p, q) /\ pl[q + 1] = 0
<1> DEFINE Nul == {q \in Nat : p <= q /\ q < n /\ pl[q + 1] = 0}
<1>1. n - 1 \in Nul
  OBVIOUS
<1>2. PICK q \in Nul : \A k \in Nul : q <= k
  <2>1. Nul \in SUBSET Nat
    OBVIOUS
  <2> HIDE DEF Nul
  <2> QED BY <1>1, <2>1, Least
<1>3. q \in Nat /\ p <= q /\ q < n /\ pl[q + 1] = 0 /\ n \in Nat /\ n <= Len(pl) /\ Len(pl) \in Nat
  OBVIOUS
<1>4. ASSUME NEW k \in p..q - 1, pl[k + 1] = 0 PROVE FALSE
  <2>1. k \in Nul
    BY <1>3, <1>4
  <2> HIDE DEF Nul
  <2> QED BY <2>1, <1>2, <1>3, <1>4
<1>5. q \in p..Len(pl) /\ q \in p..n - 1
  BY <1>3
<1> HIDE DEF Nul
<1> QED BY <1>3, <1>4, <1>5 DEF EndIn

\* The same bytes up to the NUL are the same string, wherever they are.
SameBytes(pl, p, q, pm, r, u) ==
    /\ pl \in Seq(Nat) /\ p \in Nat /\ q \in Nat /\ EndIn(pl, p, q) /\ q < Len(pl) /\ pl[q + 1] = 0
    /\ pm \in Seq(Nat) /\ r \in Nat /\ u \in Nat /\ u - r = q - p /\ u < Len(pm)
    /\ \A k \in 0..q - p : pm[r + k + 1] = pl[p + k + 1]

LEMMA SameText ==
    ASSUME NEW pl, NEW p, NEW q, NEW pm, NEW r, NEW u, SameBytes(pl, p, q, pm, r, u)
    PROVE  TextIn(pm, r) = TextIn(pl, p) /\ pm[u + 1] = 0
<1>0. /\ pl \in Seq(Nat) /\ p \in Nat /\ q \in Nat /\ EndIn(pl, p, q) /\ q < Len(pl) /\ pl[q + 1] = 0
      /\ pm \in Seq(Nat) /\ r \in Nat /\ u \in Nat /\ u - r = q - p /\ u < Len(pm)
      /\ \A k \in 0..q - p : pm[r + k + 1] = pl[p + k + 1]
  BY DEF SameBytes
<1>1. p <= q /\ r <= u /\ Len(pl) \in Nat /\ Len(pm) \in Nat
  BY <1>0 DEF EndIn
<1>2. pm[u + 1] = 0
  <2>1. q - p \in 0..q - p /\ p + (q - p) + 1 = q + 1 /\ r + (q - p) + 1 = u + 1
    BY <1>0, <1>1
  <2>2. pm[r + (q - p) + 1] = pl[p + (q - p) + 1]
    BY <1>0, <2>1
  <2> QED BY <1>0, <2>1, <2>2
<1>3. ASSUME NEW k \in r..u - 1 PROVE pm[k + 1] # 0
  <2> DEFINE j == k - r
  <2>1. j \in 0..q - p /\ p + j \in p..q - 1 /\ r + j = k
    BY <1>0, <1>1, <1>3
  <2>2. pl[p + j + 1] # 0
    BY <1>0, <2>1 DEF EndIn
  <2>3. pm[r + j + 1] = pl[p + j + 1]
    BY <1>0, <2>1
  <2> HIDE DEF j
  <2> QED BY <2>1, <2>2, <2>3
<1>4. EndIn(pm, r, u)
  BY <1>0, <1>1, <1>2, <1>3 DEF EndIn
<1>5. /\ TextIn(pl, p) \in Seq(Nat) /\ Len(TextIn(pl, p)) = q - p
      /\ \A k \in 1..q - p : TextIn(pl, p)[k] = pl[p + k]
  BY <1>0, TextOf
<1>6. /\ TextIn(pm, r) \in Seq(Nat) /\ Len(TextIn(pm, r)) = u - r
      /\ \A k \in 1..u - r : TextIn(pm, r)[k] = pm[r + k]
  BY <1>0, <1>4, TextOf
<1>7. \A k \in 1..q - p : pm[r + k] = pl[p + k]
  <2>1. \A k \in 1..q - p : k - 1 \in 0..q - p /\ r + (k - 1) + 1 = r + k /\ p + (k - 1) + 1 = p + k
    BY <1>0, <1>1
  <2> QED BY <1>0, <2>1
<1>8. TextIn(pm, r) = TextIn(pl, p)
  <2>1. \A k \in 1..q - p : TextIn(pm, r)[k] = TextIn(pl, p)[k]
    BY <1>0, <1>5, <1>6, <1>7
  <2> QED BY <1>0, <2>1, <1>5, <1>6, SeqEqual
<1> QED BY <1>2, <1>8

\* A change behind the NUL of a string does not change it.
LEMMA KeptText ==
    ASSUME NEW pl \in Seq(Nat), NEW pm \in Seq(Nat), NEW p \in Nat, NEW n \in 1..Len(pl),
           n <= Len(pm), p < n, pl[n] = 0, \A k \in p + 1..n : pm[k] = pl[k]
    PROVE  TextIn(pm, p) = TextIn(pl, p)
<1>1. PICK q \in p..n - 1 : EndIn(pl, p, q) /\ pl[q + 1] = 0
  BY EndExists
<1>2. q \in Nat /\ p <= q /\ q < n /\ n <= Len(pl) /\ Len(pl) \in Nat /\ Len(pm) \in Nat /\ n \in Nat
  OBVIOUS
<1>3. q < Len(pl) /\ q < Len(pm) /\ q - p = q - p
  BY <1>2
<1>4. ASSUME NEW k \in 0..q - p PROVE pm[p + k + 1] = pl[p + k + 1]
  <2>1. p + k + 1 \in p + 1..n
    BY <1>2
  <2> QED BY <2>1
<1>5. SameBytes(pl, p, q, pm, p, q)
  BY <1>1, <1>2, <1>3, <1>4 DEF SameBytes
<1> QED BY <1>5, SameText

\* What the compaction passes in one step.
LEMMA Passed ==
    ASSUME NEW pl \in Seq(Nat), NEW n \in 1..Len(pl), NEW s \in Nat \ {0}, s < n, pl[s] = 0, pl[n] = 0,
           NEW L, L = Len(TextIn(pl, s)) + 1
    PROVE  /\ L \in Nat \ {0} /\ s + L <= n /\ pl[s + L] = 0 /\ EndIn(pl, s, s + L - 1)
           /\ \A k \in s + 1..s + L - 1 : pl[k] # 0
           /\ StartsIn(pl, s, n) = {s} \cup StartsIn(pl, s + L, n)
<1>1. PICK q \in s..n - 1 : EndIn(pl, s, q) /\ pl[q + 1] = 0
  BY EndExists
<1>2. q \in Nat /\ s <= q /\ q < n /\ n \in Nat
  OBVIOUS
<1>3. L = q - s + 1
  BY <1>1, <1>2, TextOf
<1>4. L \in Nat \ {0} /\ s + L = q + 1 /\ s + L - 1 = q
  <2>1. q - s + 1 \in Nat \ {0} /\ s + (q - s + 1) = q + 1 /\ s + (q - s + 1) - 1 = q
    BY <1>2
  <2> QED BY <1>3, <2>1
<1>5. ASSUME NEW k \in s + 1..q PROVE pl[k] # 0
  <2>1. k - 1 \in s..q - 1 /\ (k - 1) + 1 = k
    BY <1>2
  <2>2. pl[(k - 1) + 1] # 0
    BY <1>1, <2>1 DEF EndIn
  <2> QED BY <2>1, <2>2
<1>6. \A p : p \in s..n - 1 <=> p = s \/ p \in s + 1..q \/ p \in q + 1..n - 1
  BY <1>2
<1>7. s \notin q + 1..n - 1
  BY <1>2
<1>8. StartsIn(pl, s, n) = {s} \cup StartsIn(pl, q + 1, n)
  BY <1>5, <1>6 DEF StartsIn
<1> QED BY <1>1, <1>2, <1>4, <1>5, <1>8

(***************************************************************************)
(* Entries, whatever they are.                                             *)
(***************************************************************************)
FindIn(pl, en, str) == {i \in en : TextIn(pl, Abs(i)) = str}
LookupIn(pl, en, str) ==
    IF \E i \in FindIn(pl, en, str) : i > 0 THEN CHOOSE i \in FindIn(pl, en, str) : i > 0 ELSE 0

\* One entry for each start in st, and no string twice.
Entered(pl, en, st) ==
    /\ en \subseteq Int \ {0} /\ {Abs(i) : i \in en} = st
    /\ \A i, j \in en : i # j => TextIn(pl, Abs(i)) # TextIn(pl, Abs(j))

\* What elftc_string_table_lookup returns.
LEMMA LookupIs ==
    ASSUME NEW pl, NEW en, NEW st, Entered(pl, en, st), NEW str
    PROVE  /\ LookupIn(pl, en, str) # 0 =>
                /\ LookupIn(pl, en, str) \in en /\ LookupIn(pl, en, str) > 0
                /\ TextIn(pl, LookupIn(pl, en, str)) = str
           /\ \A i \in en : i > 0 /\ TextIn(pl, i) = str => LookupIn(pl, en, str) = i
           /\ (\A i \in en : i > 0 => TextIn(pl, i) # str) => LookupIn(pl, en, str) = 0
<1>1. \A i \in en : i \in Int /\ i # 0 /\ (i > 0 => Abs(i) = i)
  BY DEF Entered, Abs
<1>2. \A i, j \in en : TextIn(pl, Abs(i)) = TextIn(pl, Abs(j)) => i = j
  BY DEF Entered
<1>3. CASE \E i \in FindIn(pl, en, str) : i > 0
  <2> DEFINE c == CHOOSE i \in FindIn(pl, en, str) : i > 0
  <2>1. c \in FindIn(pl, en, str) /\ c > 0 /\ LookupIn(pl, en, str) = c
    BY <1>3 DEF LookupIn
  <2> HIDE DEF c
  <2>2. c \in en /\ TextIn(pl, c) = str /\ c # 0
    BY <2>1, <1>1 DEF FindIn
  <2>3. \A i \in en : i > 0 /\ TextIn(pl, i) = str => i = c
    BY <2>1, <2>2, <1>1, <1>2
  <2> QED BY <2>1, <2>2, <2>3
<1>4. CASE ~ \E i \in FindIn(pl, en, str) : i > 0
  <2>1. LookupIn(pl, en, str) = 0
    BY <1>4 DEF LookupIn
  <2>2. \A i \in en : i > 0 => TextIn(pl, i) # str
    BY <1>1, <1>4 DEF FindIn
  <2> QED BY <2>1, <2>2
<1> QED BY <1>3, <1>4

\* Two tables with the same strings at the same offsets: lookup is the same.
LEMMA SameLookup ==
    ASSUME NEW pl, NEW en, NEW st, Entered(pl, en, st),
           NEW pm, NEW em, NEW sm, Entered(pm, em, sm), NEW str,
           \A i \in Int : /\ i \in en /\ i > 0 /\ TextIn(pl, i) = str => i \in em /\ TextIn(pm, i) = str
                          /\ i \in em /\ i > 0 /\ TextIn(pm, i) = str => i \in en /\ TextIn(pl, i) = str
    PROVE  LookupIn(pm, em, str) = LookupIn(pl, en, str)
<1>1. en \subseteq Int /\ em \subseteq Int
  BY DEF Entered
<1>2. CASE \E i \in en : i > 0 /\ TextIn(pl, i) = str
  BY <1>1, <1>2, LookupIs
<1>3. CASE ~ \E i \in en : i > 0 /\ TextIn(pl, i) = str
  <2>1. LookupIn(pl, en, str) = 0
    BY <1>3, LookupIs
  <2>2. \A i \in em : i > 0 => TextIn(pm, i) # str
    BY <1>1, <1>3
  <2>3. LookupIn(pm, em, str) = 0
    BY <2>2, LookupIs
  <2> QED BY <2>1, <2>3
<1> QED BY <1>2, <1>3

\* The entry i of the pool pl is replaced by j, whose string in the pool pm is the same:
\* inserted again, removed, or moved.
MayReplace(pl, en, pm, em, st, i, j) ==
    /\ Entered(pl, en, st) /\ i \in en /\ j \in Int \ {0} /\ em = (en \ {i}) \cup {j}
    /\ TextIn(pm, Abs(j)) = TextIn(pl, Abs(i))
    /\ \A k \in en \ {i} : TextIn(pm, Abs(k)) = TextIn(pl, Abs(k))

Replaced(pl, en, pm, em, st, i, j) ==
    /\ Entered(pm, em, (st \ {Abs(i)}) \cup {Abs(j)})
    /\ \A t : t # TextIn(pl, Abs(i)) => LookupIn(pm, em, t) = LookupIn(pl, en, t)
    /\ LookupIn(pm, em, TextIn(pl, Abs(i))) = IF j > 0 THEN j ELSE 0
    /\ LookupIn(pl, en, TextIn(pl, Abs(i))) = IF i > 0 THEN i ELSE 0

LEMMA Renamed ==
    ASSUME NEW pl, NEW en, NEW st, Entered(pl, en, st), NEW i \in en,
           NEW pm, NEW j \in Int \ {0}, TextIn(pm, Abs(j)) = TextIn(pl, Abs(i)),
           \A k \in en \ {i} : TextIn(pm, Abs(k)) = TextIn(pl, Abs(k)),
           NEW em, em = (en \ {i}) \cup {j}
    PROVE  Replaced(pl, en, pm, em, st, i, j)
<1> DEFINE text == TextIn(pl, Abs(i))
           sm == (st \ {Abs(i)}) \cup {Abs(j)}
<1>1. /\ en \subseteq Int \ {0} /\ {Abs(k) : k \in en} = st
      /\ \A k, l \in en : TextIn(pl, Abs(k)) = TextIn(pl, Abs(l)) => k = l
  BY DEF Entered
<1>2. \A k \in Int : k > 0 => Abs(k) = k
  BY DEF Abs
<1>3. em \subseteq Int \ {0} /\ i \in Int \ {0}
  BY <1>1
<1>4. \A k \in en \ {i} : Abs(k) # Abs(i) /\ TextIn(pl, Abs(k)) # text
  BY <1>1
<1>5. {Abs(k) : k \in em} = sm
  BY <1>1, <1>4
<1>6. ASSUME NEW k \in em, NEW l \in em, k # l PROVE TextIn(pm, Abs(k)) # TextIn(pm, Abs(l))
  BY <1>1, <1>4, <1>6
<1>7. Entered(pm, em, sm)
  BY <1>3, <1>5, <1>6 DEF Entered
<1>8. ASSUME NEW t, t # text PROVE LookupIn(pm, em, t) = LookupIn(pl, en, t)
  <2>1. ASSUME NEW k \in Int, k > 0 PROVE k \in en /\ TextIn(pl, k) = t <=> k \in em /\ TextIn(pm, k) = t
    BY <1>2, <1>8, <2>1
  <2> QED BY <2>1, <1>7, SameLookup
<1>9. LookupIn(pm, em, text) = IF j > 0 THEN j ELSE 0
  <2>1. CASE j > 0
    <3>1. j \in em /\ TextIn(pm, j) = text
      BY <1>2, <2>1
    <3> QED BY <2>1, <3>1, <1>7, LookupIs
  <2>2. CASE ~ j > 0
    <3>1. \A k \in em : k > 0 => TextIn(pm, k) # text
      BY <1>2, <1>3, <1>4, <2>2
    <3> QED BY <2>2, <3>1, <1>7, LookupIs
  <2> QED BY <2>1, <2>2
<1>10. LookupIn(pl, en, text) = IF i > 0 THEN i ELSE 0
  <2>1. CASE i > 0
    <3>1. TextIn(pl, i) = text
      BY <1>2, <1>3, <2>1
    <3> QED BY <2>1, <3>1, LookupIs
  <2>2. CASE ~ i > 0
    <3>1. \A k \in en : k > 0 => TextIn(pl, k) # text
      BY <1>1, <1>2, <1>4, <2>2
    <3> QED BY <2>2, <3>1, LookupIs
  <2> QED BY <2>1, <2>2
<1> QED BY <1>7, <1>8, <1>9, <1>10 DEF Replaced

LEMMA RenamedEntry ==
    ASSUME NEW pl, NEW en, NEW pm, NEW em, NEW st, NEW i, NEW j, MayReplace(pl, en, pm, em, st, i, j)
    PROVE  Replaced(pl, en, pm, em, st, i, j)
BY Renamed DEF MayReplace

\* The entry of a removed string is dropped.
LEMMA Dropped ==
    ASSUME NEW pl, NEW en, NEW st, Entered(pl, en, st), NEW i \in en, i < 0
    PROVE  /\ Entered(pl, en \ {i}, st \ {Abs(i)})
           /\ \A t : LookupIn(pl, en \ {i}, t) = LookupIn(pl, en, t)
<1> DEFINE em == en \ {i}
<1>1. /\ en \subseteq Int \ {0} /\ {Abs(k) : k \in en} = st
      /\ \A k, l \in en : TextIn(pl, Abs(k)) = TextIn(pl, Abs(l)) => k = l
  BY DEF Entered
<1>2. \A k \in em : Abs(k) # Abs(i)
  BY <1>1
<1>3. {Abs(k) : k \in em} = st \ {Abs(i)}
  BY <1>1, <1>2
<1>4. Entered(pl, em, st \ {Abs(i)})
  BY <1>1, <1>3 DEF Entered
<1>5. \A k \in Int : k > 0 => (k \in em <=> k \in en)
  BY <1>1
<1>6. ASSUME NEW t PROVE LookupIn(pl, em, t) = LookupIn(pl, en, t)
  <2> HIDE DEF em
  <2> QED BY <1>4, <1>5, SameLookup
<1> QED BY <1>4, <1>6

\* A string that is not there is added at n.
LEMMA Added ==
    ASSUME NEW pl, NEW en, NEW st, Entered(pl, en, st), NEW str, \A k \in en : TextIn(pl, Abs(k)) # str,
           NEW pm, NEW n \in Nat \ {0}, TextIn(pm, n) = str, n \notin st,
           \A k \in en : TextIn(pm, Abs(k)) = TextIn(pl, Abs(k))
    PROVE  /\ Entered(pm, en \cup {n}, st \cup {n})
           /\ \A t : t # str => LookupIn(pm, en \cup {n}, t) = LookupIn(pl, en, t)
           /\ LookupIn(pm, en \cup {n}, str) = n /\ LookupIn(pl, en, str) = 0
<1> DEFINE em == en \cup {n}
<1>1. /\ en \subseteq Int \ {0} /\ {Abs(k) : k \in en} = st
      /\ \A k, l \in en : TextIn(pl, Abs(k)) = TextIn(pl, Abs(l)) => k = l
  BY DEF Entered
<1>2. Abs(n) = n /\ n \in Int \ {0} /\ n > 0 /\ \A k \in Int : k > 0 => Abs(k) = k
  BY DEF Abs
<1>3. {Abs(k) : k \in em} = st \cup {n} /\ em \subseteq Int \ {0}
  BY <1>1, <1>2
<1>4. ASSUME NEW k \in em, NEW l \in em, k # l PROVE TextIn(pm, Abs(k)) # TextIn(pm, Abs(l))
  BY <1>1, <1>2, <1>4
<1>5. Entered(pm, em, st \cup {n})
  BY <1>3, <1>4 DEF Entered
<1>6. ASSUME NEW t, t # str PROVE LookupIn(pm, em, t) = LookupIn(pl, en, t)
  <2>1. ASSUME NEW k \in Int, k > 0 PROVE k \in en /\ TextIn(pl, k) = t <=> k \in em /\ TextIn(pm, k) = t
    BY <1>2, <1>6, <2>1
  <2> QED BY <2>1, <1>5, SameLookup
<1>7. LookupIn(pm, em, str) = n
  <2>1. n \in em
    OBVIOUS
  <2> HIDE DEF em
  <2> QED BY <2>1, <1>2, <1>5, LookupIs
<1>8. LookupIn(pl, en, str) = 0
  <2>1. \A k \in en : k > 0 => TextIn(pl, k) # str
    BY <1>1, <1>2
  <2> QED BY <2>1, LookupIs
<1> QED BY <1>5, <1>6, <1>7, <1>8

(***************************************************************************)
(* The pool after an insertion and after a move.                           *)
(***************************************************************************)
\* pm is the pool pl with str put behind its n bytes in use.
InsertedAt(pl, n, str, pm) ==
    /\ pm \in Seq(Nat) /\ Len(pm) = n + Len(str) + 1
    /\ \A k \in 1..n : pm[k] = pl[k]
    /\ \A k \in 1..Len(str) : pm[n + k] = str[k] /\ str[k] \in Nat \ {0}
    /\ pm[n + Len(str) + 1] = 0

\* pm is the pool pl after the memmove of L bytes from s to r.
MovedTo(pl, s, L, r, pm) ==
    /\ pm \in Seq(Nat) /\ Len(pm) = Len(pl)
    /\ \A k \in 1..Len(pl) :
          /\ k \in r + 1..r + L => pm[k] = pl[k - r + s]
          /\ k \notin r + 1..r + L => pm[k] = pl[k]

\* The bytes of the pool after an insertion.
LEMMA InsertBytes ==
    ASSUME NEW pl \in Seq(Nat), NEW n \in 1..Len(pl), NEW str \in Seq(Nat \ {0})
    PROVE  LET pm == SubSeq(pl, 1, n) \o str \o <<0>>
           IN  InsertedAt(pl, n, str, pm)
<1> DEFINE l == Len(str)
           head == SubSeq(pl, 1, n)
           pm == head \o str \o <<0>>
<1>1. n \in Nat /\ n >= 1 /\ n <= Len(pl) /\ Len(pl) \in Nat /\ l \in Nat
  OBVIOUS
<1>2. head \in Seq(Nat) /\ Len(head) = n /\ \A k \in 1..n : head[k] = pl[k]
  BY <1>1
<1>3. str \in Seq(Nat) /\ \A k \in 1..l : str[k] \in Nat \ {0}
  OBVIOUS
<1> DEFINE mid == head \o str
<1>4. mid \in Seq(Nat) /\ Len(mid) = n + l /\ \A k \in 1..n + l : mid[k] = IF k <= n THEN head[k] ELSE str[k - n]
  <2>1. str \in Seq(Nat) /\ Len(str) = l
    BY <1>3
  <2> HIDE DEF head, l
  <2> QED BY <1>2, <2>1, ConcatProperties
<1>5. \A k \in 1..n : mid[k] = pl[k]
  <2>1. \A k \in 1..n : k \in 1..n + l /\ k <= n
    BY <1>1
  <2> HIDE DEF mid, head
  <2> QED BY <1>2, <1>4, <2>1
<1>6. ASSUME NEW k \in 1..l PROVE mid[n + k] = str[k]
  <2> DEFINE j == n + k
  <2>1. j \in 1..n + l /\ ~ (j <= n) /\ j - n = k
    BY <1>1
  <2>2. mid[j] = str[j - n]
    <3> HIDE DEF mid, head, j
    <3> QED BY <1>4, <2>1
  <2> QED BY <2>1, <2>2
<1> HIDE DEF mid
<1>7. pm = mid \o <<0>>
  BY DEF mid
<1>8. /\ pm \in Seq(Nat) /\ Len(pm) = n + l + 1 /\ pm[n + l + 1] = 0
      /\ \A k \in 1..n + l : pm[k] = mid[k]
  <2> HIDE DEF pm, l, head
  <2> QED BY <1>1, <1>4, <1>7
<1> HIDE DEF pm
<1>9. \A k \in 1..n : pm[k] = pl[k]
  <2>1. \A k \in 1..n : k \in 1..n + l
    BY <1>1
  <2> QED BY <1>5, <1>8, <2>1
<1>10. \A k \in 1..l : pm[n + k] = str[k]
  <2>1. \A k \in 1..l : n + k \in 1..n + l
    BY <1>1
  <2> QED BY <1>6, <1>8, <2>1
<1> QED BY <1>3, <1>8, <1>9, <1>10 DEF InsertedAt, pm

\* The new string is behind the others, which are as they were.
LEMMA InsertPool ==
    ASSUME NEW pl \in Seq(Nat), NEW n \in 1..Len(pl), pl[n] = 0, NEW str \in Seq(Nat \ {0}),
           NEW pm
    PROVE  InsertedAt(pl, n, str, pm) =>
           /\ TextIn(pm, n) = str
           /\ \A p \in 1..n - 1 : TextIn(pm, p) = TextIn(pl, p)
           /\ StartsIn(pm, 1, n + Len(str) + 1) = StartsIn(pl, 1, n) \cup {n}
<1> DEFINE m == n + Len(str)
<1>0. SUFFICES ASSUME InsertedAt(pl, n, str, pm)
               PROVE  /\ TextIn(pm, n) = str
                      /\ \A p \in 1..n - 1 : TextIn(pm, p) = TextIn(pl, p)
                      /\ StartsIn(pm, 1, m + 1) = StartsIn(pl, 1, n) \cup {n}
  OBVIOUS
<1>1. n \in Nat /\ n >= 1 /\ n <= Len(pl) /\ Len(pl) \in Nat /\ Len(str) \in Nat /\ m >= n /\ m - n = Len(str)
      /\ m \in Nat /\ m = n + Len(str)
  OBVIOUS
<1>6. pm \in Seq(Nat) /\ Len(pm) = m + 1 /\ pm[m + 1] = 0 /\ \A k \in 1..n : pm[k] = pl[k]
  BY <1>0 DEF InsertedAt
<1>2. ASSUME NEW k \in n + 1..m PROVE pm[k] # 0
  <2> DEFINE j == k - n
  <2>1. j \in 1..Len(str) /\ n + j = k
    BY <1>1
  <2>2. pm[n + j] # 0
    BY <1>0, <2>1 DEF InsertedAt
  <2> HIDE DEF j
  <2> QED BY <2>1, <2>2
<1>3. TextIn(pm, n) = str
  <2>1. EndIn(pm, n, m)
    <3>1. \A k \in n..m - 1 : k + 1 \in n + 1..m
      BY <1>1
    <3>2. \A k \in n..m - 1 : pm[k + 1] # 0
      BY <3>1, <1>2
    <3>3. m \in n..Len(pm)
      BY <1>1, <1>6
    <3> QED BY <3>2, <3>3, <1>6 DEF EndIn
  <2>2. /\ TextIn(pm, n) \in Seq(Nat) /\ Len(TextIn(pm, n)) = m - n
        /\ \A k \in 1..m - n : TextIn(pm, n)[k] = pm[n + k]
    BY <1>1, <1>6, <2>1, TextOf, ZenonT(60)
  <2>3. \A k \in 1..Len(str) : TextIn(pm, n)[k] = str[k]
    BY <1>0, <1>1, <2>2 DEF InsertedAt
  <2>4. str \in Seq(Nat)
    OBVIOUS
  <2> QED BY <1>1, <2>2, <2>3, <2>4, SeqEqual
<1>4. ASSUME NEW p \in 1..n - 1 PROVE TextIn(pm, p) = TextIn(pl, p)
  <2>1. p \in Nat /\ p < n /\ n <= Len(pm) /\ \A k \in p + 1..n : k \in 1..n
    BY <1>1, <1>6
  <2>2. \A k \in p + 1..n : pm[k] = pl[k]
    BY <1>6, <2>1
  <2> QED BY <1>6, <2>1, <2>2, KeptText
<1>5. StartsIn(pm, 1, m + 1) = StartsIn(pl, 1, n) \cup {n}
  <2>1. StartsIn(pm, 1, m + 1) = {p \in 1..m : pm[p] = 0}
    <3>1. m + 1 - 1 = m
      BY <1>1
    <3> QED BY <3>1 DEF StartsIn
  <2>2. \A p : p \in 1..m <=> p \in 1..n - 1 \/ p = n \/ p \in n + 1..m
    BY <1>1
  <2>3. \A p \in 1..n - 1 : p \in 1..n
    BY <1>1
  <2>4. n \in 1..n /\ pm[n] = 0
    BY <1>6, <1>1
  <2> QED BY <1>6, <1>2, <2>1, <2>2, <2>3, <2>4 DEF StartsIn
<1> QED BY <1>3, <1>4, <1>5

\* The bytes of the pool after a move.
LEMMA MoveBytes ==
    ASSUME NEW pl \in Seq(Nat), NEW r \in Nat \ {0}, NEW s \in Nat \ {0}, r <= s,
           NEW L \in Nat \ {0}, s + L <= Len(pl)
    PROVE  LET pm == [k \in DOMAIN pl |-> IF k - 1 \in r..r + L - 1 THEN pl[k - r + s] ELSE pl[k]]
           IN  MovedTo(pl, s, L, r, pm)
<1> DEFINE pm == [k \in DOMAIN pl |-> IF k - 1 \in r..r + L - 1 THEN pl[k - r + s] ELSE pl[k]]
           n == Len(pl)
<1>1. n \in Nat /\ DOMAIN pl = 1..n /\ \A k \in 1..n : pl[k] \in Nat
  OBVIOUS
<1>2. \A k \in 1..n : k - 1 \in r..r + L - 1 <=> k \in r + 1..r + L
  BY <1>1
<1>3. \A k \in 1..n : /\ k \in r + 1..r + L => pm[k] = pl[k - r + s]
                      /\ k \notin r + 1..r + L => pm[k] = pl[k]
  BY <1>1, <1>2
<1>4. \A k \in 1..n : k \in r + 1..r + L => k - r + s \in 1..n
  BY <1>1
<1>5. pm = [k \in 1..n |-> pm[k]]
  BY <1>1
<1> HIDE DEF pm
<1>6. \A k \in 1..n : pm[k] \in Nat
  BY <1>1, <1>3, <1>4
<1> HIDE DEF n
<1>7. pm \in Seq(Nat) /\ Len(pm) = n
  BY <1>1, <1>5, <1>6, SMTT(60)
<1> QED BY <1>3, <1>7 DEF pm, n, MovedTo

\* What has to be so of the pool pl before the string of L bytes at s moves to r, where
\* n is the end of the bytes in use, and what is so of the pool pm after the move.
MayMove(pl, n, s, r, L) ==
    /\ pl \in Seq(Nat) /\ n \in 1..Len(pl) /\ pl[n] = 0
    /\ s \in Nat \ {0} /\ s < n /\ pl[s] = 0 /\ r \in Nat \ {0} /\ r <= s /\ pl[r] = 0
    /\ L = Len(TextIn(pl, s)) + 1

OthersKept(pl, n, s, r, L, pm) ==
    /\ pm[1] = pl[1] /\ pm[n] = 0 /\ pm[r + L] = 0 /\ pm[s + L] = 0
    /\ TextIn(pm, r) = TextIn(pl, s)
    /\ \A p \in StartsIn(pl, 1, r) \cup StartsIn(pl, s + L, n) : TextIn(pm, p) = TextIn(pl, p)
    /\ StartsIn(pm, 1, r + L) = StartsIn(pl, 1, r) \cup {r}
    /\ StartsIn(pm, s + L, n) = StartsIn(pl, s + L, n)

\* A string moved up over strings that were dropped is the same string, and no
\* other that is still needed is touched.
LEMMA MoveOfTyped ==
    ASSUME NEW pl \in Seq(Nat), NEW n \in 1..Len(pl), pl[n] = 0, NEW s \in Nat \ {0}, s < n, pl[s] = 0,
           NEW r \in Nat \ {0}, r <= s, pl[r] = 0,
           NEW L, L = Len(TextIn(pl, s)) + 1, NEW pm
    PROVE  MovedTo(pl, s, L, r, pm) => OthersKept(pl, n, s, r, L, pm)
<1>0. SUFFICES ASSUME MovedTo(pl, s, L, r, pm) PROVE OthersKept(pl, n, s, r, L, pm)
  OBVIOUS
<1>1. /\ L \in Nat \ {0} /\ s + L <= n /\ pl[s + L] = 0 /\ EndIn(pl, s, s + L - 1)
      /\ \A k \in s + 1..s + L - 1 : pl[k] # 0
  BY Passed
<1>2. n \in Nat /\ n <= Len(pl) /\ Len(pl) \in Nat /\ r \in Nat /\ s \in Nat /\ L \in Nat
  BY <1>1
<1>4. /\ n \in Nat /\ r \in Nat /\ s \in Nat /\ L \in Nat /\ Len(pl) \in Nat
       /\ 1 <= L /\ 1 <= r /\ r <= s /\ s + L <= n /\ n <= Len(pl)
  BY <1>1, <1>2
<1>3. \A k \in 1..Len(pl) :
         /\ k \in r + 1..r + L => pm[k] = pl[k - r + s]
         /\ k \notin r + 1..r + L => pm[k] = pl[k]
  BY <1>0 DEF MovedTo
<1>5. pm \in Seq(Nat) /\ Len(pm) = Len(pl)
  BY <1>0 DEF MovedTo
\* Up to r and from s + L on nothing changes.
<1>6. \A k \in 1..r : pm[k] = pl[k]
  <2>1. \A k \in 1..r : k \in 1..Len(pl) /\ k \notin r + 1..r + L
    BY <1>1, <1>2
  <2> QED BY <1>3, <2>1
<1>7. \A k \in s + L..Len(pl) : pm[k] = pl[k]
  <2>1. CASE r = s
    <3>1. \A k \in 1..Len(pl) : k - r + s = k
      BY <1>2, <2>1
    <3>2. \A k \in s + L..Len(pl) : k \in 1..Len(pl)
      BY <1>1, <1>2
    <3> QED BY <1>3, <3>1, <3>2
  <2>2. CASE r # s
    <3>1. \A k \in s + L..Len(pl) : k \in 1..Len(pl) /\ k \notin r + 1..r + L
      BY <1>1, <1>2, <2>2
    <3> QED BY <1>3, <3>1
  <2> QED BY <2>1, <2>2
<1>8. \A k \in 0..L - 1 : pm[r + k + 1] = pl[s + k + 1]
  <2>1. \A k \in 0..L - 1 : /\ r + k + 1 \in 1..Len(pl) /\ r + k + 1 \in r + 1..r + L
                            /\ (r + k + 1) - r + s = s + k + 1
    BY <1>1, <1>2, SMTT(60)
  <2> QED BY <1>3, <2>1
<1>9. pm[1] = pl[1] /\ pm[n] = 0 /\ pm[s + L] = 0
  <2>1. 1 \in 1..r /\ n \in s + L..Len(pl) /\ s + L \in s + L..Len(pl)
    BY <1>1, <1>2
  <2> QED BY <1>1, <1>6, <1>7, <2>1
<1>10. TextIn(pm, r) = TextIn(pl, s) /\ pm[r + L] = 0
  <2> DEFINE q == s + L - 1
             u == r + L - 1
  <2>0. /\ q \in Nat /\ u \in Nat /\ u - r = q - s /\ q < Len(pl) /\ u < Len(pl) /\ q + 1 = s + L /\ u + 1 = r + L
        /\ q - s = L - 1
    BY <1>4, SMTT(60)
  <2>1. /\ q \in Nat /\ u \in Nat /\ u - r = q - s /\ q < Len(pl) /\ u < Len(pm) /\ q + 1 = s + L /\ u + 1 = r + L
        /\ q - s = L - 1
    <3> HIDE DEF q, u
    <3> QED BY <2>0, <1>5
  <2>2. EndIn(pl, s, q) /\ pl[q + 1] = 0 /\ \A k \in 0..q - s : pm[r + k + 1] = pl[s + k + 1]
    BY <1>1, <1>8, <2>1
  <2> HIDE DEF q, u
  <2>4. SameBytes(pl, s, q, pm, r, u)
    BY <1>5, <1>4, <2>1, <2>2 DEF SameBytes
  <2>3. TextIn(pm, r) = TextIn(pl, s) /\ pm[u + 1] = 0
    BY <2>4, SameText
  <2> QED BY <2>1, <2>3
<1>11. ASSUME NEW p \in StartsIn(pl, 1, r) PROVE TextIn(pm, p) = TextIn(pl, p)
  <2>1. p \in Nat /\ p < r /\ r \in 1..Len(pl) /\ r <= Len(pm) /\ \A k \in p + 1..r : k \in 1..r
    BY <1>1, <1>2, <1>5, SMTT(60) DEF StartsIn
  <2>2. \A k \in p + 1..r : pm[k] = pl[k]
    BY <2>1, <1>6
  <2> QED BY <1>5, <2>1, <2>2, KeptText
<1>12. ASSUME NEW p \in StartsIn(pl, s + L, n) PROVE TextIn(pm, p) = TextIn(pl, p)
  <2>0. p \in s + L..n - 1 /\ n <= Len(pm)
    BY <1>2, <1>5 DEF StartsIn
  <2>1. p \in Nat /\ p < n /\ n <= Len(pm) /\ \A k \in p + 1..n : k \in s + L..Len(pl)
    BY <1>4, <2>0, SMTT(60)
  <2>2. \A k \in p + 1..n : pm[k] = pl[k]
    BY <2>1, <1>7
  <2> QED BY <1>5, <2>1, <2>2, KeptText
<1>13. StartsIn(pm, 1, r + L) = StartsIn(pl, 1, r) \cup {r}
  <2> DEFINE e == r + L - 1
  <2>0. StartsIn(pm, 1, r + L) = {p \in 1..e : pm[p] = 0}
    BY DEF StartsIn
  <2>1. \A p : p \in 1..e <=> p \in 1..r - 1 \/ p = r \/ p \in r + 1..e
    BY <1>1, <1>2, SMTT(60)
  <2>2. \A p \in 1..r - 1 : p \in 1..r
    BY <1>2
  <2>3. r \in 1..r
    BY <1>2
  <2>4. ASSUME NEW p \in r + 1..e PROVE pm[p] # 0
    <3>1. p \in Int /\ r + 1 <= p /\ p <= r + L - 1
      OBVIOUS
    <3>2. p \in 1..Len(pl) /\ p \in r + 1..r + L
      BY <1>4, <3>1, SMTT(60)
    <3>3. p - r + s \in s + 1..s + L - 1
      BY <1>4, <3>1
    <3> HIDE DEF e
    <3> QED BY <1>1, <1>3, <3>2, <3>3
  <2>5. pm[r] = 0
    BY <1>6, <2>3
  <2> HIDE DEF e
  <2> QED BY <1>6, <2>0, <2>1, <2>2, <2>4, <2>5 DEF StartsIn
<1>14. StartsIn(pm, s + L, n) = StartsIn(pl, s + L, n)
  <2>1. \A p \in s + L..n - 1 : p \in s + L..Len(pl)
    BY <1>1, <1>2
  <2> QED BY <1>7, <2>1 DEF StartsIn
<1> QED BY <1>5, <1>9, <1>10, <1>11, <1>12, <1>13, <1>14 DEF OthersKept

LEMMA MovePool ==
    ASSUME NEW pl, NEW n, NEW s, NEW r, NEW L, NEW pm,
           MayMove(pl, n, s, r, L), MovedTo(pl, s, L, r, pm)
    PROVE  OthersKept(pl, n, s, r, L, pm)
BY MoveOfTyped DEF MayMove

(***************************************************************************)
(* The table.                                                              *)
(***************************************************************************)
StartsOf(pl, ln, lp) ==
    IF lp = LoopDone THEN StartsIn(pl, 1, ln) ELSE StartsIn(pl, 1, lp.r) \cup StartsIn(pl, lp.s, ln)

\* The bounds of the compaction; the entries of removed strings are still to come.
LoopInv ==
    /\ flag /\ loop.newsize = loop.r /\ 1 <= loop.r /\ loop.r <= loop.s /\ loop.s <= len
    /\ pool[loop.r] = 0 /\ pool[loop.s] = 0
    /\ \A i \in entries : i < 0 => loop.s <= -i

\* The inductive invariant.
TableInv ==
    /\ PoolTypeOK /\ pool[1] = 0 /\ pool[len] = 0
    /\ Entered(pool, entries, StartsOf(pool, len, loop))
    /\ Ready \/ LoopInv
    /\ Ready /\ ~flag => \A i \in entries : i > 0

\* The definitions of StringTable are those above, of the pool and the entries.
LEMMA Bridge ==
    /\ \A p : Text(p) = TextIn(pool, p)
    /\ \A str : Find(str) = FindIn(pool, entries, str)
    /\ \A str : Lookup(str) = LookupIn(pool, entries, str)
    /\ \A from, to : Starts(from, to) = StartsIn(pool, from, to)
<1>1. \A p : Text(p) = TextIn(pool, p)
  BY DEF Text, TextIn
<1>2. \A str : Find(str) = FindIn(pool, entries, str)
  BY <1>1 DEF Find, FindIn
<1>3. \A str : Lookup(str) = LookupIn(pool, entries, str)
  BY <1>2 DEF Lookup, LookupIn
<1> QED BY <1>1, <1>2, <1>3 DEF Starts, StartsIn

\* Where strings start in a table.
LEMMA Live ==
    ASSUME TableInv, NEW i \in entries
    PROVE  /\ i \in Int \ {0} /\ Abs(i) \in Nat \ {0} /\ Abs(i) < len /\ pool[Abs(i)] = 0
           /\ Abs(i) \in StartsOf(pool, len, loop) /\ (i > 0 => Abs(i) = i)
<1>1. i \in Int \ {0} /\ Abs(i) \in StartsOf(pool, len, loop)
  BY DEF TableInv, Entered
<1>2. \A p \in StartsOf(pool, len, loop) : p \in Nat \ {0} /\ p < len /\ pool[p] = 0
  <2>1. len \in Nat
    BY DEF TableInv, PoolTypeOK
  <2>2. CASE loop = LoopDone
    BY <2>1, <2>2 DEF StartsOf, StartsIn
  <2>3. CASE loop # LoopDone
    <3>1. loop.r \in Nat /\ loop.s \in Nat /\ 1 <= loop.r /\ loop.r <= loop.s /\ loop.s <= len
      BY <2>3 DEF TableInv, PoolTypeOK, LoopInv, Ready
    <3> QED BY <2>1, <2>3, <3>1 DEF StartsOf, StartsIn
  <2> QED BY <2>2, <2>3
<1> QED BY <1>1, <1>2 DEF Abs

\* elftc_string_table_create.
LEMMA InitTable == PoolInit => TableInv
<1> SUFFICES ASSUME PoolInit PROVE TableInv
  OBVIOUS
<1>1. pool = <<0>> /\ len = 1 /\ entries = {} /\ loop = LoopDone /\ flag = FALSE /\ size \in Nat
  BY TableAssumption DEF PoolInit
<1>2. pool \in Seq(Nat) /\ Len(pool) = 1 /\ pool[1] = 0
  BY <1>1
<1>3. StartsOf(pool, len, loop) = {}
  BY <1>1 DEF StartsOf, StartsIn
<1>4. LoopDone \in [s : Nat, r : Nat, newsize : Nat]
  BY DEF LoopDone
<1>5. Entered(pool, entries, StartsOf(pool, len, loop))
  BY <1>1, <1>3 DEF Entered
<1>7. flag \in BOOLEAN
  BY <1>1, Zenon
<1>8. len \in 1..Len(pool) /\ entries \subseteq Int \ {0}
  BY <1>1, <1>2
<1>6. PoolTypeOK
  BY <1>1, <1>2, <1>4, <1>7, <1>8, Zenon DEF PoolTypeOK
<1> QED BY <1>1, <1>2, <1>5, <1>6 DEF TableInv, Ready

\* The size of the pool stays a number.
LEMMA GrownType == ASSUME NEW n \in Nat, size \in Nat, len \in Nat PROVE Grown(n) \in Nat
<1> DEFINE x == size + Increment + Increment - 1
<1>1. Increment \in Nat /\ Increment >= 1 /\ x \in Nat
  BY TableAssumption
<1>2. x \div Increment \in Nat
  <2> HIDE DEF x
  <2> QED BY <1>1
<1>3. (x \div Increment) * Increment \in Nat
  <2> HIDE DEF x
  <2>1. \A a, b \in Nat : a * b \in Nat
    OBVIOUS
  <2> QED BY <1>1, <1>2, <2>1
<1> QED BY <1>3 DEF Grown, roundup

\* elftc_string_table_insert: a new string has a new offset, one that was removed has
\* the one it had, one that is there keeps its own, and so do all others.
LEMMA InsertStep ==
    ASSUME TableInv, NEW str \in Strings, Insert(str)
    PROVE  /\ TableInv'
           /\ \A t : t # str => LookupIn(pool', entries', t) = LookupIn(pool, entries, t)
           /\ \/ LookupIn(pool', entries', str) = LookupIn(pool, entries, str)
              \/ /\ LookupIn(pool, entries, str) = 0
                 /\ LookupIn(pool', entries', str) \in Nat \ {0}
                 /\ LookupIn(pool', entries', str) \notin entries
<1>1. /\ Ready /\ pool \in Seq(Nat) /\ len \in 1..Len(pool) /\ pool[1] = 0 /\ pool[len] = 0 /\ len \in Nat
      /\ size \in Nat /\ flag \in BOOLEAN /\ UNCHANGED <<flag, loop>> /\ loop = LoopDone
      /\ loop \in [s : Nat, r : Nat, newsize : Nat]
  BY DEF TableInv, PoolTypeOK, Insert, Ready
<1>2. /\ Entered(pool, entries, StartsIn(pool, 1, len))
      /\ entries \subseteq Int \ {0}
  BY <1>1 DEF TableInv, StartsOf, PoolTypeOK
<1>3. str \in Seq(Nat \ {0})
  BY TableAssumption
<1>4. CASE Find(str) = {}
  <2> DEFINE m == len + Len(str)
  <2>1. /\ pool' = SubSeq(pool, 1, len) \o str \o <<0>> /\ len' = len + Len(str) + 1
        /\ size' = Grown(Len(str) + 1) /\ entries' = entries \cup {len}
    BY <1>4 DEF Insert
  <2>2. InsertedAt(pool, len, str, pool')
    BY <1>1, <1>3, <2>1, InsertBytes
  <2>3. Len(str) \in Nat /\ m \in Nat /\ len' = m + 1
    BY <1>1, <1>3, <2>1
  <2>4. pool' \in Seq(Nat) /\ Len(pool') = m + 1 /\ pool'[m + 1] = 0 /\ pool'[1] = pool[1]
    <3>1. 1 \in 1..len
      BY <1>1
    <3> QED BY <2>2, <2>3, <3>1 DEF InsertedAt
  <2>5. /\ TextIn(pool', len) = str
        /\ \A p \in 1..len - 1 : TextIn(pool', p) = TextIn(pool, p)
        /\ StartsIn(pool', 1, len + Len(str) + 1) = StartsIn(pool, 1, len) \cup {len}
    BY <1>1, <1>3, <2>2, InsertPool
  <2>6. \A k \in entries : TextIn(pool, Abs(k)) # str
    BY <1>4, Bridge DEF FindIn
  <2>7. \A k \in entries : Abs(k) \in 1..len - 1 /\ k # len
    BY <1>1, Live DEF Abs
  <2>8. len \notin StartsIn(pool, 1, len) /\ len \in Nat \ {0}
    BY <1>1 DEF StartsIn
  <2>15. \A k \in entries : TextIn(pool', Abs(k)) = TextIn(pool, Abs(k))
    BY <2>5, <2>7
  <2>16. TextIn(pool', len) = str
    BY <2>5
  <2> HIDE DEF m
  <2>9. /\ Entered(pool', entries \cup {len}, StartsIn(pool, 1, len) \cup {len})
        /\ \A t : t # str => LookupIn(pool', entries \cup {len}, t) = LookupIn(pool, entries, t)
        /\ LookupIn(pool', entries \cup {len}, str) = len /\ LookupIn(pool, entries, str) = 0
    <3> DEFINE st == StartsIn(pool, 1, len)
    <3>1. Entered(pool, entries, st) /\ len \notin st
      BY <1>2, <2>8
    <3> HIDE DEF st
    <3>2. len \in Nat \ {0}
      BY <2>8
    <3>3. /\ Entered(pool', entries \cup {len}, st \cup {len})
          /\ \A t : t # str => LookupIn(pool', entries \cup {len}, t) = LookupIn(pool, entries, t)
          /\ LookupIn(pool', entries \cup {len}, str) = len /\ LookupIn(pool, entries, str) = 0
      BY <3>1, <3>2, <2>6, <2>15, <2>16, Added
    <3> QED BY <3>3 DEF st
  <2>10. Entered(pool', entries', StartsOf(pool', len', loop'))
    BY <1>1, <2>1, <2>5, <2>9 DEF StartsOf
  <2>11. Ready /\ ~ flag => \A i \in entries' : i > 0
    BY <1>1, <2>1, <2>8 DEF TableInv
  <2>12. size' \in Nat /\ entries' \subseteq Int \ {0} /\ len' \in 1..Len(pool')
    BY <1>1, <1>2, <2>1, <2>3, <2>4, GrownType
  <2>13. TableInv'
    BY <1>1, <2>3, <2>4, <2>10, <2>11, <2>12 DEF TableInv, PoolTypeOK, Ready
  <2>14. len \notin entries
    BY <2>7
  <2> QED BY <2>1, <2>8, <2>9, <2>13, <2>14
<1>5. CASE Find(str) # {}
  <2>1. /\ entries' = (entries \ Find(str)) \cup {Abs(i) : i \in Find(str)}
        /\ UNCHANGED <<pool, len, size>>
    BY <1>5 DEF Insert
  <2>2. PICK i \in entries : TextIn(pool, Abs(i)) = str
    BY <1>5, Bridge DEF FindIn
  <2>3. Find(str) = {i}
    BY <1>2, <2>2, Bridge DEF FindIn, Entered
  <2>4. /\ i \in Int \ {0} /\ Abs(i) \in Nat \ {0} /\ Abs(i) \in StartsIn(pool, 1, len)
        /\ Abs(Abs(i)) = Abs(i) /\ Abs(i) > 0 /\ (i > 0 => Abs(i) = i)
    <3>1. i \in Int \ {0} /\ Abs(i) \in Nat \ {0} /\ Abs(i) \in StartsIn(pool, 1, len)
      BY <1>1, Live DEF StartsOf
    <3> QED BY <3>1 DEF Abs
  <2> DEFINE j == Abs(i)
             em == (entries \ {i}) \cup {j}
  <2>5. entries' = em
    BY <2>1, <2>3
  <2>6. Abs(j) = j /\ j \in Int \ {0} /\ TextIn(pool, Abs(j)) = TextIn(pool, Abs(i)) /\ j \in StartsIn(pool, 1, len)
    BY <2>4
  <2> HIDE DEF j
  <2>7. /\ Entered(pool, em, (StartsIn(pool, 1, len) \ {Abs(i)}) \cup {Abs(j)})
        /\ \A t : t # TextIn(pool, Abs(i)) => LookupIn(pool, em, t) = LookupIn(pool, entries, t)
        /\ LookupIn(pool, em, TextIn(pool, Abs(i))) = IF j > 0 THEN j ELSE 0
        /\ LookupIn(pool, entries, TextIn(pool, Abs(i))) = IF i > 0 THEN i ELSE 0
    <3>1. MayReplace(pool, entries, pool, em, StartsIn(pool, 1, len), i, j)
      BY <1>2, <2>6 DEF MayReplace
    <3> HIDE DEF em
    <3>2. Replaced(pool, entries, pool, em, StartsIn(pool, 1, len), i, j)
      BY <3>1, RenamedEntry
    <3> QED BY <3>2 DEF Replaced
  <2>8. (StartsIn(pool, 1, len) \ {Abs(i)}) \cup {Abs(j)} = StartsIn(pool, 1, len)
    BY <2>4, <2>6 DEF j
  <2>9. Entered(pool', entries', StartsOf(pool', len', loop'))
    BY <1>1, <2>1, <2>5, <2>7, <2>8 DEF StartsOf
  <2>10. Ready /\ ~ flag => \A k \in entries' : k > 0
    BY <2>4, <2>5 DEF TableInv, j
  <2>11. entries' \subseteq Int \ {0}
    BY <1>2, <2>5, <2>6
  <2>12. TableInv'
    BY <1>1, <2>1, <2>9, <2>10, <2>11 DEF TableInv, PoolTypeOK, Ready
  <2>13. j \in entries => i = j
    BY <1>2, <2>2, <2>6 DEF Entered
  <2> QED BY <2>1, <2>2, <2>4, <2>5, <2>7, <2>12, <2>13 DEF j
<1> QED BY <1>4, <1>5

\* elftc_string_table_remove: the string is not found any more, all others are as
\* before.
LEMMA RemoveStep ==
    ASSUME TableInv, NEW str \in Strings, RemoveString(str)
    PROVE  /\ TableInv'
           /\ \A t : t # str => LookupIn(pool', entries', t) = LookupIn(pool, entries, t)
           /\ LookupIn(pool, entries, str) # 0 /\ LookupIn(pool', entries', str) = 0
<1> DEFINE st == StartsOf(pool, len, loop)
<1>0. /\ Ready /\ Lookup(str) # 0 /\ Lookup(str) = LookupIn(pool, entries, str) /\ flag' = TRUE
      /\ entries' = (entries \ {Lookup(str)}) \cup {-Lookup(str)}
      /\ UNCHANGED <<pool, len, size, loop>> /\ PoolTypeOK
      /\ Entered(pool, entries, st) /\ entries \subseteq Int \ {0}
  BY Bridge DEF RemoveString, TableInv, PoolTypeOK
<1> HIDE DEF st
<1>2. PICK i \in entries : i = Lookup(str) /\ i > 0 /\ TextIn(pool, i) = str
  <2> DEFINE c == LookupIn(pool, entries, str)
  <2>1. Entered(pool, entries, st) /\ c # 0 /\ Lookup(str) = c
    BY <1>0
  <2>2. c \in entries /\ c > 0 /\ TextIn(pool, c) = str
    BY <2>1, LookupIs
  <2> HIDE DEF c
  <2> QED BY <2>1, <2>2
<1> DEFINE j == -i
           em == (entries \ {i}) \cup {j}
<1>1. /\ Ready /\ i # 0 /\ i = LookupIn(pool, entries, str) /\ flag' = TRUE /\ entries' = em
      /\ UNCHANGED <<pool, len, size, loop>> /\ PoolTypeOK
      /\ Entered(pool, entries, st) /\ entries \subseteq Int \ {0}
  BY <1>0, <1>2
<1>3. /\ Abs(i) = i /\ j \in Int \ {0} /\ Abs(j) = i /\ i \in st
      /\ TextIn(pool, Abs(j)) = TextIn(pool, Abs(i))
  BY <1>1, <1>2, Live DEF Abs, st
<1>4. ~ (j > 0)
  BY <1>1, <1>2
<1> HIDE DEF j
<1>5. /\ Entered(pool, em, (st \ {Abs(i)}) \cup {Abs(j)})
      /\ \A t : t # TextIn(pool, Abs(i)) => LookupIn(pool, em, t) = LookupIn(pool, entries, t)
      /\ LookupIn(pool, em, TextIn(pool, Abs(i))) = IF j > 0 THEN j ELSE 0
  <2>1. MayReplace(pool, entries, pool, em, st, i, j)
    BY <1>1, <1>3 DEF MayReplace
  <2> HIDE DEF em
  <2>2. Replaced(pool, entries, pool, em, st, i, j)
    BY <2>1, RenamedEntry
  <2> QED BY <2>2 DEF Replaced
<1>6. (st \ {Abs(i)}) \cup {Abs(j)} = st
  BY <1>3
<1>7. Entered(pool', entries', StartsOf(pool', len', loop'))
  BY <1>1, <1>5, <1>6 DEF st
<1>8. entries' \subseteq Int \ {0}
  BY <1>1, <1>3
<1>9. PoolTypeOK'
  BY <1>1, <1>8 DEF PoolTypeOK
<1>10. TableInv'
  BY <1>1, <1>7, <1>9 DEF TableInv, Ready
<1> QED BY <1>1, <1>2, <1>3, <1>4, <1>5, <1>10

\* elftc_string_table_image starts on the compaction.
LEMMA ImageStep ==
    ASSUME TableInv, MakeImage
    PROVE  TableInv' /\ UNCHANGED <<pool, entries>> /\ loop = LoopDone /\ loop' # LoopDone
<1>1. /\ loop = LoopDone /\ loop' = [s |-> 1, r |-> 1, newsize |-> 1] /\ flag = TRUE /\ Ready
      /\ UNCHANGED <<pool, len, flag, size, entries>> /\ PoolTypeOK /\ pool[1] = 0 /\ pool[len] = 0
      /\ len \in Nat /\ 1 <= len /\ entries \subseteq Int
  BY DEF MakeImage, TableInv, PoolTypeOK, Ready
<1>2. loop' # LoopDone /\ loop'.r = 1 /\ loop'.s = 1 /\ loop'.newsize = 1
  BY <1>1 DEF LoopDone
<1>3. StartsOf(pool', len', loop') = StartsOf(pool, len, loop)
  BY <1>1, <1>2 DEF StartsOf, StartsIn
<1>4. \A i \in entries' : i < 0 => 1 <= -i
  BY <1>1
<1>5. LoopInv'
  BY <1>1, <1>2, <1>4 DEF LoopInv
<1>6. Entered(pool', entries', StartsOf(pool', len', loop'))
  BY <1>1, <1>3 DEF TableInv
<1>7. PoolTypeOK'
  BY <1>1 DEF PoolTypeOK
<1> QED BY <1>1, <1>2, <1>5, <1>6, <1>7 DEF TableInv, Ready

\* The state the compaction goes on from.
LEMMA RunningState ==
    ASSUME TableInv, Running
    PROVE  /\ pool \in Seq(Nat) /\ len \in 1..Len(pool) /\ pool[1] = 0 /\ pool[len] = 0
           /\ LoopInv /\ loop.s \in Nat \ {0} /\ loop.r \in Nat \ {0} /\ loop.s < len
           /\ loop \in [s : Nat, r : Nat, newsize : Nat]
           /\ Length = Len(TextIn(pool, loop.s)) + 1
           /\ Length \in Nat \ {0} /\ loop.s + Length <= len /\ pool[loop.s + Length] = 0
           /\ StartsIn(pool, loop.s, len) = {loop.s} \cup StartsIn(pool, loop.s + Length, len)
           /\ Entered(pool, entries, StartsIn(pool, 1, loop.r) \cup StartsIn(pool, loop.s, len))
           /\ \A i \in entries : TextIn(pool, Abs(i)) = TextIn(pool, loop.s) => Abs(i) = loop.s
           /\ \E i \in entries : Abs(i) = loop.s
<1>1. /\ pool \in Seq(Nat) /\ len \in 1..Len(pool) /\ pool[1] = 0 /\ pool[len] = 0
      /\ LoopInv /\ loop.s < len /\ loop # LoopDone /\ PoolTypeOK
  BY DEF TableInv, PoolTypeOK, Running, Ready
<1>2. loop.s \in Nat \ {0} /\ loop.r \in Nat \ {0} /\ loop \in [s : Nat, r : Nat, newsize : Nat] /\ pool[loop.s] = 0
  BY <1>1 DEF PoolTypeOK, LoopInv
<1>3. Length = Len(TextIn(pool, loop.s)) + 1
  BY Bridge DEF Length
<1> HIDE DEF Length
<1> DEFINE s0 == loop.s
           n0 == len
           l0 == Length
<1>4. /\ l0 \in Nat \ {0} /\ s0 + l0 <= n0 /\ pool[s0 + l0] = 0
      /\ StartsIn(pool, s0, n0) = {s0} \cup StartsIn(pool, s0 + l0, n0)
  <2>1. pool \in Seq(Nat) /\ n0 \in 1..Len(pool) /\ pool[n0] = 0 /\ s0 \in Nat \ {0} /\ s0 < n0 /\ pool[s0] = 0
    BY <1>1, <1>2
  <2> DEFINE len0 == Len(TextIn(pool, s0)) + 1
  <2> HIDE DEF s0, n0
  <2>2. /\ len0 \in Nat \ {0} /\ s0 + len0 <= n0 /\ pool[s0 + len0] = 0
        /\ StartsIn(pool, s0, n0) = {s0} \cup StartsIn(pool, s0 + len0, n0)
    BY <2>1, Passed
  <2>3. len0 = l0
    BY <1>3 DEF s0
  <2> QED BY <2>2, <2>3
<1>5. Entered(pool, entries, StartsIn(pool, 1, loop.r) \cup StartsIn(pool, loop.s, len))
  BY <1>1 DEF TableInv, StartsOf
<1>6. PICK i \in entries : Abs(i) = loop.s
  BY <1>4, <1>5 DEF Entered
<1>7. \A j \in entries : TextIn(pool, Abs(j)) = TextIn(pool, loop.s) => Abs(j) = loop.s
  BY <1>5, <1>6 DEF Entered
<1> QED BY <1>1, <1>2, <1>3, <1>4, <1>5, <1>6, <1>7

\* A removed string is passed over and its entry dropped.
LEMMA DropStep ==
    ASSUME TableInv, CompactDrop
    PROVE  /\ TableInv' /\ loop # LoopDone /\ loop' # LoopDone
           /\ \A t : LookupIn(pool', entries', t) = LookupIn(pool, entries, t)
<1> DEFINE s == loop.s
           r == loop.r
           n == s + Length
           st == StartsIn(pool, 1, r) \cup StartsIn(pool, s, len)
<1>0. Running /\ loop # LoopDone
  BY DEF CompactDrop, Running
<1>1. /\ pool \in Seq(Nat) /\ len \in 1..Len(pool) /\ len \in Nat /\ pool[1] = 0 /\ pool[len] = 0
      /\ LoopInv /\ s \in Nat \ {0} /\ r \in Nat \ {0}
      /\ loop \in [s : Nat, r : Nat, newsize : Nat]
      /\ Length \in Nat \ {0} /\ n <= len /\ pool[n] = 0
      /\ StartsIn(pool, s, len) = {s} \cup StartsIn(pool, n, len)
      /\ Entered(pool, entries, st)
      /\ \A i \in entries : TextIn(pool, Abs(i)) = TextIn(pool, s) => Abs(i) = s
  BY <1>0, RunningState
<1>2. /\ loop' = [loop EXCEPT !.s = s + Length] /\ UNCHANGED <<pool, len, flag, size>>
      /\ \E i \in Find(Text(s)) : i < 0 /\ entries' = entries \ {i}
  BY DEF CompactDrop
<1>3. PICK i \in entries : TextIn(pool, Abs(i)) = TextIn(pool, s) /\ i < 0 /\ entries' = entries \ {i}
  BY <1>2, Bridge DEF FindIn
<1>4. Abs(i) = s /\ -i = s /\ i \in Int /\ entries \subseteq Int \ {0}
  BY <1>1, <1>3 DEF Abs, Entered
<1> HIDE DEF Length
<1>5. n \in Nat /\ s < n /\ loop' \in [s : Nat, r : Nat, newsize : Nat] /\ loop'.s = n /\ loop'.r = r
      /\ loop'.newsize = loop.newsize /\ loop' # LoopDone
  BY <1>1, <1>2, SMTT(60) DEF LoopDone
<1> HIDE DEF n
<1>6. s \notin StartsIn(pool, n, len) /\ s \notin StartsIn(pool, 1, r)
  BY <1>1, <1>5 DEF StartsIn, LoopInv
<1>7. st \ {Abs(i)} = StartsIn(pool, 1, r) \cup StartsIn(pool, n, len)
  BY <1>1, <1>4, <1>6
<1>8. /\ Entered(pool, entries \ {i}, st \ {Abs(i)})
      /\ \A t : LookupIn(pool, entries \ {i}, t) = LookupIn(pool, entries, t)
  BY <1>1, <1>3, Dropped
<1>9. Entered(pool', entries', StartsOf(pool', len', loop'))
  BY <1>2, <1>3, <1>5, <1>7, <1>8 DEF StartsOf
\* Every other removed string is behind this one, at least a NUL further.
<1>10. ASSUME NEW k \in entries', k < 0 PROVE n <= -k
  <2>1. k \in Int /\ Abs(k) = -k /\ s <= -k
    BY <1>1, <1>3, <1>4, <1>10 DEF Abs, LoopInv
  <2>2. -k \in StartsIn(pool, 1, r) \cup StartsIn(pool, n, len)
    BY <1>7, <1>8, <1>3, <2>1 DEF Entered
  <2>3. -k \notin StartsIn(pool, 1, r)
    BY <1>1, <2>1 DEF StartsIn, LoopInv
  <2> QED BY <2>2, <2>3, <1>1, <1>5 DEF StartsIn
<1>11. LoopInv'
  <2>1. flag'
    BY <1>1, <1>2 DEF LoopInv
  <2>2. /\ loop'.newsize = loop'.r /\ 1 <= loop'.r /\ loop'.r <= loop'.s /\ loop'.s <= len'
        /\ pool'[loop'.r] = 0 /\ pool'[loop'.s] = 0
    <3>1. /\ loop.newsize = r /\ 1 <= r /\ r <= s /\ pool[r] = 0 /\ pool' = pool /\ len' = len
          /\ pool[n] = 0 /\ n <= len
      BY <1>1, <1>2 DEF LoopInv
    <3> HIDE DEF r, s
    <3>2. r <= n
      BY <1>1, <1>5, <3>1
    <3> QED BY <1>5, <3>1, <3>2
  <2>3. \A k \in entries' : k < 0 => loop'.s <= -k
    BY <1>5, <1>10
  <2> QED BY <2>1, <2>2, <2>3 DEF LoopInv
<1>12. PoolTypeOK'
  BY <1>1, <1>2, <1>3, <1>4, <1>5 DEF PoolTypeOK, TableInv
<1>13. TableInv'
  BY <1>1, <1>2, <1>5, <1>9, <1>11, <1>12 DEF TableInv, Ready
<1> QED BY <1>0, <1>2, <1>3, <1>5, <1>8, <1>13

\* A string that stays is moved up, and nothing but its offset changes.
LEMMA KeepStep ==
    ASSUME TableInv, CompactKeep
    PROVE  /\ TableInv' /\ loop # LoopDone /\ loop' # LoopDone
           /\ \E T : /\ \A t : t # T => LookupIn(pool', entries', t) = LookupIn(pool, entries, t)
                     /\ LookupIn(pool, entries, T) \in Nat \ {0}
                     /\ LookupIn(pool', entries', T) \in Nat \ {0}
                     /\ \/ LookupIn(pool', entries', T) = LookupIn(pool, entries, T)
                        \/ LookupIn(pool', entries', T) \notin entries
<1> DEFINE s == loop.s
           r == loop.r
           n == s + Length
           st == StartsIn(pool, 1, r) \cup StartsIn(pool, s, len)
           em == (entries \ {s}) \cup {r}
<1>0. Running /\ loop # LoopDone
  BY DEF CompactKeep, Running
<1>1. /\ pool \in Seq(Nat) /\ len \in 1..Len(pool) /\ len \in Nat /\ pool[1] = 0 /\ pool[len] = 0
      /\ LoopInv /\ s \in Nat \ {0} /\ r \in Nat \ {0} /\ s < len
      /\ loop \in [s : Nat, r : Nat, newsize : Nat]
      /\ Length = Len(TextIn(pool, s)) + 1
      /\ Length \in Nat \ {0} /\ n <= len /\ pool[n] = 0
      /\ StartsIn(pool, s, len) = {s} \cup StartsIn(pool, n, len)
      /\ Entered(pool, entries, st)
      /\ \A i \in entries : TextIn(pool, Abs(i)) = TextIn(pool, s) => Abs(i) = s
  BY <1>0, RunningState
<1>2. /\ \E i \in Find(Text(s)) : i > 0 /\ entries' = KeepEntry(i)
      /\ pool' = Moved
      /\ loop' = [s |-> s + Length, r |-> r + Length, newsize |-> loop.newsize + Length]
      /\ UNCHANGED <<len, flag, size>>
  BY DEF CompactKeep
<1>3. PICK i \in entries : TextIn(pool, Abs(i)) = TextIn(pool, s) /\ i > 0 /\ entries' = KeepEntry(i)
  BY <1>2, Bridge DEF FindIn
<1>4. i = s /\ entries \subseteq Int \ {0} /\ Abs(s) = s /\ Abs(r) = r
  BY <1>1, <1>3, SMTT(60) DEF Abs, Entered
<1>5. loop.newsize = r /\ r <= s /\ pool[r] = 0 /\ pool[s] = 0 /\ flag /\ \A k \in entries : k < 0 => s <= -k
  BY <1>1 DEF LoopInv
<1>6. entries' = em
  BY <1>3, <1>4, <1>5 DEF KeepEntry
<1>7. MovedTo(pool, s, Length, r, pool')
  <2>1. pool' = [k \in DOMAIN pool |-> IF k - 1 \in r..r + Length - 1 THEN pool[k - r + s] ELSE pool[k]]
    BY <1>2 DEF Moved
  <2>2. r \in Nat \ {0} /\ s \in Nat \ {0} /\ r <= s /\ Length \in Nat \ {0} /\ s + Length <= Len(pool) /\ pool \in Seq(Nat)
    BY <1>1, <1>5
  <2> HIDE DEF s, r, Length
  <2>3. MovedTo(pool, s, Length, r, [k \in DOMAIN pool |-> IF k - 1 \in r..r + Length - 1 THEN pool[k - r + s] ELSE pool[k]])
    BY <2>2, MoveBytes
  <2> QED BY <2>1, <2>3
<1> HIDE DEF Length
<1>8. /\ pool'[1] = 0 /\ pool'[len] = 0 /\ pool'[r + Length] = 0 /\ pool'[n] = 0
      /\ TextIn(pool', r) = TextIn(pool, s)
      /\ \A p \in StartsIn(pool, 1, r) \cup StartsIn(pool, n, len) : TextIn(pool', p) = TextIn(pool, p)
      /\ StartsIn(pool', 1, r + Length) = StartsIn(pool, 1, r) \cup {r}
      /\ StartsIn(pool', n, len) = StartsIn(pool, n, len)
  <2>1. MayMove(pool, len, s, r, Length)
    BY <1>1, <1>5 DEF MayMove
  <2> HIDE DEF s, r
  <2>2. OthersKept(pool, len, s, r, Length, pool')
    BY <1>7, <2>1, MovePool
  <2> QED BY <1>1, <2>2 DEF OthersKept
<1>9. /\ n \in Nat /\ r + Length \in Nat /\ r + Length <= n /\ 1 <= r + Length /\ s < n
      /\ loop' \in [s : Nat, r : Nat, newsize : Nat] /\ loop'.s = n /\ loop'.r = r + Length
      /\ loop'.newsize = r + Length /\ loop' # LoopDone
  <2>1. loop'.s = s + Length /\ loop'.r = r + Length /\ loop'.newsize = r + Length
    BY <1>2, <1>5
  <2>2. s \in Nat \ {0} /\ r \in Nat \ {0} /\ Length \in Nat \ {0} /\ r <= s
    BY <1>1, <1>5
  <2>3. loop' = [s |-> s + Length, r |-> r + Length, newsize |-> r + Length]
    BY <1>2, <1>5
  <2> HIDE DEF s, r
  <2>4. s + Length \in Nat \ {0} /\ r + Length \in Nat /\ r + Length <= s + Length /\ 1 <= r + Length /\ s < s + Length
    BY <2>2
  <2>5. loop' # LoopDone
    BY <2>1, <2>4 DEF LoopDone
  <2> QED BY <2>1, <2>3, <2>4, <2>5
<1> HIDE DEF n, r, s
<1>10. /\ s \notin StartsIn(pool, n, len) /\ s \notin StartsIn(pool, 1, r)
       /\ (r = s \/ r \notin StartsIn(pool, s, len)) /\ r \notin StartsIn(pool, 1, r)
  BY <1>1, <1>5, <1>9 DEF StartsIn
<1>11. (st \ {s}) \cup {r} = StartsIn(pool', 1, r + Length) \cup StartsIn(pool', n, len)
  BY <1>1, <1>8, <1>10
<1>12. \A k \in entries \ {s} : TextIn(pool', Abs(k)) = TextIn(pool, Abs(k))
  <2>1. ASSUME NEW k \in entries \ {s} PROVE Abs(k) \in StartsIn(pool, 1, r) \cup StartsIn(pool, n, len)
    <3>1. Abs(k) # s
      BY <1>1, <1>3, <1>4, <2>1 DEF Entered
    <3> QED BY <1>1, <3>1 DEF Entered
  <2> QED BY <1>8, <2>1
<1> DEFINE T == TextIn(pool, Abs(s))
<1>13. /\ Entered(pool', em, (st \ {Abs(s)}) \cup {Abs(r)})
       /\ \A t : t # T => LookupIn(pool', em, t) = LookupIn(pool, entries, t)
       /\ LookupIn(pool', em, T) = IF r > 0 THEN r ELSE 0
       /\ LookupIn(pool, entries, T) = IF s > 0 THEN s ELSE 0
  <2>1. Entered(pool, entries, st) /\ s \in entries
    BY <1>1, <1>3, <1>4
  <2>2. r \in Int \ {0} /\ TextIn(pool', Abs(r)) = TextIn(pool, Abs(s))
    BY <1>1, <1>4, <1>8
  <2> HIDE DEF st
  <2>3. MayReplace(pool, entries, pool', em, st, s, r)
    BY <1>12, <2>1, <2>2 DEF MayReplace
  <2> HIDE DEF em
  <2>4. Replaced(pool, entries, pool', em, st, s, r)
    BY <2>3, RenamedEntry
  <2> QED BY <2>4 DEF Replaced
<1>14. LookupIn(pool', entries', T) = r /\ LookupIn(pool, entries, T) = s /\ r > 0 /\ s > 0
  BY <1>1, <1>6, <1>13
<1>15. Entered(pool', entries', StartsOf(pool', len', loop'))
  BY <1>2, <1>4, <1>6, <1>9, <1>11, <1>13 DEF StartsOf
\* Removed strings are behind this one, at least a NUL further.
<1>16. ASSUME NEW k \in entries', k < 0 PROVE n <= -k
  <2>1. k \in entries /\ k # s /\ k \in Int /\ Abs(k) = -k /\ s <= -k
    BY <1>1, <1>4, <1>5, <1>6, <1>16 DEF Abs
  <2>2. Abs(k) # s
    BY <1>1, <1>3, <1>4, <2>1 DEF Entered
  <2>3. Abs(k) \in StartsIn(pool, 1, r) \cup StartsIn(pool, n, len)
    BY <1>1, <2>1, <2>2 DEF Entered
  <2>4. -k \notin StartsIn(pool, 1, r)
    BY <1>1, <1>5, <2>1 DEF StartsIn
  <2> QED BY <1>1, <1>9, <2>1, <2>3, <2>4 DEF StartsIn
<1>17. LoopInv'
  <2>1. flag'
    BY <1>2, <1>5
  <2>2. /\ loop'.newsize = loop'.r /\ 1 <= loop'.r /\ loop'.r <= loop'.s /\ loop'.s <= len'
        /\ pool'[loop'.r] = 0 /\ pool'[loop'.s] = 0
    BY <1>1, <1>2, <1>8, <1>9
  <2>3. \A k \in entries' : k < 0 => loop'.s <= -k
    BY <1>9, <1>16
  <2> QED BY <2>1, <2>2, <2>3 DEF LoopInv
<1>18. PoolTypeOK'
  <2>1. pool' \in Seq(Nat) /\ Len(pool') = Len(pool)
    BY <1>7 DEF MovedTo
  <2>2. entries' \subseteq Int \ {0}
    BY <1>1, <1>4, <1>6
  <2> QED BY <1>1, <1>2, <1>9, <2>1, <2>2 DEF PoolTypeOK, TableInv
<1>19. TableInv'
  BY <1>2, <1>8, <1>9, <1>15, <1>17, <1>18 DEF TableInv, Ready
<1>20. r = s \/ r \notin entries
  <2>1. ASSUME r \in entries PROVE r = s
    <3>1. r \in st
      BY <1>1, <1>4, <2>1 DEF Entered
    <3> QED BY <1>10, <3>1
  <2> QED BY <2>1
<1> QED BY <1>0, <1>1, <1>6, <1>9, <1>13, <1>14, <1>19, <1>20

\* The end of the compaction: all strings in use have moved, and no removed one is
\* left.
LEMMA EndStep ==
    ASSUME TableInv, CompactEnd
    PROVE  TableInv' /\ UNCHANGED <<pool, entries>> /\ loop # LoopDone /\ loop' = LoopDone
<1>1. /\ loop # LoopDone /\ loop.s >= len /\ len' = loop.newsize /\ flag' = FALSE /\ loop' = LoopDone
      /\ UNCHANGED <<pool, size, entries>>
  BY DEF CompactEnd
<1>2. /\ LoopInv /\ PoolTypeOK /\ pool[1] = 0 /\ len \in Nat /\ loop.s \in Nat /\ loop.r \in Nat
      /\ len \in 1..Len(pool)
  BY <1>1 DEF TableInv, Ready, PoolTypeOK
<1>3. /\ len' = loop.r /\ loop.s = len /\ pool'[len'] = 0 /\ len' \in 1..Len(pool)
  BY <1>1, <1>2 DEF LoopInv
<1>4. StartsIn(pool, loop.s, len) = {}
  BY <1>2, <1>3 DEF StartsIn
<1>5. StartsOf(pool', len', loop') = StartsOf(pool, len, loop)
  BY <1>1, <1>3, <1>4 DEF StartsOf
<1>6. Entered(pool', entries', StartsOf(pool', len', loop'))
  BY <1>1, <1>5 DEF TableInv
<1>7. ASSUME NEW i \in entries PROVE i > 0
  <2>1. i \in Int \ {0} /\ Abs(i) < len
    BY Live
  <2>2. i < 0 => len <= -i
    BY <1>2, <1>3 DEF LoopInv
  <2> QED BY <1>2, <2>1, <2>2 DEF Abs
<1>8. LoopDone \in [s : Nat, r : Nat, newsize : Nat] /\ FALSE \in BOOLEAN
  BY DEF LoopDone
<1>9. PoolTypeOK'
  <2>1. flag' \in BOOLEAN
    BY <1>1, <1>8, Zenon
  <2> QED BY <1>1, <1>2, <1>3, <1>8, <2>1, Zenon DEF PoolTypeOK
<1>10. TableInv'
  BY <1>1, <1>2, <1>3, <1>6, <1>7, <1>9 DEF TableInv, Ready
<1> QED BY <1>1, <1>10
(***************************************************************************)
(* The theorems.                                                           *)
(***************************************************************************)
LEMMA StutterStep == TableInv /\ UNCHANGED poolVars => TableInv'
<1> SUFFICES ASSUME TableInv, UNCHANGED poolVars PROVE TableInv'
  OBVIOUS
<1>1. UNCHANGED <<pool, len, flag, size, entries, loop>>
  BY DEF poolVars
<1> QED BY <1>1 DEF TableInv, PoolTypeOK, StartsOf, LoopInv, Ready

LEMMA StepTable == TableInv /\ [PoolNext]_poolVars => TableInv'
<1> SUFFICES ASSUME TableInv, [PoolNext]_poolVars PROVE TableInv'
  OBVIOUS
<1>1. CASE MakeImage
  BY <1>1, ImageStep
<1>2. CASE CompactDrop
  BY <1>2, DropStep
<1>3. CASE CompactKeep
  BY <1>3, KeepStep
<1>4. CASE CompactEnd
  BY <1>4, EndStep
<1>5. ASSUME NEW str \in Strings, Insert(str) PROVE TableInv'
  BY <1>5, InsertStep
<1>6. ASSUME NEW str \in Strings, RemoveString(str) PROVE TableInv'
  BY <1>6, RemoveStep
<1>7. CASE UNCHANGED poolVars
  BY <1>7, StutterStep
<1> QED BY <1>1, <1>2, <1>3, <1>4, <1>5, <1>6, <1>7 DEF PoolNext, Compact

\* The invariant behind the other theorems: the types, the bounds of the compaction
\* and one entry for each string of the part that moved and the part that has not.
THEOREM TableInvariant == PoolSpec => []TableInv
<1> QED BY InitTable, StepTable, PTL DEF PoolSpec

\* Every string of the pool has exactly one entry, also while entries hold offsets from
\* before and after the move.
THEOREM OneEntryAlways == PoolSpec => []OneEntryEach
<1>1. TableInv => OneEntryEach
  <2> SUFFICES ASSUME TableInv PROVE OneEntryEach
    OBVIOUS
  <2>1. Entered(pool, entries, StartsOf(pool, len, loop))
    BY DEF TableInv
  <2> QED BY <2>1, Bridge DEF OneEntryEach, StartsOf, Entered
<1> QED BY <1>1, TableInvariant, PTL

\* assert(ste != NULL) in the compaction never fails.
THEOREM CompactionFindsEntries == PoolSpec => []EntryAlwaysFound
<1>1. TableInv => EntryAlwaysFound
  <2> SUFFICES ASSUME TableInv, Running PROVE Find(Text(loop.s)) # {}
    BY DEF EntryAlwaysFound
  <2>1. PICK i \in entries : Abs(i) = loop.s
    BY RunningState
  <2>2. i \in Find(Text(loop.s))
    BY <2>1 DEF Find
  <2> QED BY <2>2
<1> QED BY <1>1, TableInvariant, PTL

\* What elftc_string_table_image exports without compaction holds no removed string.
THEOREM ImageIsClean == PoolSpec => []ImageHasNoRemoved
<1>1. TableInv => ImageHasNoRemoved
  BY DEF TableInv, ImageHasNoRemoved
<1> QED BY <1>1, TableInvariant, PTL

\* elftc_string_table_lookup, before and after a step.
LEMMA NextLookup == \A str : Lookup(str)' = LookupIn(pool', entries', str)
<1>1. \A p : Text(p)' = TextIn(pool', p)
  BY DEF Text, TextIn
<1>2. \A str : Find(str)' = FindIn(pool', entries', str)
  BY <1>1 DEF Find, FindIn
<1> QED BY <1>2 DEF Lookup, LookupIn

\* Offsets of strings are entries.
LEMMA UsedEntries == TableInv => Map!Used \subseteq entries
<1> SUFFICES ASSUME TableInv, NEW str \in Strings, Lookup(str) # 0 PROVE Lookup(str) \in entries
  BY DEF Map!Used
<1> DEFINE st == StartsOf(pool, len, loop)
<1>1. Entered(pool, entries, st) /\ LookupIn(pool, entries, str) # 0
  BY Bridge DEF TableInv
<1> HIDE DEF st
<1> QED BY <1>1, LookupIs, Bridge

\* Steps of the map, in which one string changes its offset.
LEMMA MapSteps ==
    ASSUME NEW str \in Strings, \A t \in Strings : t # str => Lookup(t)' = Lookup(t)
    PROVE  /\ Lookup(str)' = Lookup(str) => UNCHANGED [t \in Strings |-> Lookup(t)]
           /\ [t \in Strings |-> Lookup(t)]' = [[t \in Strings |-> Lookup(t)] EXCEPT ![str] = Lookup(str)']
  OBVIOUS
\* The image is made in any order of strings, none of which comes to be at the offset
\* of another.
LEMMA MapStep ==
    TableInv /\ [PoolNext]_poolVars =>
      [Map!Next]_<<[str \in Strings |-> Lookup(str)], loop # LoopDone>>
<1> DEFINE at == [str \in Strings |-> Lookup(str)]
           busy == loop # LoopDone
<1> SUFFICES ASSUME TableInv, [PoolNext]_poolVars PROVE Map!Next \/ UNCHANGED <<at, busy>>
  OBVIOUS
<1>0. /\ \A t : Lookup(t) = LookupIn(pool, entries, t) /\ Lookup(t)' = LookupIn(pool', entries', t)
      /\ Map!Used \subseteq entries
  BY Bridge, NextLookup, UsedEntries
<1>1. CASE MakeImage
  <2>1. UNCHANGED at /\ loop = LoopDone /\ loop' # LoopDone
    BY <1>0, <1>1, ImageStep
  <2> QED BY <2>1 DEF Map!Next, Map!Turn
<1>2. CASE CompactDrop
  <2>1. UNCHANGED at /\ loop # LoopDone /\ loop' # LoopDone
    BY <1>0, <1>2, DropStep
  <2> QED BY <2>1
<1>3. CASE CompactKeep
  <2>1. loop # LoopDone /\ loop' # LoopDone
    BY <1>3, KeepStep
  <2>2. PICK T : /\ \A t : t # T => Lookup(t)' = Lookup(t)
                 /\ Lookup(T) \in Nat \ {0} /\ Lookup(T)' \in Nat \ {0}
                 /\ Lookup(T)' = Lookup(T) \/ Lookup(T)' \notin entries
    BY <1>0, <1>3, KeepStep
  <2>3. CASE T \notin Strings
    <3>1. UNCHANGED at
      BY <2>2, <2>3
    <3> QED BY <2>1, <3>1
  <2>4. CASE T \in Strings /\ Lookup(T)' = Lookup(T)
    <3>1. UNCHANGED at
      BY <2>2, <2>4, MapSteps
    <3> QED BY <2>1, <3>1
  <2>5. CASE T \in Strings /\ Lookup(T)' \notin entries
    <3>1. at' = [at EXCEPT ![T] = Lookup(T)']
      BY <2>2, <2>5, MapSteps
    <3>2. at[T] # 0 /\ at'[T] = Lookup(T)' /\ Lookup(T)' \notin Map!Used \cup {0}
      BY <1>0, <2>2, <2>5
    <3>3. Map!Move(T)
      BY <2>1, <3>1, <3>2 DEF Map!Move
    <3> QED BY <2>5, <3>3 DEF Map!Next
  <2> QED BY <2>2, <2>3, <2>4, <2>5
<1>4. CASE CompactEnd
  <2>1. UNCHANGED at /\ loop # LoopDone /\ loop' = LoopDone
    BY <1>0, <1>4, EndStep
  <2> QED BY <2>1 DEF Map!Next, Map!Turn
<1>5. ASSUME NEW str \in Strings, Insert(str) PROVE Map!Next \/ UNCHANGED <<at, busy>>
  <2>1. loop = LoopDone /\ loop' = LoopDone
    BY <1>5 DEF Insert, Ready
  <2>2. /\ \A t : t # str => Lookup(t)' = Lookup(t)
        /\ \/ Lookup(str)' = Lookup(str)
           \/ Lookup(str) = 0 /\ Lookup(str)' \in Nat \ {0} /\ Lookup(str)' \notin entries
    BY <1>0, <1>5, InsertStep
  <2>3. CASE Lookup(str)' = Lookup(str)
    <3>1. UNCHANGED at
      BY <2>2, <2>3, MapSteps
    <3> QED BY <2>1, <3>1
  <2>4. CASE Lookup(str) = 0 /\ Lookup(str)' \in Nat \ {0} /\ Lookup(str)' \notin entries
    <3>1. at' = [at EXCEPT ![str] = Lookup(str)']
      BY <2>2, MapSteps
    <3>2. at[str] = 0 /\ at'[str] = Lookup(str)' /\ Lookup(str)' \notin Map!Used \cup {0}
      BY <1>0, <2>4
    <3>3. Map!Insert(str)
      BY <2>1, <3>1, <3>2 DEF Map!Insert
    <3> QED BY <3>3 DEF Map!Next
  <2> QED BY <2>2, <2>3, <2>4
<1>6. ASSUME NEW str \in Strings, RemoveString(str) PROVE Map!Next \/ UNCHANGED <<at, busy>>
  <2>1. loop = LoopDone /\ loop' = LoopDone
    BY <1>6 DEF RemoveString, Ready
  <2>2. (\A t : t # str => Lookup(t)' = Lookup(t)) /\ Lookup(str) # 0 /\ Lookup(str)' = 0
    BY <1>0, <1>6, RemoveStep
  <2>3. at' = [at EXCEPT ![str] = 0]
    BY <2>2, MapSteps
  <2>4. at[str] # 0
    BY <2>2
  <2>5. Map!Remove(str)
    BY <2>1, <2>3, <2>4 DEF Map!Remove
  <2> QED BY <2>5 DEF Map!Next
<1>7. CASE UNCHANGED poolVars
  <2>1. pool' = pool /\ entries' = entries /\ loop' = loop
    BY <1>7 DEF poolVars
  <2>2. UNCHANGED at
    BY <1>0, <2>1
  <2> QED BY <2>1, <2>2
<1> QED BY <1>1, <1>2, <1>3, <1>4, <1>5, <1>6, <1>7 DEF PoolNext, Compact

LEMMA MapInit == PoolInit => Map!Init
<1> SUFFICES ASSUME PoolInit PROVE Map!Init
  OBVIOUS
<1>1. entries = {} /\ loop = LoopDone
  BY DEF PoolInit
<1>2. \A str : Lookup(str) = 0
  BY <1>1 DEF Lookup, Find
<1> QED BY <1>1, <1>2 DEF Map!Init

\* The table implements the map of strings to offsets: a string that is in has an offset
\* no other has, which changes only while the image is made.
THEOREM TableImplementsMap == PoolSpec => ImplementsMap
<1> QED BY MapInit, MapStep, TableInvariant, PTL DEF PoolSpec, ImplementsMap, Map!Spec

==============================================================================
