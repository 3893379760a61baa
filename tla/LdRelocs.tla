------------------------------ MODULE LdRelocs ------------------------------
(***************************************************************************)
(* Relocations in ld(1) for x86-64: the scan that decides what the dynamic *)
(* linker will have to do (ld_reloc.c, amd64.c), the symbols made dynamic  *)
(* (ld_symbols.c), the GOT, the PLT and the dynamic relocations filled in  *)
(* after the layout, and the references written into the output.           *)
(*                                                                         *)
(* A word of the GOT, an entry of the PLT and a place with a reference are *)
(* one address each, and the sections are as far apart as the constant     *)
(* addresses below.  A reference is one relocation of the input: its       *)
(* symbol is the one ld_symbols_ref leads to.  Version scripts, relocation *)
(* overflow and the code around a TLS reference are left out.              *)
(***************************************************************************)
EXTENDS Integers, FiniteSets, SequencesExt

CONSTANTS SymbolIds,   \* symbols, numbers in the order of the hash table
          Kinds,       \* symbols considered: [type, bind, vis, home]
          Outputs,     \* [kind : {"exec", "pie", "dso"}, dynamic : BOOLEAN]
          MaxRefs      \* bound: references

VARIABLES output,      \* what is linked
          phase,
          sym,         \* struct ld_symbol
          refs,        \* the references in input order: [sym, type, warned]
          got,         \* words reserved in .got, .got.plt and .dynbss, and in .plt
          rela,        \* the dynamic relocations, by internal section
          count,       \* ls_relative_reloc
          dynsym,      \* the dynamic symbol table after its first entry
          dyn,         \* .rela.dyn
          image        \* what is written: words by address

relocVars == <<output, phase, sym, refs, got, rela, count, dynsym, dyn, image>>

\* Addresses in the output.
PltAddr == 100
GotAddr == 200
GotPltAddr == 300
BssAddr == 400
PlaceAddr == 500
Home(n) == 600 + n
Place(i) == PlaceAddr + i

Exec == output.kind = "exec"
Pic == output.kind \in {"pie", "dso"}
Dso == output.kind = "dso"

None == -1

NewSymbol(k) == [type |-> k.type, bind |-> k.bind, vis |-> k.vis, home |-> k.home, value |-> 0,
                 got |-> None, ld |-> FALSE, plt |-> FALSE, pltoff |-> 0, addr |-> FALSE,
                 rel |-> FALSE, import |-> FALSE, index |-> 0]

InDso(s) == s.home = "dso"
Undefined(s) == s.home = "none"
Global(s) == s.bind # "local"

\* ld_symbols_overridden.
Overridden(s) == Dso /\ s.vis = "default"

(***************************************************************************)
(* What a reference needs.                                                 *)
(***************************************************************************)
RequirePlt(s) == s.type = "func" /\ (InDso(s) \/ (Dso /\ (Undefined(s) \/ Overridden(s))))
RequireCopy(s) == s.type # "func" /\ Exec /\ InDso(s)
RequireGlobDat(s) == Undefined(s) \/ InDso(s) \/ (Dso /\ (Overridden(s) \/ s.vis = "protected"))

Absolute == {"64", "32"}

RequireDynamic(s, t) ==
    /\ ~InDso(s)
    /\ (Dso /\ (Undefined(s) \/ Overridden(s))) \/ (Pic /\ t \in Absolute)

RelativeRelax(s) == Pic /\ ~InDso(s) /\ ~(Dso /\ (Undefined(s) \/ Overridden(s)))

\* _tls_check_relax.
TlsRelax(s, t) ==
    IF ~output.dynamic THEN "le"
    ELSE IF Dso THEN "none"
    ELSE IF ~Undefined(s) /\ ~InDso(s) THEN "le"
    ELSE IF t = "TLSGD" THEN "ie" ELSE "none"

-----------------------------------------------------------------------------
(***************************************************************************)
(* The scan.  l is the state of the linker it changes: [sym, got, rela,    *)
(* count].                                                                 *)
(***************************************************************************)
\* ld_reloc_create_entry, in the internal section sec.
CreateEntry(l, sec, t, n, off, addend) ==
    [l EXCEPT !.rela[sec] = Append(@, [type |-> t, sym |-> n, off |-> off, addend |-> addend]),
              !.count = IF t = "RELATIVE" THEN @ + 1 ELSE @,
              !.sym[n].rel = @ \/ t # "RELATIVE"]

ReserveGot(l, n, num) == [l EXCEPT !.sym[n].got = l.got.got, !.got.got = @ + num]

ReservePlt(l, n) ==
    IF l.sym[n].plt THEN l
    ELSE LET slot == [l EXCEPT !.got.gotplt = @ + 1, !.got.plt = @ + 1, !.sym[n].plt = TRUE]
         IN  CreateEntry(slot, "plt", "JUMP_SLOT", n, 0, 0)

\* ld_dynamic_reserve_dynbss_entry: the symbol is the output's from now on.
CreateCopy(l, n) ==
    LET moved == [l EXCEPT !.sym[n].value = l.got.dynbss, !.sym[n].home = "copy", !.got.dynbss = @ + 1]
    IN  CreateEntry(moved, "bss", "COPY", n, BssAddr + l.got.dynbss, 0)

Scanned(l, warned) == [l |-> l, warned |-> warned]

ScanAbsolute(l, n, t, place) ==
    LET s == l.sym[n]
        plt == IF RequirePlt(s) THEN [ReservePlt(l, n) EXCEPT !.sym[n].addr = TRUE] ELSE l
    IN  IF ~Global(s)
        THEN IF ~Pic THEN Scanned(l, FALSE)
             ELSE IF t = "64" THEN Scanned(CreateEntry(l, "data", "RELATIVE", n, place, 0), FALSE)
             ELSE Scanned(l, TRUE)
        ELSE IF RequireCopy(s) THEN Scanned(CreateCopy(plt, n), FALSE)
        ELSE IF ~RequireDynamic(s, t) THEN Scanned(plt, FALSE)
        ELSE IF t # "64" THEN Scanned(plt, TRUE)
        ELSE Scanned(CreateEntry(plt, "data", IF RelativeRelax(s) THEN "RELATIVE" ELSE "64", n, place, 0), FALSE)

ScanRelative(l, n) ==
    LET s == l.sym[n]
        plt == IF RequirePlt(s) THEN ReservePlt(l, n) ELSE l
    IN  IF ~Global(s) THEN Scanned(l, FALSE)
        ELSE IF RequireCopy(s) THEN Scanned(CreateCopy(plt, n), FALSE)
        ELSE Scanned(plt, RequireDynamic(s, "PC32"))

\* The type may be relaxed: see RelaxPlt.
ScanPlt(l, n) == IF RequirePlt(l.sym[n]) /\ Global(l.sym[n]) THEN Scanned(ReservePlt(l, n), FALSE)
                 ELSE Scanned(l, FALSE)

ScanGot(l, n) ==
    LET s == l.sym[n]
        t == IF RequireGlobDat(s) THEN "GLOB_DAT" ELSE "RELATIVE"
    IN  IF s.got # None THEN Scanned(l, FALSE)
        ELSE Scanned(CreateEntry(ReserveGot(l, n, 1), "got", t, n, GotAddr + l.got.got, 0), FALSE)

GotRelocs(l, n, num, types) ==
    IF l.sym[n].got # None THEN l
    ELSE FoldLeft(LAMBDA a, k : CreateEntry(a, "got", types[k], n, GotAddr + l.got.got + k - 1, 0),
                  ReserveGot(l, n, num), [k \in DOMAIN types |-> k])

TlsGd(l, n) == GotRelocs(l, n, 2, <<"DTPMOD64", "DTPOFF64">>)
TlsIe(l, n) == GotRelocs(l, n, 1, <<"TPOFF64">>)
TlsLd(l, n) == IF l.sym[n].got # None THEN l
               ELSE [GotRelocs(l, n, 2, <<"DTPMOD64">>) EXCEPT !.sym[n].ld = TRUE]

ScanTls(l, n, t) ==
    LET r == TlsRelax(l.sym[n], t)
    IN  Scanned(CASE r = "le" -> l
                  [] t = "TLSGD" /\ r = "none" -> TlsGd(l, n)
                  [] t = "TLSGD" /\ r = "ie" -> TlsIe(l, n)
                  [] t = "TLSLD" -> TlsLd(l, n)
                  [] t = "GOTTPOFF" -> TlsIe(l, n), FALSE)

ScanReloc(l, n, t, place) ==
    CASE t \in Absolute -> ScanAbsolute(l, n, t, place)
      [] t = "PLT32" -> ScanPlt(l, n)
      [] t = "PC32" -> ScanRelative(l, n)
      [] t = "GOTPCREL" -> ScanGot(l, n)
      [] OTHER -> ScanTls(l, n, t)

RelaxPlt(s, t) == IF t = "PLT32" /\ (~Global(s) \/ ~RequirePlt(s)) THEN "PC32" ELSE t

DataRefs == {"64", "32", "PC32", "PLT32", "GOTPCREL"}
TlsRefs == {"TLSGD", "TLSLD", "GOTTPOFF"}

RelocInit ==
    /\ output \in Outputs /\ phase = "scan"
    /\ \E k \in [SymbolIds -> Kinds] :
          /\ \A n \in SymbolIds : k[n].home = "dso" => output.dynamic
          /\ \A n \in SymbolIds : k[n].home = "none" => k[n].bind = "weak" \/ output.kind = "dso"
          /\ sym = [n \in SymbolIds |-> NewSymbol(k[n])]
    /\ refs = <<>> /\ dynsym = <<>> /\ dyn = <<>> /\ image = <<>> /\ count = 0
    /\ got = [got |-> 0, gotplt |-> 3, plt |-> 1, dynbss |-> 0]
    /\ rela = [data |-> <<>>, got |-> <<>>, bss |-> <<>>, plt |-> <<>>]

Scan == \E n \in SymbolIds, t \in DataRefs \cup TlsRefs :
    LET r == ScanReloc([sym |-> sym, got |-> got, rela |-> rela, count |-> count], n, t, Place(Len(refs) + 1))
    IN  /\ phase = "scan" /\ Len(refs) < MaxRefs
        /\ (t \in TlsRefs) = (sym[n].type = "tls")
        /\ t = "PLT32" => sym[n].type = "func"
        /\ sym' = r.l.sym /\ got' = r.l.got /\ rela' = r.l.rela /\ count' = r.l.count
        /\ refs' = Append(refs, [sym |-> n, type |-> RelaxPlt(sym[n], t), warned |-> r.warned])
        /\ UNCHANGED <<output, phase, dynsym, dyn, image>>

-----------------------------------------------------------------------------
(***************************************************************************)
(* ld_symbols_scan: the symbols the dynamic linker must know.              *)
(***************************************************************************)
Referenced(n) == \E i \in DOMAIN refs : refs[i].sym = n

Imported(n) == InDso(sym[n]) /\ Referenced(n)
MadeDynamic(n) == /\ output.dynamic /\ Global(sym[n])
              /\ \/ Imported(n)
                 \/ sym[n].rel
                 \/ Dso /\ sym[n].home = "regular" /\ sym[n].vis = "default"

SymbolsScan ==
    /\ phase = "scan" /\ phase' = "layout"
    /\ dynsym' = SetToSortSeq({n \in SymbolIds : MadeDynamic(n)}, <)
    /\ sym' = [n \in SymbolIds |-> [sym[n] EXCEPT !.import = output.dynamic /\ Global(sym[n]) /\ Imported(n),
                                                !.index = Cardinality({m \in SymbolIds : m <= n /\ MadeDynamic(m)})
                                                              * (IF MadeDynamic(n) THEN 1 ELSE 0)]]
    /\ UNCHANGED <<output, refs, got, rela, count, dyn, image>>

-----------------------------------------------------------------------------
(***************************************************************************)
(* After the layout: ld_symbols_update, finalize_got_and_plt, the dynamic  *)
(* relocations and the symbol tables.                                      *)
(***************************************************************************)
\* _update_symbol.
Updated(n) == CASE sym[n].home = "regular" -> Home(n)
                [] sym[n].home = "copy" -> BssAddr + sym[n].value
                [] OTHER -> 0

PltOff(n) == LET k == SelectInSeq(rela.plt, LAMBDA e : e.sym = n) IN IF k = 0 THEN 0 ELSE PltAddr + k

\* build_symtab and finalize_dynsym: what an imported symbol is worth.
SymbolValue(s, pltoff, v) == IF ~s.import THEN v ELSE IF s.type = "func" /\ s.addr THEN pltoff ELSE 0

TypeNumber == [RELATIVE |-> 8, COPY |-> 5, GLOB_DAT |-> 6, DTPMOD64 |-> 16, DTPOFF64 |-> 17, TPOFF64 |-> 18]
              @@ ("64" :> 1)

\* _cmp_reloc.
Sooner(a, b) ==
    IF a.type = "RELATIVE" \/ b.type = "RELATIVE"
    THEN a.type = "RELATIVE" /\ (b.type # "RELATIVE" \/ a.off < b.off)
    ELSE \/ sym[a.sym].index < sym[b.sym].index
         \/ sym[a.sym].index = sym[b.sym].index /\ TypeNumber[a.type] < TypeNumber[b.type]

\* finalize_reloc: some relocations lose their symbol.
NoSymbol == 0
FinalizeReloc_Early(e) == IF e.type = "RELATIVE" THEN [e EXCEPT !.addend = @ + sym[e.sym].value, !.sym = NoSymbol] ELSE e
FinalizeReloc(e) ==
    CASE e.type = "RELATIVE" -> [e EXCEPT !.addend = @ + Updated(e.sym), !.sym = NoSymbol]
      [] e.type = "DTPMOD64" /\ sym[e.sym].ld -> [e EXCEPT !.sym = NoSymbol]
      [] OTHER -> e

\* .rela.plt: the entries are in the order of the PLT.
JumpSlot(k) == [rela.plt[k] EXCEPT !.off = GotPltAddr + 2 + k]

GotFilled == {e \in ToSet(rela.got) : e.type = "RELATIVE"}

Finalize ==
    /\ phase = "layout" /\ phase' = "finalized"
    /\ LET joined == SortSeq(rela.data \o rela.got \o rela.bss, Sooner)
       IN  dyn' = [i \in DOMAIN joined |-> FinalizeReloc(joined[i])]
    /\ rela' = [rela EXCEPT !.plt = [k \in DOMAIN @ |-> JumpSlot(k)]]
    /\ image' = [a \in {GotAddr + sym[e.sym].got : e \in GotFilled} |->
                    LET e == CHOOSE e \in GotFilled : GotAddr + sym[e.sym].got = a IN Updated(e.sym)]
                @@ [a \in {GotPltAddr + 2 + k : k \in DOMAIN rela.plt} |-> PltAddr + a - GotPltAddr - 2]
                @@ [a \in {PltAddr + k : k \in DOMAIN rela.plt} |->
                       [slot |-> GotPltAddr + 2 + a - PltAddr, push |-> a - PltAddr - 1]]
    /\ sym' = [n \in SymbolIds |-> [sym[n] EXCEPT !.pltoff = PltOff(n),
                                                !.value = SymbolValue(sym[n], PltOff(n), Updated(n))]]
    /\ UNCHANGED <<output, refs, got, count, dynsym>>

(***************************************************************************)
(* _process_reloc.  A PC-relative reference is written as what it refers   *)
(* to.  A reference relaxed to Local Exec becomes code that needs no word; *)
(* but for a relaxed Local Dynamic one, whose code is constant, it divides *)
(* by lo_tls_align, which is 0 until the program headers are made: the     *)
(* linker stops.                                                           *)
(***************************************************************************)
LocalExec(r) == r.type \in TlsRefs /\ TlsRelax(sym[r.sym], r.type) = "le"

Target(r) ==
    LET s == sym[r.sym]
    IN  CASE r.type \in Absolute -> s.value
          [] r.type = "PC32" -> IF s.plt THEN s.pltoff ELSE s.value
          [] r.type = "PLT32" -> s.pltoff
          [] OTHER -> GotAddr + s.got

Process ==
    /\ phase = "finalized"
    /\ IF \E i \in DOMAIN refs : LocalExec(refs[i]) /\ refs[i].type # "TLSLD"
       THEN phase' = "stopped" /\ UNCHANGED image
       ELSE /\ phase' = "done"
            /\ image' = [a \in {Place(i) : i \in {j \in DOMAIN refs : ~LocalExec(refs[j])}} |->
                            Target(refs[a - PlaceAddr])] @@ image
    /\ UNCHANGED <<output, sym, refs, got, rela, count, dynsym, dyn>>

RelocNext == Scan \/ SymbolsScan \/ Finalize \/ Process

RelocSpec == RelocInit /\ [][RelocNext]_relocVars

-----------------------------------------------------------------------------
(***************************************************************************)
(* What the dynamic linker makes of the output.  pre are symbols of a      *)
(* shared object that the program defines too.                             *)
(***************************************************************************)
Base == IF Exec THEN 0 ELSE 1000
Elsewhere(n) == 9000 + n

Definition(n, pre) ==
    IF n \in pre \/ InDso(sym[n]) \/ (Undefined(sym[n]) /\ Dso) THEN Elsewhere(n)
    ELSE IF Undefined(sym[n]) THEN 0
    ELSE Base + sym[n].value

\* A function whose address the program takes has the address of its PLT entry everywhere.
Canonical(n, pre) == IF sym[n].import /\ sym[n].value # 0 THEN Base + sym[n].value ELSE Definition(n, pre)

Lookup(n, pre) == IF n = NoSymbol \/ sym[n].index = 0 THEN None ELSE Canonical(n, pre)

Applied(e, pre) ==
    CASE e.type = "RELATIVE" -> Base + e.addend
      [] e.type \in {"64", "GLOB_DAT"} -> Lookup(e.sym, pre)
      [] OTHER -> <<e.type, e.sym>>

Loaded(a, pre) ==
    LET here == {i \in DOMAIN dyn : dyn[i].off = a /\ dyn[i].type # "COPY"}
    IN  IF output.dynamic /\ here # {} THEN Applied(dyn[CHOOSE i \in here : TRUE], pre)
        ELSE IF a \in DOMAIN image THEN image[a] ELSE 0

\* A call to a PLT entry goes to the symbol of the relocation whose index the entry pushes.
Called(a, pre) ==
    IF a \notin PltAddr + 1..PltAddr + Len(rela.plt) THEN IF a = 0 THEN 0 ELSE Base + a
    ELSE LET e == rela.plt[image[a].push + 1]
         IN  IF e.off # image[a].slot THEN None ELSE Definition(e.sym, pre)

(***************************************************************************)
(* Every reference reaches the symbol it names once the dynamic linker has *)
(* done what it was told, whichever references to the symbol came before,  *)
(* and it was told how many RELATIVE relocations come first, which it does *)
(* not look at any closer (amd64.c:553, 828, ld_reloc.c:507, 585, 652).    *)
(***************************************************************************)
Reaches(r, i, pre) ==
    LET n == r.sym
    IN  CASE r.type \in {"PC32", "PLT32"} -> Called(image[Place(i)], pre) = Definition(n, pre)
          [] r.type \in Absolute -> Loaded(Place(i), pre) = Canonical(n, pre)
          [] r.type = "GOTPCREL" -> Loaded(image[Place(i)], pre) = Canonical(n, pre)
          [] r.type = "GOTTPOFF" -> Loaded(image[Place(i)], pre) = <<"TPOFF64", n>>
          [] r.type = "TLSLD" -> Loaded(image[Place(i)], pre) = <<"DTPMOD64", NoSymbol>>
          [] TlsRelax(sym[n], r.type) = "ie" -> Loaded(image[Place(i)], pre) = <<"TPOFF64", n>>
          [] OTHER -> /\ Loaded(image[Place(i)], pre) = <<"DTPMOD64", n>>
                      /\ Loaded(image[Place(i)] + 1, pre) = <<"DTPOFF64", n>>

\* References the linker does not promise, or does not get right: see the README.
Unsupported(r) ==
    LET s == sym[r.sym]
    IN  \/ r.warned
        \/ Pic /\ InDso(s) /\ (r.type \in Absolute \/ (r.type = "PC32" /\ ~s.plt))
        \/ output.kind = "pie" /\ Undefined(s) /\ r.type # "GOTPCREL"
        \/ ~Global(s) /\ Dso /\ r.type \in {"GOTPCREL", "TLSGD", "GOTTPOFF"}
        \/ s.type = "tls" /\ \E i \in DOMAIN refs : refs[i].sym = r.sym /\ refs[i].type # r.type

RefsReach == phase = "done" =>
    /\ \A i \in DOMAIN dyn : (dyn[i].type = "RELATIVE") = (i <= count)
    /\ \A i \in DOMAIN refs : \A pre \in SUBSET {n \in SymbolIds : Overridden(sym[n]) /\ Global(sym[n])} :
           LocalExec(refs[i]) \/ Unsupported(refs[i]) \/ Reaches(refs[i], i, pre)

(***************************************************************************)
(* "If the symbol is defined in a DSO, we create specific dynamic          *)
(* relocations when we create PLT, GOT or copy reloc" (ld_reloc.c:743).    *)
(***************************************************************************)
DsoReferencesRelocated == phase = "done" =>
    \A i \in DOMAIN refs : LET s == sym[refs[i].sym]
                           IN  InDso(s) /\ ~refs[i].warned => s.rel
=============================================================================
