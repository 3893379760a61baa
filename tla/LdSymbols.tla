---------------------------- MODULE LdSymbols ----------------------------
(***************************************************************************)
(* Symbol resolution in ld(1), ld/ld_symbols.c.                            *)
(*                                                                         *)
(* Every symbol of every input file, every variable of the linker script   *)
(* and every symbol the linker makes itself becomes a struct ld_symbol.    *)
(* The global ones go through _resolve_and_add_symbol: at most one stays   *)
(* in the hash table ld_sym, the others are chained to it by lsb_ref, and  *)
(* every relocation reaches its target by following that chain.            *)
(*                                                                         *)
(* The operators here map one state of the symbol table to the next.  A    *)
(* state is a record: lsb is the sequence of all symbols, in the order     *)
(* they arrive, sym the indices of those in the table, defver the default  *)
(* version of each name, fatal why the linker stopped.  LdResolve applies  *)
(* them to any sequence of symbols, LdLoad to the objects of a link.       *)
(***************************************************************************)
EXTENDS Integers, Sequences, FiniteSets

CONSTANTS Names,        \* symbol names
          Versions,     \* symbol versions
          Sizes         \* sizes of common symbols

Unversioned == "unversioned"
Nameless == "nameless"

ASSUME ConstantsAssumption ==
    Unversioned \notin Versions /\ Nameless \notin Versions /\ Sizes \subseteq Nat

(***************************************************************************)
(* Symbols.  A key of the hash table is a name with a version (lsb_longname)*)
(***************************************************************************)
Symbol == [name : Names, ver : Versions \cup {Unversioned},
           shndx : {"undef", "common", "def"}, dso : BOOLEAN,
           bind : {"local", "global", "weak"}, type : {"object", "func", "tls"},
           size : Sizes \cup {0}, provide : BOOLEAN,
           ref_dso : BOOLEAN, ref_ndso : BOOLEAN, prev : Nat, ref : Nat]

NewSymbol(n) == [name |-> n, ver |-> Unversioned, shndx |-> "undef",
                 dso |-> FALSE, bind |-> "global", type |-> "object",
                 size |-> 0, provide |-> FALSE, ref_dso |-> FALSE,
                 ref_ndso |-> FALSE, prev |-> 0, ref |-> 0]

Longname(s) == <<s.name, s.ver>>

Find(l, key) == {i \in l.sym : Longname(l.lsb[i]) = key}

\* ld_symbols_ref: the end of the chain of symbol i.
Ref(l, i) ==
    LET walk[k \in 0..Len(l.lsb)] ==
            IF k = 0 THEN i
            ELSE LET j == walk[k - 1] IN
                 IF l.lsb[j].ref = 0 THEN j ELSE l.lsb[j].ref
    IN  walk[Len(l.lsb)]

\* The macro _resolve_symbol: o resolves to s.
ResolveSymbol(l, o, s) ==
    IF o = s THEN [l EXCEPT !.fatal = "assert"]
    ELSE LET p == l.lsb[s].prev
             joined == [l.lsb EXCEPT ![s].ref_dso = @ \/ l.lsb[o].ref_dso,
                                     ![s].ref_ndso = @ \/ l.lsb[o].ref_ndso,
                                     ![s].prev = o,
                                     ![o].ref = s]
         IN  [l EXCEPT !.lsb = IF p = 0 THEN joined
                               ELSE [joined EXCEPT ![p].ref = o, ![o].prev = p]]

Delete_Never(l, i) == l
Delete(l, i) == [l EXCEPT !.sym = @ \ {i}]

PreferNew(l, o, s) ==
    LET r == ResolveSymbol(l, o, s)
    IN  [Delete(r, o) EXCEPT !.sym = @ \cup {s}]

PreferOld(l, o, s) == ResolveSymbol(l, s, o)

(***************************************************************************)
(* _resolve_and_add_symbol.  Match finds the symbol of the table that the  *)
(* new one is the same as: the one with its key or, when a default version *)
(* is known for the name, the one the default version identifies with it.  *)
(***************************************************************************)
Match(l, s) ==
    LET dv == l.defver[s.name]
    IN  IF Find(l, Longname(s)) # {} THEN Find(l, Longname(s))
        ELSE IF dv = Unversioned THEN {}
        ELSE IF s.ver = Unversioned THEN Find(l, <<s.name, dv>>)
        ELSE IF s.ver = dv THEN Find(l, <<s.name, Unversioned>>)
        ELSE {}

\* Two definitions of regular objects neither of which gives way.
MultiplyDefined(o, s) ==
    /\ s.shndx = "def" /\ ~s.dso
    /\ o.shndx = "def" /\ ~o.dso
    /\ ~(o.provide /\ ~s.provide)
    /\ s.bind = o.bind /\ s.bind # "weak"

KeepNew_Binding(o, s) ==
    \/ s.shndx # "undef" /\ o.shndx = "undef"
    \/ s.shndx = "def" /\ s.bind # "weak" /\ (o.shndx # "def" \/ o.bind = "weak")

\* Whether the new symbol s takes the place of o, the one in the table.
KeepNew(o, s) ==
    \/ /\ s.shndx = "common" /\ ~s.dso
       /\ o.shndx = "undef" \/ o.dso
    \/ /\ s.shndx = "common" /\ s.dso
       /\ o.shndx = "undef"
    \/ /\ s.shndx = "def" /\ ~s.dso
       /\ \/ o.shndx # "def"
          \/ o.dso
          \/ o.provide /\ ~s.provide
          \/ s.bind # o.bind /\ s.bind # "weak"
    \/ /\ s.shndx = "def" /\ s.dso
       /\ \/ o.shndx = "undef"
          \/ o.shndx = "common" /\ (o.dso \/ s.type # "func")

BothCommon(o, s) == o.shndx = "common" /\ s.shndx = "common"

Larger(a, b) == IF a > b THEN a ELSE b

JoinUnversioned_Never(l, s) == l

\* A definition of a DSO that has taken the place of another symbol also takes
\* that of the symbol without a version, when its name has a default version.
JoinUnversioned(l, s) ==
    LET plain == Find(l, <<l.lsb[s].name, Unversioned>>)
    IN  IF l.defver[l.lsb[s].name] = Unversioned \/ plain = {} THEN l
        ELSE LET o == CHOOSE i \in plain : TRUE
             IN  IF o = s THEN ResolveSymbol(l, o, s)
                 ELSE Delete(ResolveSymbol(l, o, s), o)

\* o, in the table, and s, just read, are the same symbol.
Settle(l, o, s) ==
    LET old == l.lsb[o]
        new == l.lsb[s]
        size == IF BothCommon(old, new) THEN Larger(old.size, new.size) ELSE 0
    IN  IF (old.type = "tls") # (new.type = "tls")
        THEN [l EXCEPT !.fatal = "tls"]
        ELSE IF MultiplyDefined(old, new)
        THEN [l EXCEPT !.fatal = "multiple"]
        ELSE IF KeepNew(old, new)
        THEN LET r == PreferNew(l, o, s)
             IN  IF new.shndx = "def" /\ new.dso THEN JoinUnversioned(r, s)
                 ELSE IF BothCommon(old, new)
                 THEN [r EXCEPT !.lsb[s].size = size]
                 ELSE r
        ELSE LET r == PreferOld(l, o, s)
             IN  IF BothCommon(old, new)
                 THEN [r EXCEPT !.lsb[o].size = size]
                 ELSE r

ResolveAndAdd(l, s) ==
    LET n == Len(l.lsb) + 1
        l1 == [l EXCEPT !.lsb = Append(@, s)]
        m == Match(l, s)
    IN  IF m = {} THEN [l1 EXCEPT !.sym = @ \cup {n}]
        ELSE Settle(l1, CHOOSE o \in m : TRUE, n)

\* _add_elf_symbol: a global symbol s of an input object; dflt when its version
\* index makes a definition the default version of its name.  A library whose
\* index has no name gives the name a default version that is Nameless.
AddElfSymbol(l, s, dflt) ==
    LET v == IF s.ver = Unversioned THEN Nameless ELSE s.ver
        l1 == IF dflt /\ s.shndx # "undef" THEN [l EXCEPT !.defver[s.name] = v] ELSE l
    IN  ResolveAndAdd(l1, [s EXCEPT !.ref_dso = s.dso, !.ref_ndso = ~s.dso])

\* ld_symbols_add_extern: the option -u and the script command EXTERN.
AddExtern(l, n) ==
    IF Find(l, <<n, Unversioned>>) # {} THEN l
    ELSE [l EXCEPT !.lsb = Append(@, [NewSymbol(n) EXCEPT !.bind = "local"]),
                   !.sym = @ \cup {Len(l.lsb) + 1}]

\* ld_symbols_add_variable: an assignment of the linker script.
AddVariable(l, n, provide) ==
    ResolveAndAdd(l, [NewSymbol(n) EXCEPT !.shndx = "def", !.provide = provide,
                                          !.ref_ndso = TRUE])

\* ld_symbols_add_internal: _DYNAMIC, _GLOBAL_OFFSET_TABLE_.
AddInternal(l, n) ==
    ResolveAndAdd(l, [NewSymbol(n) EXCEPT !.shndx = "def", !.bind = "local",
                                          !.ref_ndso = TRUE])

NoSymbols == [lsb |-> <<>>, sym |-> {},
              defver |-> [n \in Names |-> Unversioned], fatal |-> "none"]
=============================================================================
