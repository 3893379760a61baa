---------------------------- MODULE LdResolve ----------------------------
(***************************************************************************)
(* The symbol table of ld(1) under any sequence of symbols: the options    *)
(* and the linker script first, then the symbols of the input files, then  *)
(* those the linker makes for the output.                                  *)
(***************************************************************************)
EXTENDS LdSymbols

CONSTANT MaxSymbols     \* bound on the number of symbols

VARIABLES ld,       \* the symbols and the symbol table
          stage     \* "options", then "load", then "output"

vars == <<ld, stage>>

Init == ld = NoSymbols /\ stage = "options"

Running == ld.fatal = "none" /\ Len(ld.lsb) < MaxSymbols

\* The option -u and the script command EXTERN.
Extern(n) ==
    /\ Running /\ stage = "options"
    /\ Find(ld, <<n, Unversioned>>) = {}
    /\ ld' = AddExtern(ld, n)
    /\ UNCHANGED stage

\* ld_script_assign makes a symbol for the first assignment to a name.
Variable(n, provide) ==
    /\ Running /\ stage = "options"
    /\ \A i \in 1..Len(ld.lsb) : ~(ld.lsb[i].name = n /\ ld.lsb[i].shndx = "def")
    /\ ld' = AddVariable(ld, n, provide)
    /\ UNCHANGED stage

Internal(n) ==
    /\ Running
    /\ ld' = AddInternal(ld, n)
    /\ stage' = "output"

\* What the symbol tables of the input files hold.
RegularSymbols(n) ==
    LET s == NewSymbol(n) IN
    {s, [s EXCEPT !.type = "tls"]}
    \cup {[s EXCEPT !.shndx = "common", !.size = z] : z \in Sizes}
    \cup {[s EXCEPT !.shndx = "def", !.bind = b] : b \in {"global", "weak"}}

DsoSymbols(n) ==
    LET d == [NewSymbol(n) EXCEPT !.dso = TRUE] IN
    {[d EXCEPT !.ver = v] : v \in Versions \cup {Unversioned}}
    \cup {[d EXCEPT !.shndx = "common", !.size = z] : z \in Sizes}
    \cup {[d EXCEPT !.shndx = "def", !.ver = v, !.type = t] :
            v \in Versions \cup {Unversioned}, t \in {"object", "func"}}

Regular(n) ==
    /\ Running /\ stage # "output"
    /\ \E s \in RegularSymbols(n) : ld' = AddElfSymbol(ld, s, FALSE)
    /\ stage' = "load"

\* In a library that is well formed a default version has a name.
Dso(n) ==
    /\ Running /\ stage # "output"
    /\ \E s \in DsoSymbols(n), dflt \in BOOLEAN :
            /\ dflt => s.ver # Unversioned
            /\ ld' = AddElfSymbol(ld, s, dflt)
    /\ stage' = "load"

Next == \E n \in Names :
            \/ Extern(n)
            \/ \E provide \in BOOLEAN : Variable(n, provide)
            \/ Regular(n)
            \/ Dso(n)
            \/ Internal(n)

Spec == Init /\ [][Next]_vars

--------------------------------------------------------------------------
\* Every variable has its type.
TypeOK ==
    /\ ld.lsb \in Seq(Symbol)
    /\ ld.sym \subseteq 1..Len(ld.lsb)
    /\ ld.defver \in [Names -> Versions \cup {Unversioned}]
    /\ ld.fatal \in {"none", "tls", "multiple", "assert"}
    /\ stage \in {"options", "load", "output"}

Stopped == ld.fatal # "none"
Symbols == 1..Len(ld.lsb)

\* The table never holds two symbols with the same key: a lookup would find only
\* the one added last and the references to the other would be lost
\* (_resolve_and_add_symbol, _add_symbol).
KeysUnique ==
    \A i, j \in ld.sym :
        Longname(ld.lsb[i]) = Longname(ld.lsb[j]) => i = j

\* However symbols were replaced, following lsb_ref from any of them ends at a
\* symbol of the table, so every relocation has a target that is laid out and
\* written (ld_symbols_ref, _resolve_symbol).
ChainsEndInTable == ~Stopped => \A i \in Symbols : Ref(ld, i) \in ld.sym

\* The symbol that is kept knows whether a regular object or a DSO refers to any
\* of the symbols it stands for; ld_symbols_scan decides from these flags what
\* is imported and exported.
KeptKnowsReferences ==
    ~Stopped => \A i \in Symbols :
        LET r == Ref(ld, i) IN
        /\ ld.lsb[i].ref_ndso => ld.lsb[r].ref_ndso
        /\ ld.lsb[i].ref_dso => ld.lsb[r].ref_dso

\* References that reach the same symbol go on doing so when that symbol is
\* replaced, each with the symbol it reached: _resolve_symbol relinks the middle
\* of a chain, and a wrong link would split the references to one name.
BoundStaysBound ==
    [][ld'.fatal = "none" =>
        \A i \in Symbols : Ref(ld', i) = Ref(ld', Ref(ld, i))]_vars

\* "We always pick the symbol already in the table" when that is a definition
\* and the new one is a definition of a DSO (ld_symbols.c:846): a definition in
\* a regular object never gives way to a shared library.
RegularDefinitionKept ==
    [][ld'.fatal = "none" =>
        \A i \in ld.sym :
            (ld.lsb[i].shndx = "def" /\ ~ld.lsb[i].dso) =>
                ~ld'.lsb[Ref(ld', i)].dso]_vars

\* "The size of the symbol we decided to keep is set to the larger one of the
\* two" (ld_symbols.c:728): every common symbol of a regular object fits in the
\* common symbol that stands for it.
CommonBigEnough ==
    ~Stopped => \A i \in Symbols :
        LET s == ld.lsb[i]
            r == ld.lsb[Ref(ld, i)]
        IN  s.shndx = "common" /\ ~s.dso /\ r.shndx = "common" =>
                s.size =< r.size

\* A reference without a version and one with a version, both undefined, may be
\* the same symbol: "We will solve that when we see the definition"
\* (ld_symbols.c:685).  They reach the same symbol once a DSO has defined the
\* version as the default one.
JoinedAtDefinition ==
    [][ld'.fatal = "none" =>
        \A i, j \in ld.sym :
            /\ ld.lsb[i].name = ld.lsb[j].name
            /\ ld.lsb[i].shndx = "undef" /\ ld.lsb[j].shndx = "undef"
            /\ ld.lsb[i].ver = Unversioned
            /\ ld.lsb[j].ver = ld'.defver[ld.lsb[j].name]
            => Ref(ld', i) = Ref(ld', j)]_vars

\* A strong definition in a regular object is what every reference to its name
\* reaches, in whatever order the inputs come (ld_symbols.c:786-808), as long as
\* no shared library gives the name a default version.
StrongDefinitionWins ==
    ~Stopped => \A i \in Symbols :
        LET s == ld.lsb[i]
            r == ld.lsb[Ref(ld, i)]
        IN  /\ s.shndx = "def" /\ ~s.dso /\ s.bind = "global" /\ ~s.provide
            /\ ld.defver[s.name] = Unversioned
            => r.shndx = "def" /\ ~r.dso /\ r.bind # "weak" /\ ~r.provide

\* Resolution never resolves a symbol to itself (the assertion in
\* _resolve_symbol, ld_symbols.c:71).
NeverItself == ld.fatal # "assert"

=============================================================================
