----------------------------- MODULE LdVersions -----------------------------
(***************************************************************************)
(* Symbol versions in ld(1): ld_symver.c, ld_hash.c and what ld_symbols.c, *)
(* ld_dynamic.c and ld_script.c do for them.                               *)
(*                                                                         *)
(* A link reads the version sections of the shared objects it is given,    *)
(* chooses the dynamic symbols, and writes the version sections and the    *)
(* hash table of its own output, which a later link may be given.  The     *)
(* behaviour is a sequence of links.  A version section is the sequence of *)
(* its records, and the offsets in it count records.  Symbols are resolved *)
(* as in LdSymbols.                                                        *)
(***************************************************************************)
EXTENDS Integers, Sequences, FiniteSets, TLC

LOCAL INSTANCE SequencesExt

CONSTANTS
    SymbolNames, VersionNames,
    HashOf,         \* elf_hash of each symbol name
    FirstFile,      \* a shared object that another linker made
    LinkJobs        \* for each link, the jobs it may be

VARIABLES
    files,          \* the shared objects and programs made so far
    job,            \* the link at work
    table,          \* its symbols
    from,           \* for each of them the library it came from, 0 for an object
    verdefs,        \* for each library, the versions it defines (li_verdef)
    dynsyms,        \* the dynamic symbols, in order
    vd,             \* for each symbol, which of verdefs it is bound to (lsb_vd)
    sections,       \* the sections made so far
    stage

versionVars == <<files, job, table, from, verdefs, dynsyms, vd, sections, stage>>

Table == INSTANCE LdSymbols WITH Names <- SymbolNames, Versions <- VersionNames, Sizes <- {}

NoVersion == Table!Unversioned
Lib(k) == files[job.libs[k]]

-----------------------------------------------------------------------------
(***************************************************************************)
(* Version scripts.  A node is its name, "" when it is omitted, the one it *)
(* depends on, and its text: "global", "local", patterns and the texts of  *)
(* extern blocks.                                                          *)
(***************************************************************************)
Node(name, dep, text) == [name |-> name, dep |-> dep, text |-> text]
Pattern(names, glob) == [what |-> "pattern", names |-> names, glob |-> glob]
Label(l) == [what |-> l]
Block(text) == [what |-> "extern", text |-> text]

\* ls_version_local is one for all, and a block ends with it cleared.
RECURSIVE VersionEntries(_, _)
VersionEntries(text, local) ==
    IF text = <<>> THEN <<>>
    ELSE LET t == Head(text) IN
         CASE t.what \in {"global", "local"} -> VersionEntries(Tail(text), t.what = "local")
           [] t.what = "extern" -> VersionEntries(t.text, local) \o VersionEntries(Tail(text), FALSE)
           [] t.what = "pattern" -> <<[names |-> t.names, glob |-> t.glob, local |-> local]>>
                                        \o VersionEntries(Tail(text), local)

\* ld_script_version_add_node: only the first node may have no name.
ScriptRefused(script) == \E k \in DOMAIN script : script[k].name = "" /\ k > 1

IndexFor(script, k, e) ==
    IF e.local THEN 0
    ELSE IF script[k].name = "" THEN 1
    ELSE 2 + Cardinality({m \in 1..(k - 1) : script[m].name # ""})

\* The entries that match a name, in order.
Matches(script, n) ==
    LET of(k) == LET es == SelectSeq(VersionEntries(script[k].text, FALSE), LAMBDA e : n \in e.names)
                 IN [i \in DOMAIN es |-> [glob |-> es[i].glob, ndx |-> IndexFor(script, k, es[i])]]
    IN FlattenSeq([k \in DOMAIN script |-> of(k)])

\* Mutant: the first entry that matches, a glob or not.
SearchVersionScript_First(script, n) ==
    IF Matches(script, n) = <<>> THEN 1 ELSE Head(Matches(script, n)).ndx

\* ld_symver_search_version_script: an exact match is preferred to a glob.
SearchVersionScript(script, n) ==
    LET exact == SelectSeq(Matches(script, n), LAMBDA m : ~m.glob)
        globs == SelectSeq(Matches(script, n), LAMBDA m : m.glob)
    IN IF exact # <<>> THEN Head(exact).ndx ELSE IF globs # <<>> THEN Head(globs).ndx ELSE 1

-----------------------------------------------------------------------------
(***************************************************************************)
(* Reading the version sections of a library.                              *)
(***************************************************************************)
\* The names of up to n auxiliary records from position p.
RECURSIVE DefNames(_, _, _)
DefNames(sec, p, n) ==
    IF n = 0 \/ p > Len(sec) THEN <<>>
    ELSE <<sec[p].name>> \o IF sec[p].next = 0 THEN <<>> ELSE DefNames(sec, p + sec[p].next, n - 1)

\* _load_verdef_section.
RECURSIVE LoadVerdef(_, _)
LoadVerdef(sec, p) ==
    IF p > Len(sec) THEN <<>>
    ELSE <<[ndx |-> sec[p].ndx, flags |-> sec[p].flags, names |-> DefNames(sec, p + sec[p].aux, sec[p].cnt),
            ref |-> 0, out |-> 0]>>
         \o IF sec[p].next = 0 THEN <<>> ELSE LoadVerdef(sec, p + sec[p].next)

RECURSIVE NeedNames(_, _, _)
NeedNames(sec, p, n) ==
    IF n = 0 \/ p > Len(sec) THEN <<>>
    ELSE <<[ndx |-> sec[p].other, name |-> sec[p].name]>> \o NeedNames(sec, p + sec[p].next, n - 1)

\* _load_verneed_section.
RECURSIVE LoadVerneed(_, _)
LoadVerneed(sec, p) ==
    IF p > Len(sec) THEN <<>>
    ELSE NeedNames(sec, p + sec[p].aux, sec[p].cnt)
         \o IF sec[p].next = 0 THEN <<>> ELSE LoadVerneed(sec, p + sec[p].next)

\* _add_version_name: the first name of an index is kept, 0 and 1 have none.
AddVersionName(t, e) == IF e.ndx <= 1 \/ e.ndx \in DOMAIN t THEN t ELSE t @@ (e.ndx :> e.name)

\* It makes room for an index by doubling the table once; an index that the
\* doubled table does not hold is not modelled.
GrownFor(size, e) ==
    LET made == IF size = 0 THEN 10 ELSE size
    IN IF e.ndx <= 1 THEN size ELSE IF e.ndx >= made THEN 2 * made ELSE made

\* ld_symver_load_symbol_version_info.
VersionsRead(f) ==
    LET defined == FlattenSeq([k \in DOMAIN LoadVerdef(f.verdef, 1) |->
                       LET d == LoadVerdef(f.verdef, 1)[k] IN
                       [i \in DOMAIN d.names |-> [ndx |-> d.ndx, name |-> d.names[i]]]])
    IN IF f.versym = <<>> THEN <<>> ELSE LoadVerneed(f.verneed, 1) \o defined

VersionNamesOf(f) == FoldLeft(AddVersionName, <<>>, VersionsRead(f))
VersionTableSize(f) == FoldLeft(GrownFor, 0, VersionsRead(f))

\* _add_elf_symbol: the version of the i-th symbol of a library, and whether it
\* is the default: an index in the table is, be there a name for it or not.
LibSymbol(f, i) ==
    LET s == f.syms[i]
        v == IF f.versym = <<>> THEN [ndx |-> 0, hidden |-> FALSE] ELSE f.versym[i]
        names == VersionNamesOf(f)
    IN [sym  |-> [Table!NewSymbol(s.name) EXCEPT !.dso = TRUE, !.shndx = IF s.def THEN "def" ELSE "undef",
                                                 !.ver = IF v.ndx \in DOMAIN names THEN names[v.ndx] ELSE NoVersion],
        dflt |-> v.ndx \in 2..(VersionTableSize(f) - 1) /\ ~v.hidden /\ s.def]

ObjectSymbols(j) ==
    [i \in DOMAIN j.defs |-> [sym |-> [Table!NewSymbol(j.defs[i]) EXCEPT !.shndx = "def"], dflt |-> FALSE]]
    \o [i \in DOMAIN j.refs |-> [sym |-> Table!NewSymbol(j.refs[i]), dflt |-> FALSE]]

-----------------------------------------------------------------------------
(***************************************************************************)
(* The steps of a link.                                                    *)
(***************************************************************************)
NoSections == [verdef |-> <<>>, verneed |-> <<>>, versym |-> <<>>, hash |-> [buckets |-> <<>>, chains |-> <<>>]]

VersionInit ==
    /\ files = <<FirstFile>> /\ stage = "idle" /\ job = <<>>
    /\ table = Table!NoSymbols /\ from = <<>> /\ verdefs = <<>> /\ dynsyms = <<>> /\ vd = <<>>
    /\ sections = NoSections

StartLink ==
    /\ stage = "idle" /\ Len(files) <= Len(LinkJobs)
    /\ \E j \in LinkJobs[Len(files)] :
          /\ job' = j
          /\ stage' = IF ScriptRefused(j.script) THEN "stopped" ELSE "load"
    /\ table' = Table!NoSymbols /\ from' = <<>> /\ verdefs' = <<>> /\ dynsyms' = <<>> /\ vd' = <<>>
    /\ sections' = NoSections
    /\ UNCHANGED files

\* The objects and then the libraries, in the order of the command line.
LoadFiles ==
    /\ stage = "load"
    /\ LET lib(k) == [i \in DOMAIN Lib(k).syms |-> LibSymbol(Lib(k), i)]
           all == ObjectSymbols(job) \o FlattenSeq([k \in DOMAIN job.libs |-> lib(k)])
           loaded == FoldLeft(LAMBDA l, e : IF l.fatal # "none" THEN l ELSE Table!AddElfSymbol(l, e.sym, e.dflt),
                              Table!NoSymbols, all)
       IN /\ table' = loaded
          /\ stage' = IF loaded.fatal = "none" THEN "scan" ELSE "stopped"
    /\ from' = [i \in DOMAIN ObjectSymbols(job) |-> 0]
               \o FlattenSeq([k \in DOMAIN job.libs |-> [i \in DOMAIN Lib(k).syms |-> k]])
    /\ verdefs' = [k \in DOMAIN job.libs |-> IF Lib(k).versym = <<>> THEN <<>> ELSE LoadVerdef(Lib(k).verdef, 1)]
    /\ UNCHANGED <<files, job, dynsyms, vd, sections>>

Sym(i) == table.lsb[i]
Imports(i) == Sym(i).dso /\ Sym(i).shndx # "undef" /\ Sym(i).ref_ndso

\* ld_symbols_scan, but for the symbols of dynamic relocations.
IsDynamic(i) ==
    \/ ~Sym(i).dso /\ Sym(i).ref_dso
    \/ Imports(i)
    \/ ~Sym(i).dso /\ job.kind = "dso" /\ SearchVersionScript(job.script, Sym(i).name) # 0

\* ld_symver_add_verdef_refcnt: the version of the library that a symbol is bound to.
VersionOf(i) == IF Sym(i).ver # NoVersion THEN Sym(i).ver ELSE table.defver[Sym(i).name]
HasNoVersion(i) == VersionOf(i) \in {NoVersion, Table!Nameless}

BoundTo(i) ==
    LET ds == verdefs[from[i]]
        k == SelectInSeq(ds, LAMBDA d : "base" \notin d.flags /\ d.names # <<>> /\ d.names[1] = VersionOf(i))
    IN IF HasNoVersion(i) THEN 0 ELSE k

VersionScan ==
    /\ stage = "scan" /\ stage' = "dynamic"
    /\ LET bound == [i \in table.sym |-> IF Imports(i) THEN BoundTo(i) ELSE 0] IN
          /\ vd' = bound
          /\ verdefs' = [k \in DOMAIN verdefs |-> [m \in DOMAIN verdefs[k] |->
                           [verdefs[k][m] EXCEPT !.ref = Cardinality({i \in table.sym : from[i] = k /\ bound[i] = m})]]]
    /\ dynsyms' = SetToSortSeq({i \in table.sym : IsDynamic(i)}, <)
    /\ UNCHANGED <<files, job, table, from, sections>>

\* ld_symver_create_verdef_section: the entry of the file, then the nodes of
\* the script, with the indexes from first on.  The flags of the first entry are
\* or-ed into memory that was never written.
VerdefRecords(ndx, flags, names, last) ==
    <<[ndx |-> ndx, flags |-> flags, cnt |-> Len(names), aux |-> 1, next |-> IF last THEN 0 ELSE 1 + Len(names)]>>
    \o [i \in DOMAIN names |-> [name |-> names[i], next |-> IF i = Len(names) THEN 0 ELSE 1]]

NodeNames(n) == IF n.dep = "" THEN <<n.name>> ELSE <<n.name, n.dep>>

CreateVerdef(script, soname, first, garbage) ==
    VerdefRecords(1, {"base"} \cup garbage, <<soname>>, FALSE)
    \o FlattenSeq([k \in DOMAIN script |->
                      VerdefRecords(first + k - 1, {}, NodeNames(script[k]), k = Len(script))])

\* ld_symver_create_verneed_section: the versions referred to of each library
\* that is, with the indexes from first on.
NeedsOf(ds) == SelectSeq([k \in DOMAIN ds |-> k],
                         LAMBDA k : "base" \notin ds[k].flags /\ ds[k].ref # 0 /\ ds[k].names # <<>>)

Needing == SelectSeq([k \in DOMAIN job.libs |-> k], LAMBDA k : NeedsOf(verdefs[k]) # <<>>)

NeedIndex(first, k, m) ==
    first + FoldLeft(LAMBDA n, c : n + c, 0, [l \in 1..(k - 1) |-> Len(NeedsOf(verdefs[l]))])
          + SelectInSeq(NeedsOf(verdefs[k]), LAMBDA x : x = m) - 1

VerneedRecords(first, k, last) ==
    LET ms == NeedsOf(verdefs[k]) IN
    <<[file |-> Lib(k).soname, cnt |-> Len(ms), aux |-> 1, next |-> IF last THEN 0 ELSE 1 + Len(ms)]>>
    \o [i \in DOMAIN ms |-> [other |-> NeedIndex(first, k, ms[i]), name |-> verdefs[k][ms[i]].names[1],
                             next |-> IF i = Len(ms) THEN 0 ELSE 1]]

CreateVerneed(first) ==
    FlattenSeq([n \in DOMAIN Needing |-> VerneedRecords(first, Needing[n], n = Len(Needing))])

IndexesGiven(first) ==
    [k \in DOMAIN verdefs |-> [m \in DOMAIN verdefs[k] |->
        IF Contains(NeedsOf(verdefs[k]), m) THEN [verdefs[k][m] EXCEPT !.out = NeedIndex(first, k, m)]
        ELSE verdefs[k][m]]]

\* ld_symver_create_versym_section.
VersionIndex(i, given) ==
    IF Sym(i).bind = "local" THEN 0
    ELSE IF vd[i] # 0 THEN given[from[i]][vd[i]].out
    ELSE IF job.kind = "dso" /\ ~Sym(i).dso THEN SearchVersionScript(job.script, Sym(i).name)
    ELSE 1

\* ld_hash_create_svr4_hash_section: a symbol is put in front of its chain.
HashBuckets == <<1, 3, 17, 37>>
BucketCount(n) ==
    LET i == SelectInSeq(HashBuckets, LAMBDA b : n < b)
    IN IF i = 0 THEN Last(HashBuckets) ELSE HashBuckets[i - 1]

CreateHash(names) ==
    LET count == BucketCount(Len(names) + 1)
        add(h, i) == LET b == HashOf[names[i]] % count
                     IN [buckets |-> [h.buckets EXCEPT ![b] = i], chains |-> [h.chains EXCEPT ![i] = h.buckets[b]]]
    IN FoldLeft(add, [buckets |-> [b \in 0..(count - 1) |-> 0], chains |-> [i \in 0..Len(names) |-> 0]],
                [i \in DOMAIN names |-> i])

HasVerdef == job.kind = "dso" /\ job.script # <<>>

\* lo_version_index as each of the two sections is made.
FirstDefined == 2
FirstNeeded == IF HasVerdef THEN FirstDefined + Len(job.script) ELSE 2

\* ld_dynamic_create.  The hash of a version without a name is that of no string.
CreateDynamicSections ==
    /\ stage = "dynamic"
    /\ \E garbage \in SUBSET {"weak"} :
          LET verdef == IF HasVerdef THEN CreateVerdef(job.script, job.soname, FirstDefined, garbage) ELSE <<>>
              given == IndexesGiven(FirstNeeded)
              names == [k \in DOMAIN dynsyms |-> Sym(dynsyms[k]).name]
          IN /\ HasVerdef \/ garbage = {}
             /\ sections' = [verdef |-> verdef, verneed |-> CreateVerneed(FirstNeeded),
                             versym |-> [k \in DOMAIN dynsyms |-> VersionIndex(dynsyms[k], given)],
                             hash |-> CreateHash(names)]
             /\ verdefs' = given
    /\ stage' = IF HasVerdef /\ \E k \in DOMAIN job.script : job.script[k].name = "" THEN "stopped" ELSE "write"
    /\ UNCHANGED <<files, job, table, from, dynsyms, vd>>

\* ld_symbols_finalize_dynsym: what is imported is written as undefined.
WriteFile ==
    /\ stage = "write" /\ stage' = "idle"
    /\ files' = Append(files,
          [soname |-> job.soname,
           syms |-> [k \in DOMAIN dynsyms |-> [name |-> Sym(dynsyms[k]).name,
                        def |-> Sym(dynsyms[k]).shndx = "def" /\ ~Imports(dynsyms[k])]],
           versym |-> [k \in DOMAIN dynsyms |-> [ndx |-> sections.versym[k], hidden |-> FALSE]],
           verdef |-> sections.verdef, verneed |-> sections.verneed, hash |-> sections.hash, job |-> job])
    /\ UNCHANGED <<job, table, from, verdefs, dynsyms, vd, sections>>

VersionNext == StartLink \/ LoadFiles \/ VersionScan \/ CreateDynamicSections \/ WriteFile

VersionSpec == VersionInit /\ [][VersionNext]_versionVars

-----------------------------------------------------------------------------
(***************************************************************************)
(* What the dynamic linker makes of the file: it finds a symbol by its     *)
(* hash and the name of the version by its index.                          *)
(***************************************************************************)
RECURSIVE InChain(_, _, _)
InChain(f, i, n) == IF i = 0 THEN 0 ELSE IF f.syms[i].name = n THEN i ELSE InChain(f, f.hash.chains[i], n)
FoundByHash(f, n) == InChain(f, f.hash.buckets[HashOf[n] % Cardinality(DOMAIN f.hash.buckets)], n)

RECURSIVE NeedAt(_, _, _)
NeedAt(f, p, ndx) ==
    IF p > Len(f.verneed) THEN {}
    ELSE {<<f.verneed[p].file, e.name>> : e \in {e \in ToSet(NeedNames(f.verneed, p + f.verneed[p].aux, f.verneed[p].cnt)) :
                                                   e.ndx = ndx}}
         \cup IF f.verneed[p].next = 0 THEN {} ELSE NeedAt(f, p + f.verneed[p].next, ndx)

VersionRead(f, i) ==
    LET ndx == f.versym[i].ndx
        ds == {d \in ToSet(LoadVerdef(f.verdef, 1)) : d.ndx = ndx}
    IN CASE ndx = 0 -> {"local"} [] ndx = 1 -> {"global"}
         [] OTHER -> {<<f.soname, d.names[1]>> : d \in ds} \cup NeedAt(f, 1, ndx)

(* What the version script says of a name: the first node that names it,   *)
(* or else the first with a glob for it.                                   *)
Says(script, n, glob) ==
    {k \in DOMAIN script : \E i \in DOMAIN VersionEntries(script[k].text, FALSE) :
        LET e == VersionEntries(script[k].text, FALSE)[i] IN n \in e.names /\ e.glob = glob}

LocalIn(node, n, glob) ==
    LET es == SelectSeq(VersionEntries(node.text, FALSE), LAMBDA e : n \in e.names /\ e.glob = glob)
    IN Head(es).local

LeastOf(S) == CHOOSE k \in S : \A m \in S : k <= m
Declared(j, n) ==
    LET glob == Says(j.script, n, FALSE) = {}
        ks == Says(j.script, n, glob)
    IN IF ks = {} \/ j.kind # "dso" THEN {"global"}
       ELSE IF LocalIn(j.script[LeastOf(ks)], n, glob) THEN {"local"}
       ELSE {<<j.soname, j.script[LeastOf(ks)].name>>}

\* The symbol of a library that a name without a version stands for.
Provides(f, n) ==
    {i \in DOMAIN f.syms : f.syms[i].name = n /\ f.syms[i].def /\ ~f.versym[i].hidden /\ f.versym[i].ndx # 0}

Provider(j, n) == {k \in DOMAIN j.libs : Provides(files[j.libs[k]], n) # {}}

\* Every symbol that a link imports is bound to the version that the library gives
\* it, which it names together with the file, and every symbol that a library
\* exports has the version the script declares for it: whatever the link read,
\* numbered and wrote, a later link and the dynamic linker read the same, and find
\* the symbol by its hash (ld_symver.c, ld_hash.c, ld_symbols_scan).
BoundAsLinked ==
    \A c \in 2..Len(files) :
        LET f == files[c]
            j == f.job
        IN /\ \A i \in DOMAIN f.syms :
                 LET n == f.syms[i].name IN
                 /\ FoundByHash(f, n) = i
                 /\ f.syms[i].def => VersionRead(f, i) = Declared(j, n)
                 /\ ~f.syms[i].def /\ Provider(j, n) # {} =>
                        LET lib == files[j.libs[LeastOf(Provider(j, n))]]
                        IN \E p \in Provides(lib, n) : VersionRead(f, i) = VersionRead(lib, p)
           /\ \A n \in SymbolNames :
                 \/ Contains(j.defs, n) /\ j.kind = "dso" /\ Declared(j, n) # {"local"}
                 \/ ~Contains(j.defs, n) /\ Contains(j.refs, n) /\ Provider(j, n) # {}
                 => \E i \in DOMAIN f.syms : f.syms[i].name = n
=============================================================================
