------------------------------ MODULE LdLoad ------------------------------
(***************************************************************************)
(* How ld(1) reads its input: the command line (ld_options.c), the list of *)
(* input files (ld_file.c), the loop that loads their symbols, extracts    *)
(* archive members and searches archive groups again (ld_symbols_resolve), *)
(* COMDAT section groups (ld_input.c) and the restart when the first       *)
(* object is for another architecture (ld_main.c, ld_arch.c).              *)
(*                                                                         *)
(* Contents[f] says what file f holds.  An object is a record              *)
(*   [arch, dso, comdat, syms]                                             *)
(* of its architecture, the signatures of its section groups and its       *)
(* global symbols; a symbol is [sym, dflt, group], group being the         *)
(* signature of the section group it is defined in.  A file holds one      *)
(* object, or is an archive with a symbol index and members.               *)
(***************************************************************************)
EXTENDS LdSymbols, SequencesExt

CONSTANTS CmdLines,     \* the command lines considered
          Contents,     \* what each file holds
          Libraries,    \* the files an option -l finds, for each argument
          Provided,     \* names PROVIDEd by the internal linker script
          Archs         \* default architectures considered

NoGroup == "nogroup"

VARIABLES cmd,      \* the command line: a sequence of items [op, arg]
          pc,       \* what the linker is doing
          ld,       \* the symbol table
          from,     \* the input object each symbol comes from (lsb_input)
          files,    \* ld_lflist
          inputs,   \* the input objects allocated so far
          sg,       \* ld_sg: the signatures of the section groups included
          ls,       \* struct ld_state
          arch,     \* ld_arch
          at,       \* position in cmd, or in files
          pass      \* the walk over an archive's symbol index

vars == <<cmd, pc, ld, from, files, inputs, sg, ls, arch, at, pass>>

IsArchive(f) == "members" \in DOMAIN Contents[f]

AllObjects ==
    UNION {IF IsArchive(f) THEN {Contents[f].members[m] : m \in DOMAIN Contents[f].members}
           ELSE {Contents[f]} : f \in DOMAIN Contents}

AllMembers == UNION {DOMAIN Contents[f].members : f \in {g \in DOMAIN Contents : IsArchive(g)}}

Items == [op : {"file"}, arg : DOMAIN Contents] \cup [op : {"lib"}, arg : DOMAIN Libraries]
         \cup [op : {"u"}, arg : Names]
         \cup [op : {"(", ")", "static", "dynamic", "whole", "nowhole"}, arg : {""}]

\* There are finitely many members, an index names members of its archive, and an
\* option names a file that exists.
ASSUME ContentsAssumption ==
    /\ IsFiniteSet(AllMembers)
    /\ \A f \in {g \in DOMAIN Contents : IsArchive(g)} :
          Contents[f].index \in Seq([name : Names, member : DOMAIN Contents[f].members])

ASSUME LinesAssumption ==
    /\ \A n \in DOMAIN Libraries : {Libraries[n].static, Libraries[n].dynamic} \subseteq DOMAIN Contents
    /\ CmdLines \subseteq Seq(Items)

(***************************************************************************)
(* The command line.                                                       *)
(***************************************************************************)
MaxNestedGroup == 16        \* LD_MAX_NESTED_GROUP

NewState == [group |-> 0, static |-> FALSE, whole |-> FALSE,
             extracted |-> [g \in 0..MaxNestedGroup |-> FALSE], rerun |-> FALSE, first |-> TRUE]

\* ld_script_init: the variables of the internal script come first.
ScriptSymbols(l) ==
    FoldLeft(LAMBDA k, n : AddVariable(k, n, TRUE), l, Provided)

NewFile(f, s) == [file |-> f, group |-> s.group, whole |-> s.whole,
                  members |-> {}, input |-> 0]

\* ld_path_search_library.
Library(n, s) == IF s.static THEN Libraries[n].static ELSE Libraries[n].dynamic

\* The effect of one item on the options and on the list of files.
Option(item, s, fs) ==
    CASE item.op = "("       -> [s |-> [s EXCEPT !.group = @ + 1], fs |-> fs]
      [] item.op = ")"       -> [s |-> [s EXCEPT !.group = @ - 1], fs |-> fs]
      [] item.op = "static"  -> [s |-> [s EXCEPT !.static = TRUE], fs |-> fs]
      [] item.op = "dynamic" -> [s |-> [s EXCEPT !.static = FALSE], fs |-> fs]
      [] item.op = "whole"   -> [s |-> [s EXCEPT !.whole = TRUE], fs |-> fs]
      [] item.op = "nowhole" -> [s |-> [s EXCEPT !.whole = FALSE], fs |-> fs]
      [] item.op = "file"    -> [s |-> s, fs |-> Append(fs, NewFile(item.arg, s))]
      [] item.op = "lib"     -> [s |-> s, fs |-> Append(fs, NewFile(Library(item.arg, s), s))]
      [] item.op = "u"       -> [s |-> s, fs |-> fs]

Init ==
    /\ cmd \in CmdLines
    /\ pc = "parse"
    /\ ld = ScriptSymbols(NoSymbols)
    /\ from = [i \in 1..Len(ld.lsb) |-> 0]
    /\ files = <<>> /\ inputs = <<>> /\ sg = {}
    /\ ls = NewState
    /\ arch \in Archs
    /\ at = 1
    /\ pass = [k |-> 0, hit |-> FALSE]

\* _process_options
ParseItem ==
    /\ pc = "parse" /\ at =< Len(cmd)
    /\ LET o == Option(cmd[at], ls, files)
           l == IF cmd[at].op = "u" THEN AddExtern(ld, cmd[at].arg) ELSE ld
       IN  /\ ls' = o.s /\ files' = o.fs /\ ld' = l
           /\ from' = from \o [i \in 1..(Len(l.lsb) - Len(ld.lsb)) |-> 0]
           /\ pc' = IF o.s.group > MaxNestedGroup THEN "fatal" ELSE "parse"
    /\ at' = at + 1
    /\ UNCHANGED <<cmd, inputs, sg, arch, pass>>

\* main: the options are read, ld_symbols_resolve starts.
BeginResolve ==
    /\ pc = "parse" /\ at > Len(cmd)
    /\ IF files = <<>> THEN pc' = "fatal" /\ UNCHANGED ls
       ELSE /\ pc' = "resolve"
            /\ ls' = [ls EXCEPT !.first = TRUE, !.group = files[1].group]
    /\ at' = 1
    /\ UNCHANGED <<cmd, ld, from, files, inputs, sg, arch, pass>>

(***************************************************************************)
(* Loading the symbols of an object (ld_input_alloc, ld_input_init_sections*)
(* and _load_elf_symbols).  A symbol defined in a section group that was   *)
(* already included becomes undefined.                                     *)
(***************************************************************************)
LoadSymbols(l, obj, dropped) ==
    FoldLeft(LAMBDA k, d :
                IF k.fatal # "none" THEN k
                ELSE AddElfSymbol(k,
                        [d.sym EXCEPT !.dso = obj.dso,
                                      !.shndx = IF d.group \in dropped
                                                THEN "undef" ELSE @], d.dflt),
             l, obj.syms)

Dropped_None(obj) == {}

Dropped(obj) == obj.comdat \cap sg

\* The input object and its symbols are added; fs is the list of files with the
\* object recorded in it.
LoadObject(obj, fs) ==
    LET l == LoadSymbols(ld, obj, Dropped(obj))
        n == Len(inputs) + 1
    IN  /\ ld' = l
        /\ from' = from \o [i \in 1..(Len(l.lsb) - Len(ld.lsb)) |-> n]
        /\ inputs' = Append(inputs, [dso |-> obj.dso, kept |-> obj.comdat \ Dropped(obj)])
        /\ sg' = sg \cup obj.comdat
        /\ files' = fs

(***************************************************************************)
(* ld_symbols_resolve: the loop over the files.  When the file after a     *)
(* group is reached and a member was extracted at the group's level, the   *)
(* loop goes back to the first file of the group.                          *)
(***************************************************************************)
Below(g, i) == {j \in 1..(i - 1) : files[j].group < g}
Largest(S) == CHOOSE x \in S : \A y \in S : y =< x

SearchAgain_Opens == files[at].group > ls.group /\ ls.extracted[ls.group]

SearchAgain == files[at].group < ls.group /\ ls.extracted[ls.group]

\* TAILQ_PREV runs off the head of the list when the group comes first.
NoFileBefore == SearchAgain /\ Below(ls.group, at) = {}

Position == IF SearchAgain THEN Largest(Below(ls.group, at)) + 1 ELSE at

StateAt_KeepFlag(p) == [ls EXCEPT !.group = files[p].group]

StateAt(p) ==
    [ls EXCEPT !.extracted[ls.group] = IF SearchAgain THEN FALSE ELSE @,
               !.group = files[p].group]

RunOffList ==
    /\ pc = "resolve" /\ at =< Len(files) /\ NoFileBefore
    /\ pc' = "crash"
    /\ UNCHANGED <<cmd, ld, from, files, inputs, sg, ls, arch, at, pass>>

LoadArchive ==
    /\ pc = "resolve" /\ at =< Len(files) /\ ~NoFileBefore
    /\ IsArchive(files[Position].file)
    /\ pc' = "archive"
    /\ at' = Position
    /\ ls' = StateAt(Position)
    /\ pass' = [k |-> 1, hit |-> FALSE]
    /\ UNCHANGED <<cmd, ld, from, files, inputs, sg, arch>>

\* ld_arch_verify lets the first ELF object choose the architecture, once.
LoadFile ==
    /\ pc = "resolve" /\ at =< Len(files) /\ ~NoFileBefore
    /\ ~IsArchive(files[Position].file)
    /\ LET p == Position
           obj == Contents[files[p].file]
       IN  /\ ls' = [StateAt(p) EXCEPT !.first = FALSE]
           /\ IF obj.arch # arch
              THEN /\ IF ls.rerun \/ ~ls.first
                      THEN pc' = "fatal" /\ UNCHANGED arch
                      ELSE pc' = "restart" /\ arch' = obj.arch
                   /\ at' = p
                   /\ UNCHANGED <<ld, from, files, inputs, sg>>
              ELSE /\ LoadObject(obj, [files EXCEPT ![p].input = Len(inputs) + 1])
                   /\ pc' = IF ld'.fatal = "none" THEN "resolve" ELSE "fatal"
                   /\ at' = p + 1
                   /\ UNCHANGED arch
    /\ UNCHANGED <<cmd, pass>>

(***************************************************************************)
(* _load_archive_symbols: passes over the symbol index until one extracts  *)
(* nothing.  A member is extracted when its symbol is in the table.        *)
(***************************************************************************)
Index == Contents[files[at].file].index

Extracted == {m[1] : m \in files[at].members}

Wanted(l, k) ==
    /\ Index[k].member \notin Extracted
    /\ Find(l, <<Index[k].name, Unversioned>>) # {}

Smallest(S) == CHOOSE x \in S : \A y \in S : x =< y
Ahead == {k \in pass.k..Len(Index) : Wanted(ld, k)}

Extract ==
    /\ pc = "archive" /\ Ahead # {}
    /\ LET k == Smallest(Ahead)
           m == Index[k].member
           obj == Contents[files[at].file].members[m]
       IN  /\ LoadObject(obj,
                [files EXCEPT ![at].members = @ \cup {<<m, Len(inputs) + 1>>}])
           /\ pass' = [k |-> k + 1, hit |-> TRUE]
           /\ pc' = IF ld'.fatal = "none" THEN "archive" ELSE "fatal"
    /\ ls' = [ls EXCEPT !.extracted[ls.group] = TRUE]
    /\ UNCHANGED <<cmd, arch, at>>

EndOfPass ==
    /\ pc = "archive" /\ Ahead = {}
    /\ IF pass.hit THEN pass' = [k |-> 1, hit |-> FALSE] /\ UNCHANGED <<pc, at>>
       ELSE pc' = "resolve" /\ at' = at + 1 /\ UNCHANGED pass
    /\ UNCHANGED <<cmd, ld, from, files, inputs, sg, ls, arch>>

EndOfFiles ==
    /\ pc = "resolve" /\ at > Len(files)
    /\ pc' = "done"
    /\ UNCHANGED <<cmd, ld, from, files, inputs, sg, ls, arch, at, pass>>

Restart_FilesKept ==
    /\ pc = "restart"
    /\ ld' = ScriptSymbols([NoSymbols EXCEPT !.defver = ld.defver])
    /\ from' = [i \in 1..Len(ld'.lsb) |-> 0]
    /\ inputs' = <<>>
    /\ ls' = [ls EXCEPT !.rerun = TRUE]
    /\ pc' = "parse" /\ at' = 1
    /\ UNCHANGED <<cmd, files, sg, arch, pass>>

\* main: _cleanup, then the command line is read again.  The symbols and the
\* files are dropped; the section groups, the options in ls and the level of
\* the current group are not.
Restart ==
    /\ pc = "restart"
    /\ ld' = ScriptSymbols([NoSymbols EXCEPT !.defver = ld.defver])
    /\ from' = [i \in 1..Len(ld'.lsb) |-> 0]
    /\ files' = <<>> /\ inputs' = <<>>
    /\ ls' = [ls EXCEPT !.rerun = TRUE]
    /\ pc' = "parse" /\ at' = 1
    /\ UNCHANGED <<cmd, sg, arch, pass>>

Step == \/ ParseItem \/ BeginResolve \/ RunOffList \/ LoadArchive \/ LoadFile
        \/ Extract \/ EndOfPass \/ EndOfFiles \/ Restart

Stop == pc \in {"done", "fatal", "crash"} /\ UNCHANGED vars

Next == Step \/ Stop

Spec == Init /\ [][Next]_vars

--------------------------------------------------------------------------
\* Every variable has its type.
TypeOK ==
    /\ pc \in {"parse", "resolve", "archive", "restart", "done", "fatal", "crash"}
    /\ ld.lsb \in Seq(Symbol) /\ ld.sym \subseteq 1..Len(ld.lsb)
    /\ from \in Seq(0..Len(inputs)) /\ Len(from) = Len(ld.lsb)
    /\ \A i \in 1..Len(files) :
          /\ files[i].file \in DOMAIN Contents
          /\ files[i].input \in 0..Len(inputs)
          /\ \A m \in files[i].members : m[2] \in 1..Len(inputs)
    /\ ls.group \in Nat
    /\ at \in 1..(Len(cmd) + Len(files) + 1)

Undefined(n) ==
    \E i \in ld.sym : Longname(ld.lsb[i]) = <<n, Unversioned>> /\ ld.lsb[i].shndx = "undef"

\* The file at i still holds a member, not extracted, that its index lists for
\* an undefined symbol.
CouldResolve(i) ==
    LET c == Contents[files[i].file] IN
    /\ IsArchive(files[i].file)
    /\ \E k \in 1..Len(c.index) :
          /\ Undefined(c.index[k].name)
          /\ \A m \in files[i].members : m[1] # c.index[k].member

\* The files just before p that are inside a group p is outside of.
GroupBefore(p) ==
    {i \in 1..(p - 1) :
        \A j \in i..(p - 1) : files[j].group > IF p > Len(files) THEN 0 ELSE files[p].group}

\* "Start a group of archives that are to be searched repeatedly until no new
\* undefined references are created" (ld.1:107): when the loop goes on to the
\* file after a group, or ends, no archive of the group could resolve anything.
GroupsSearched ==
    [][pc = "resolve" /\ pc' # "crash" /\ at' >= at =>
        \A i \in GroupBefore(at) : ~CouldResolve(i)]_vars

\* An archive outside a group is left only when it can resolve nothing more,
\* although the members taken from it add references of their own.
ArchiveSearched ==
    [][pc = "archive" /\ pc' = "resolve" => ~CouldResolve(at)]_vars

Objects ==
    UNION {LET c == Contents[f] IN
           IF IsArchive(f) THEN {<<f, m>> : m \in DOMAIN c.members} ELSE {<<f, "self">>} :
           f \in {files[i].file : i \in 1..Len(files)}}
SymbolsOf(o) ==
    LET c == Contents[o[1]]
        obj == IF IsArchive(o[1]) THEN c.members[o[2]] ELSE c
    IN  {obj.syms[k].sym : k \in 1..Len(obj.syms)}

\* The linker reports a multiple definition only when two different objects
\* given to it define the symbol: reading the files of a group again, or the whole
\* command line after a restart, never makes an object conflict with itself
\* (la_m, _archive_member_extracted, _cleanup).
NoFalseConflict ==
    ld.fatal = "multiple" =>
        \E o, p \in Objects : \E s \in SymbolsOf(o), t \in SymbolsOf(p) :
            /\ o # p
            /\ s.name = ld.lsb[Len(ld.lsb)].name /\ t.name = s.name
            /\ s.shndx = "def" /\ t.shndx = "def"

LinkedInputs ==
    {files[i].input : i \in 1..Len(files)}
    \cup UNION {{m[2] : m \in files[i].members} : i \in 1..Len(files)}

\* Every symbol that is kept belongs to an input object that
\* ld_input_link_objects will find from the list of files, so its sections
\* are laid out and its references counted.
KeptSymbolsLinked ==
    pc = "done" => \A i \in ld.sym : from[i] = 0 \/ from[i] \in LinkedInputs

\* Of the section groups with one signature exactly one is included, whichever
\* objects hold it: "If a match is found, the sections included in this section
\* group should be discarded" (ld_input.c:453).
ComdatKeptOnce ==
    pc = "done" =>
        \A g \in sg : \E i \in LinkedInputs \ {0} :
            /\ g \in inputs[i].kept
            /\ \A j \in LinkedInputs \ {0} : g \in inputs[j].kept => j = i

\* What is left to do, the most significant part first.
NotExtracted ==
    {x \in (1..Len(files)) \X AllMembers :
        /\ IsArchive(files[x[1]].file)
        /\ x[2] \in DOMAIN Contents[files[x[1]].file].members
        /\ \A m \in files[x[1]].members : m[1] # x[2]}
Rank ==
    << IF ls.rerun THEN 0 ELSE 1,
       IF pc = "parse" THEN Len(cmd) + 2 - at ELSE 0,
       Cardinality(NotExtracted),
       Cardinality({g \in DOMAIN ls.extracted : ls.extracted[g]}),
       Len(files) + 1 - at,
       CASE pc = "resolve" -> 3
         [] pc = "archive" -> IF pass.hit THEN 2 ELSE 1
         [] OTHER          -> 0 >>
Smaller(r, q) == \E i \in 1..6 : r[i] < q[i] /\ \A j \in 1..(i - 1) : r[j] = q[j]

\* The link ends: every step makes progress, first in restarting, then in
\* reading the command line, extracting members, searching groups again,
\* walking the list of files and walking the index of one archive.  A group is
\* searched again only after a member was extracted from it.
Progress == [][Smaller(Rank', Rank)]_vars

\* The list of files is never walked past its ends (ld_symbols.c:251-255).
NeverRunsOff == pc # "crash"

\* "Only include objects in an archive that satisfy an unresolved reference in
\* the link" (ld.1:260).
OnlyUnresolved ==
    [][Len(inputs') > Len(inputs) /\ pc = "archive" =>
        \E k \in 1..Len(Index) :
            /\ Undefined(Index[k].name)
            /\ \E m \in files'[at].members \ files[at].members : m[1] = Index[k].member]_vars

\* "Include the entire contents of every archive file encountered on the command
\* line after this option in the link" (ld.1:307).
WholeArchives ==
    pc = "done" => \A i \in 1..Len(files) :
        files[i].whole /\ IsArchive(files[i].file) =>
            {m[1] : m \in files[i].members} = DOMAIN Contents[files[i].file].members

\* "Choose static libraries for the libraries specified by subsequent -l
\* options" (ld.1:127): an earlier -l finds the shared library.
EarlierLibrariesDynamic ==
    pc = "done" =>
        \A k \in 1..Len(cmd) :
            /\ cmd[k].op = "lib"
            /\ \A j \in 1..(k - 1) : cmd[j].op # "static"
            => \E i \in 1..Len(files) : files[i].file = Libraries[cmd[k].arg].dynamic
=============================================================================
