------------------------------ MODULE LdLoadProofs ------------------------------
(***************************************************************************)
(* Proofs about LdLoad, for any files, any command lines and any default   *)
(* architecture.                                                           *)
(***************************************************************************)
EXTENDS LdLoad, SequenceTheorems, FiniteSetTheorems, WellFoundedInduction, TLAPS

\* Values of the variables.
LevelFlags == [0..MaxNestedGroup -> BOOLEAN]
Options == [group : Int, static : BOOLEAN, whole : BOOLEAN,
            extracted : LevelFlags, rerun : BOOLEAN, first : BOOLEAN]
MemberSets == SUBSET (AllMembers \X Nat)
ListedFile == [file : DOMAIN Contents, group : Int, whole : BOOLEAN,
               members : MemberSets, input : Nat]
Signatures == UNION {o.comdat : o \in AllObjects}
InputObject == [dso : {o.dso : o \in AllObjects}, kept : SUBSET Signatures]

\* What is true of the list of files, of the options and of the position in the
\* list at each point of the program.
Walk ==
    /\ cmd \in CmdLines
    /\ pc \in {"parse", "resolve", "archive", "restart", "done", "fatal", "crash"}
    /\ files \in Seq(ListedFile) /\ inputs \in Seq(InputObject) /\ sg \subseteq Signatures
    /\ ls \in Options /\ at \in Nat \ {0} /\ pass \in [k : Nat, hit : BOOLEAN]
    /\ pc = "parse" =>
          /\ at =< Len(cmd) + 1 /\ inputs = <<>>
          /\ \A i \in 1..Len(files) : files[i].input = 0 /\ files[i].members = {}
    /\ pc = "resolve" =>
          /\ files # <<>> /\ at =< Len(files) + 1
          /\ ls.group = files[IF at = 1 THEN 1 ELSE at - 1].group
    /\ pc = "archive" =>
          /\ at =< Len(files) /\ IsArchive(files[at].file) /\ ls.group = files[at].group
          /\ pass.k >= 1 /\ (~pass.hit => pass.k = 1)
    /\ pc = "restart" => ~ls.rerun

\* No two inputs keep a section group with the same signature.
KeptOnce ==
    /\ \A i \in 1..Len(inputs) : inputs[i].kept \subseteq sg
    /\ \A i, j \in 1..Len(inputs) : i # j => inputs[i].kept \cap inputs[j].kept = {}

\* The hypotheses.
LevelNotNegative == ls.group >= 0
OnlyArchivesGrouped == \A i \in 1..Len(files) : files[i].group > 0 => IsArchive(files[i].file)
RestartBare == pc = "restart" => sg = {}

\* Every input is on the list, and every signature read is kept by an input.
AllLinked ==
    /\ \A i \in 1..Len(files) : files[i].group >= 0
    /\ \A i \in 1..Len(files) : files[i].input \in 0..Len(inputs)
    /\ \A i \in 1..Len(files) : \A m \in files[i].members : m[2] \in 1..Len(inputs)
    /\ 1..Len(inputs) \subseteq LinkedInputs
    /\ sg \subseteq UNION {inputs[i].kept : i \in 1..Len(inputs)}
    /\ pc \in {"resolve", "archive"} =>
          \A i \in 1..Len(files) : files[i].input # 0 => i < at /\ ~IsArchive(files[i].file)

\* No level of a group is beyond the array of marks.
LevelsMarked ==
    /\ \A i \in 1..Len(files) : files[i].group \in 0..MaxNestedGroup
    /\ pc \in {"parse", "resolve", "archive", "restart"} => ls.group =< MaxNestedGroup

\* A driver's command line.
OneLevel == \A i \in 1..Len(files) : files[i].group \in {0, 1}
GroupNotLast == pc # "parse" /\ files # <<>> => files[Len(files)].group = 0
GroupNotFirst == pc # "parse" /\ files # <<>> => files[1].group = 0

\* While nothing was extracted from a group since its search began, the archives
\* before the position could resolve nothing.
SearchedUpTo(a) ==
    \A i \in 1..a - 1 : (\A j \in i..a - 1 : files[j].group = 1) => ~CouldResolve(i)
SearchedSoFar ==
    /\ pc = "resolve" /\ ~ls.extracted[1] => SearchedUpTo(at)
    /\ pc = "archive" /\ ls.group = 1 /\ ~ls.extracted[1] => SearchedUpTo(at)

----------------------------------------------------------------------------
(* Sequences and positions. *)

\* One element of a sequence replaced.
LEMMA Replaced ==
    ASSUME NEW S, NEW s \in Seq(S), NEW i \in 1..Len(s), NEW e \in S
    PROVE  /\ [s EXCEPT ![i] = e] \in Seq(S) /\ Len([s EXCEPT ![i] = e]) = Len(s)
           /\ \A j \in 1..Len(s) : [s EXCEPT ![i] = e][j] = IF j = i THEN e ELSE s[j]
BY ExceptSeq

\* One element added.
LEMMA Added ==
    ASSUME NEW S, NEW s \in Seq(S), NEW e \in S
    PROVE  /\ Append(s, e) \in Seq(S) /\ Len(Append(s, e)) = Len(s) + 1
           /\ \A j \in 1..Len(s) : Append(s, e)[j] = s[j]
           /\ Append(s, e)[Len(s) + 1] = e
OBVIOUS

\* Every nonempty set of natural numbers has a least element.
LEMMA Least ==
    ASSUME NEW T \in SUBSET Nat, T # {}
    PROVE  \E m \in T : \A k \in T : m <= k
<1> DEFINE R == OpToRel(<, Nat)
<1>1. IsWellFoundedOn(R, Nat)
  BY NatLessThanWellFounded
<1>2. PICK m \in T : \A k \in T : ~ (<<k, m>> \in R)
  <2> HIDE DEF R
  <2> QED BY <1>1, WFMin
<1>3. \A k \in T : ~ (k < m)
  BY <1>2 DEF OpToRel
<1> QED BY <1>3

\* A nonempty set of numbers up to n has a greatest.
LEMMA GreatestExists ==
    ASSUME NEW n \in Nat, NEW T \in SUBSET (1..n), T # {}
    PROVE  Largest(T) \in T /\ \A y \in T : y =< Largest(T)
<1> DEFINE D == {n - x : x \in T}
<1>1. D \in SUBSET Nat /\ D # {}
  <2>1. \A x \in T : n - x \in Nat
    OBVIOUS
  <2>2. D \in SUBSET Nat
    BY <2>1
  <2>3. D # {}
    OBVIOUS
  <2> QED BY <2>2, <2>3
<1>2. PICK m \in D : \A k \in D : m <= k
  <2> HIDE DEF D
  <2> QED BY <1>1, Least
<1>3. PICK x \in T : m = n - x
  OBVIOUS
<1>4. \A y \in T : n - x <= n - y
  BY <1>2, <1>3
<1>5. \A y \in T : y =< x
  BY <1>4
<1> QED BY <1>3, <1>5 DEF Largest

\* A nonempty set of natural numbers has a smallest.
LEMMA SmallestExists ==
    ASSUME NEW T \in SUBSET Nat, T # {}
    PROVE  Smallest(T) \in T
<1>1. \E x \in T : \A y \in T : x =< y
  BY Least
<1> QED BY <1>1 DEF Smallest

----------------------------------------------------------------------------
(* What the operators of the loop do to their arguments. *)

\* The fields of a file of the list.
LEMMA Listed ==
    ASSUME NEW fs \in Seq(ListedFile)
    PROVE  /\ Len(fs) \in Nat
           /\ \A i \in 1..Len(fs) :
                 /\ fs[i] \in ListedFile /\ fs[i].file \in DOMAIN Contents
                 /\ fs[i].group \in Int /\ fs[i].input \in Nat /\ fs[i].members \in MemberSets
<1>1. \A i \in 1..Len(fs) : fs[i] \in ListedFile
  OBVIOUS
<1>2. \A r \in ListedFile : /\ r.file \in DOMAIN Contents
                            /\ r.group \in Int /\ r.input \in Nat /\ r.members \in MemberSets
  BY DEF ListedFile
<1> QED BY <1>1, <1>2

\* An item of the command line changes no file that is already listed, and lists at
\* most one more, of which nothing is loaded.
LEMMA OptionTyped ==
    ASSUME NEW item \in Items, NEW s \in Options, NEW fs \in Seq(ListedFile)
    PROVE  LET o == Option(item, s, fs) IN
           /\ o.s \in Options /\ o.s.rerun = s.rerun /\ o.s.extracted = s.extracted
           /\ o.fs \in Seq(ListedFile)
           /\ \A i \in 1..Len(o.fs) :
                 \/ i \in 1..Len(fs) /\ o.fs[i] = fs[i]
                 \/ o.fs[i].input = 0 /\ o.fs[i].members = {} /\ o.fs[i].group = s.group
<1>1. ASSUME NEW f \in DOMAIN Contents
      PROVE  LET g == Append(fs, NewFile(f, s)) IN
             /\ g \in Seq(ListedFile)
             /\ \A i \in 1..Len(g) :
                   \/ i \in 1..Len(fs) /\ g[i] = fs[i]
                   \/ g[i].input = 0 /\ g[i].members = {} /\ g[i].group = s.group
  <2>1. NewFile(f, s) \in ListedFile
    BY DEF NewFile, ListedFile, Options, MemberSets
  <2>2. /\ NewFile(f, s).input = 0 /\ NewFile(f, s).members = {} /\ NewFile(f, s).group = s.group
    BY DEF NewFile
  <2>3. \A i \in 1..Len(fs) + 1 : i \in 1..Len(fs) \/ i = Len(fs) + 1
    OBVIOUS
  <2> QED BY <2>1, <2>2, <2>3, Added
<1>2. /\ [s EXCEPT !.group = @ + 1] \in Options /\ [s EXCEPT !.group = @ - 1] \in Options
      /\ [s EXCEPT !.static = TRUE] \in Options /\ [s EXCEPT !.static = FALSE] \in Options
      /\ [s EXCEPT !.whole = TRUE] \in Options /\ [s EXCEPT !.whole = FALSE] \in Options
  <2>1. [s EXCEPT !.group = @ + 1] \in Options
    BY DEF Options
  <2>2. [s EXCEPT !.group = @ - 1] \in Options
    BY DEF Options
  <2>3. /\ [s EXCEPT !.static = TRUE] \in Options /\ [s EXCEPT !.static = FALSE] \in Options
        /\ [s EXCEPT !.whole = TRUE] \in Options /\ [s EXCEPT !.whole = FALSE] \in Options
    BY DEF Options
  <2> QED BY <2>1, <2>2, <2>3
<1>3. /\ [s EXCEPT !.group = @ + 1].rerun = s.rerun /\ [s EXCEPT !.group = @ - 1].rerun = s.rerun
      /\ [s EXCEPT !.static = TRUE].rerun = s.rerun /\ [s EXCEPT !.static = FALSE].rerun = s.rerun
      /\ [s EXCEPT !.whole = TRUE].rerun = s.rerun /\ [s EXCEPT !.whole = FALSE].rerun = s.rerun
      /\ [s EXCEPT !.group = @ + 1].extracted = s.extracted
      /\ [s EXCEPT !.group = @ - 1].extracted = s.extracted
      /\ [s EXCEPT !.static = TRUE].extracted = s.extracted
      /\ [s EXCEPT !.static = FALSE].extracted = s.extracted
      /\ [s EXCEPT !.whole = TRUE].extracted = s.extracted
      /\ [s EXCEPT !.whole = FALSE].extracted = s.extracted
  BY DEF Options
<1>4. CASE item.op = "file"
  <2>1. item.arg \in DOMAIN Contents
    BY <1>4 DEF Items
  <2>2. Option(item, s, fs) = [s |-> s, fs |-> Append(fs, NewFile(item.arg, s))]
    BY <1>4 DEF Option
  <2> QED BY <2>1, <2>2, <1>1
<1>5. CASE item.op = "lib"
  <2>1. Library(item.arg, s) \in DOMAIN Contents
    BY <1>5, LinesAssumption DEF Items, Library
  <2>2. Option(item, s, fs) = [s |-> s, fs |-> Append(fs, NewFile(Library(item.arg, s), s))]
    BY <1>5 DEF Option
  <2> QED BY <2>1, <2>2, <1>1
<1>6. CASE item.op \notin {"file", "lib"}
  <2>1. /\ Option(item, s, fs).fs = fs
        /\ Option(item, s, fs).s \in
              {s, [s EXCEPT !.group = @ + 1], [s EXCEPT !.group = @ - 1],
               [s EXCEPT !.static = TRUE], [s EXCEPT !.static = FALSE],
               [s EXCEPT !.whole = TRUE], [s EXCEPT !.whole = FALSE]}
    <3> item.op \in {"(", ")", "static", "dynamic", "whole", "nowhole", "u"}
      BY <1>6 DEF Items
    <3>1. CASE item.op = "("  BY <3>1 DEF Option
    <3>2. CASE item.op = ")"  BY <3>2 DEF Option
    <3>3. CASE item.op = "static"  BY <3>3 DEF Option
    <3>4. CASE item.op = "dynamic"  BY <3>4 DEF Option
    <3>5. CASE item.op = "whole"  BY <3>5 DEF Option
    <3>6. CASE item.op = "nowhole"  BY <3>6 DEF Option
    <3>7. CASE item.op = "u"  BY <3>7 DEF Option
    <3> QED BY <3>1, <3>2, <3>3, <3>4, <3>5, <3>6, <3>7
  <2> QED BY <2>1, <1>2, <1>3
<1> QED BY <1>4, <1>5, <1>6

\* The state of the loop at the file it goes to.
LEMMA StateAtTyped ==
    ASSUME ls \in Options, files \in Seq(ListedFile), NEW p \in 1..Len(files)
    PROVE  /\ StateAt(p) \in Options /\ StateAt(p).group = files[p].group
           /\ StateAt(p).rerun = ls.rerun
           /\ \A g \in 0..MaxNestedGroup :
                 StateAt(p).extracted[g] =
                    IF g = ls.group /\ SearchAgain THEN FALSE ELSE ls.extracted[g]
<1> DEFINE e == [ls.extracted EXCEPT ![ls.group] = IF SearchAgain THEN FALSE ELSE @]
<1>1. files[p].group \in Int
  BY Listed
<1>2. StateAt(p) = [ls EXCEPT !.extracted = e, !.group = files[p].group]
  BY DEF StateAt
<1>3. ls.extracted \in LevelFlags
  BY DEF Options
<1>4. e \in LevelFlags
  BY <1>3 DEF LevelFlags
<1>5. \A g \in 0..MaxNestedGroup :
         e[g] = IF g = ls.group /\ SearchAgain THEN FALSE ELSE ls.extracted[g]
  BY <1>3 DEF LevelFlags
<1> HIDE DEF e
<1> QED BY <1>1, <1>2, <1>4, <1>5 DEF Options

\* The loop goes to the file it has reached or, to search a group again, to the
\* first file of the group.
LEMMA PositionIs ==
    ASSUME Walk, pc = "resolve", at =< Len(files), ~NoFileBefore
    PROVE  /\ Position \in 1..Len(files) /\ at \in 1..Len(files)
           /\ ~SearchAgain => Position = at
           /\ SearchAgain => /\ Position > 1 /\ Position < at
                             /\ files[Position - 1].group < ls.group
                             /\ files[at].group < ls.group
           /\ \A j \in Position..at - 1 : files[j].group >= ls.group
<1>1. /\ at \in 1..Len(files) /\ Len(files) \in Nat /\ \A j \in 1..Len(files) : files[j].group \in Int
      /\ ls.group \in Int
  <2>1. files \in Seq(ListedFile) /\ at \in Nat \ {0} /\ ls \in Options
    BY DEF Walk
  <2> QED BY <2>1, Listed DEF Options
<1>2. CASE ~SearchAgain
  BY <1>1, <1>2 DEF Position
<1>3. CASE SearchAgain
  <2> DEFINE B == Below(ls.group, at)
             q == Largest(B)
  <2>1. B \in SUBSET (1..at - 1) /\ B # {} /\ at - 1 \in Nat
    BY <1>1, <1>3 DEF Below, NoFileBefore
  <2>2. q \in B /\ \A y \in B : y =< q
    <3> HIDE DEF B
    <3> QED BY <2>1, GreatestExists
  <2>3. at - 1 \notin B
    <3>1. at # 1
      BY <2>1
    <3>2. ls.group = files[at - 1].group
      BY <3>1 DEF Walk
    <3> QED BY <3>2, <1>1, <3>1 DEF Below
  <2>4. q \in 1..at - 1 /\ q # at - 1 /\ Position = q + 1
    BY <2>1, <2>2, <2>3, <1>3 DEF Position
  <2>5. files[q].group < ls.group
    BY <2>2 DEF Below
  <2>6. \A j \in q + 1..at - 1 : j \notin B
    BY <2>2, <2>4, <1>1
  <2>7. \A j \in q + 1..at - 1 : files[j].group >= ls.group
    BY <2>6, <2>4, <1>1 DEF Below
  <2> HIDE DEF q, B
  <2> QED BY <2>4, <2>5, <2>7, <1>1, <1>3 DEF SearchAgain
<1> QED BY <1>2, <1>3

\* A new input keeps what the earlier ones do not.
LEMMA LoadObjectIs ==
    ASSUME NEW obj \in AllObjects, NEW fs, inputs \in Seq(InputObject), sg \subseteq Signatures,
           LoadObject(obj, fs)
    PROVE  /\ inputs' \in Seq(InputObject) /\ Len(inputs') = Len(inputs) + 1
           /\ \A j \in 1..Len(inputs) : inputs'[j] = inputs[j]
           /\ inputs'[Len(inputs) + 1].kept = obj.comdat \ sg
           /\ sg' = sg \cup obj.comdat /\ sg' \subseteq Signatures /\ files' = fs
<1> DEFINE n == [dso |-> obj.dso, kept |-> obj.comdat \ Dropped(obj)]
<1>1. inputs' = Append(inputs, n) /\ sg' = sg \cup obj.comdat /\ files' = fs
  BY DEF LoadObject
<1>2. obj.comdat \subseteq Signatures
  BY DEF Signatures
<1>3. n \in InputObject
  BY <1>2 DEF InputObject
<1>4. n.kept = obj.comdat \ sg
  BY DEF Dropped
<1> HIDE DEF n
<1> QED BY <1>1, <1>2, <1>3, <1>4, Added

----------------------------------------------------------------------------
(* The walk over the files. *)

\* The command line is a sequence of items.
LEMMA CmdTyped ==
    ASSUME Walk
    PROVE  /\ cmd \in Seq(Items) /\ Len(cmd) \in Nat /\ at \in Nat /\ at >= 1
           /\ \A i \in 1..Len(cmd) : cmd[i] \in Items
<1>1. cmd \in Seq(Items) /\ at \in Nat \ {0}
  BY LinesAssumption DEF Walk
<1> QED BY <1>1

LEMMA WalkInit ==
    ASSUME Init
    PROVE  Walk
<1>1. cmd \in Seq(Items) /\ Len(cmd) \in Nat
  BY LinesAssumption DEF Init
<1>2. NewState \in Options
  <2>1. [g \in 0..MaxNestedGroup |-> FALSE] \in LevelFlags
    BY DEF LevelFlags
  <2> QED BY <2>1 DEF NewState, Options
<1>3. /\ files \in Seq(ListedFile) /\ inputs \in Seq(InputObject) /\ sg \subseteq Signatures
      /\ Len(files) = 0
  BY DEF Init
<1>4. /\ cmd \in CmdLines /\ pc = "parse" /\ inputs = <<>> /\ ls = NewState /\ at = 1
      /\ pass = [k |-> 0, hit |-> FALSE]
  BY DEF Init
<1> QED BY <1>1, <1>2, <1>3, <1>4 DEF Walk

LEMMA WalkParseItem ==
    ASSUME Walk, ParseItem
    PROVE  Walk'
<1> DEFINE o == Option(cmd[at], ls, files)
<1>1. /\ cmd[at] \in Items /\ at \in Nat /\ at =< Len(cmd) /\ at >= 1 /\ Len(cmd) \in Nat
      /\ cmd \in CmdLines /\ ls \in Options /\ files \in Seq(ListedFile)
      /\ inputs = <<>> /\ sg \subseteq Signatures /\ pass \in [k : Nat, hit : BOOLEAN]
      /\ \A i \in 1..Len(files) : files[i].input = 0 /\ files[i].members = {}
  BY CmdTyped DEF Walk, ParseItem
<1>2. /\ ls' = o.s /\ files' = o.fs /\ pc' \in {"fatal", "parse"} /\ at' = at + 1
      /\ cmd' = cmd /\ inputs' = inputs /\ sg' = sg /\ pass' = pass
  BY DEF ParseItem
<1>3. /\ o.s \in Options /\ o.fs \in Seq(ListedFile)
      /\ \A i \in 1..Len(o.fs) : o.fs[i].input = 0 /\ o.fs[i].members = {}
  <2>1. /\ o.s \in Options /\ o.fs \in Seq(ListedFile)
        /\ \A i \in 1..Len(o.fs) :
              \/ i \in 1..Len(files) /\ o.fs[i] = files[i]
              \/ o.fs[i].input = 0 /\ o.fs[i].members = {}
    BY <1>1, OptionTyped
  <2> HIDE DEF o
  <2> QED BY <1>1, <2>1
<1>4. inputs \in Seq(InputObject)
  BY <1>1
<1> HIDE DEF o
<1> QED BY <1>1, <1>2, <1>3, <1>4 DEF Walk

LEMMA WalkBeginResolve ==
    ASSUME Walk, BeginResolve
    PROVE  Walk'
<1>1. CASE files = <<>>
  <2>1. /\ pc' = "fatal" /\ at' = 1 /\ UNCHANGED <<cmd, files, inputs, sg, ls, pass>>
    BY <1>1 DEF BeginResolve
  <2> QED BY <2>1 DEF Walk
<1>2. CASE files # <<>>
  <2>1. /\ pc' = "resolve" /\ ls' = [ls EXCEPT !.first = TRUE, !.group = files[1].group]
        /\ at' = 1 /\ UNCHANGED <<cmd, files, inputs, sg, pass>>
    BY <1>2 DEF BeginResolve
  <2>2. files \in Seq(ListedFile) /\ ls \in Options
    BY DEF Walk
  <2>3. Len(files) \in Nat /\ Len(files) >= 1
    BY <1>2, <2>2
  <2>4. files[1].group \in Int
    BY <2>2, <2>3, Listed
  <2>5. ls' \in Options /\ ls'.group = files[1].group
    BY <2>1, <2>2, <2>4 DEF Options
  <2> QED BY <2>1, <2>2, <2>3, <2>5, <1>2 DEF Walk
<1> QED BY <1>1, <1>2

LEMMA WalkLoadArchive ==
    ASSUME Walk, LoadArchive
    PROVE  Walk'
<1>1. /\ pc = "resolve" /\ at =< Len(files) /\ ~NoFileBefore /\ pc' = "archive" /\ at' = Position
      /\ ls' = StateAt(Position) /\ pass' = [k |-> 1, hit |-> FALSE]
      /\ IsArchive(files[Position].file) /\ UNCHANGED <<cmd, files, inputs, sg>>
  BY DEF LoadArchive
<1>2. Position \in 1..Len(files)
  BY <1>1, PositionIs
<1>3. files \in Seq(ListedFile) /\ ls \in Options /\ Len(files) \in Nat
  BY DEF Walk
<1>4. ls' \in Options /\ ls'.group = files[Position].group
  BY <1>1, <1>2, <1>3, StateAtTyped
<1> QED BY <1>1, <1>2, <1>3, <1>4 DEF Walk

\* The object LoadFile loads, and what becomes of the file it is in.
LEMMA LoadFileIs ==
    ASSUME Walk, LoadFile
    PROVE  /\ pc = "resolve" /\ at =< Len(files) /\ ~NoFileBefore
           /\ Position \in 1..Len(files) /\ ~IsArchive(files[Position].file)
           /\ Contents[files[Position].file] \in AllObjects
           /\ ls' \in Options /\ ls'.group = files[Position].group /\ ls'.rerun = ls.rerun
           /\ \A g \in 0..MaxNestedGroup :
                 ls'.extracted[g] = IF g = ls.group /\ SearchAgain THEN FALSE ELSE ls.extracted[g]
           /\ cmd' = cmd /\ pass' = pass
           /\ \/ /\ pc' \in {"fatal", "restart"} /\ (pc' = "restart" => ~ls.rerun)
                 /\ at' = Position /\ UNCHANGED <<ld, files, inputs, sg>>
              \/ /\ LoadObject(Contents[files[Position].file],
                               [files EXCEPT ![Position].input = Len(inputs) + 1])
                 /\ pc' \in {"resolve", "fatal"} /\ at' = Position + 1
<1> DEFINE p == Position
           obj == Contents[files[p].file]
<1>1. /\ pc = "resolve" /\ at =< Len(files) /\ ~NoFileBefore /\ ~IsArchive(files[p].file)
      /\ ls' = [StateAt(p) EXCEPT !.first = FALSE] /\ cmd' = cmd /\ pass' = pass
  BY DEF LoadFile
<1>2. p \in 1..Len(files)
  BY <1>1, PositionIs
<1>3. files \in Seq(ListedFile) /\ ls \in Options
  BY DEF Walk
<1>4. obj \in AllObjects
  <2>1. files[p].file \in DOMAIN Contents
    BY <1>2, <1>3, Listed
  <2> QED BY <2>1, <1>1 DEF AllObjects
<1>5. /\ StateAt(p) \in Options /\ StateAt(p).group = files[p].group /\ StateAt(p).rerun = ls.rerun
      /\ \A g \in 0..MaxNestedGroup :
            StateAt(p).extracted[g] = IF g = ls.group /\ SearchAgain THEN FALSE ELSE ls.extracted[g]
  BY <1>2, <1>3, StateAtTyped
<1>6. /\ ls' \in Options /\ ls'.group = files[p].group /\ ls'.rerun = ls.rerun
      /\ ls'.extracted = StateAt(p).extracted
  <2> DEFINE a == StateAt(p)
  <2>1. a \in Options /\ ls' = [a EXCEPT !.first = FALSE]
    BY <1>1, <1>5
  <2>2. [a EXCEPT !.first = FALSE] \in Options /\ [a EXCEPT !.first = FALSE].group = a.group
        /\ [a EXCEPT !.first = FALSE].rerun = a.rerun /\ [a EXCEPT !.first = FALSE].extracted = a.extracted
    <3> HIDE DEF a
    <3> QED BY <2>1 DEF Options
  <2> QED BY <2>1, <2>2, <1>5
<1>7. CASE obj.arch # arch
  <2>1. /\ pc' \in {"fatal", "restart"} /\ (pc' = "restart" => ~ls.rerun)
        /\ at' = p /\ UNCHANGED <<ld, files, inputs, sg>>
    BY <1>7 DEF LoadFile
  <2> QED BY <2>1, <1>1, <1>2, <1>4, <1>5, <1>6
<1>8. CASE obj.arch = arch
  <2>1. /\ LoadObject(obj, [files EXCEPT ![p].input = Len(inputs) + 1])
        /\ pc' \in {"resolve", "fatal"} /\ at' = p + 1
    BY <1>8 DEF LoadFile
  <2> HIDE DEF p
  <2> QED BY <2>1, <1>1, <1>2, <1>4, <1>5, <1>6 DEF p
<1> QED BY <1>7, <1>8

\* A file with its object recorded.
LEMMA WithInputIs ==
    ASSUME files \in Seq(ListedFile), NEW p \in 1..Len(files), NEW n \in Nat
    PROVE  LET fs == [files EXCEPT ![p].input = n] IN
           /\ fs \in Seq(ListedFile) /\ Len(fs) = Len(files)
           /\ \A i \in 1..Len(files) :
                 /\ fs[i].file = files[i].file /\ fs[i].group = files[i].group
                 /\ fs[i].members = files[i].members
                 /\ fs[i].input = IF i = p THEN n ELSE files[i].input
<1> DEFINE e == [files[p] EXCEPT !.input = n]
           fs == [files EXCEPT ![p].input = n]
<1>1. files[p] \in ListedFile
  BY Listed
<1>2. \A r \in ListedFile, v \in Nat :
         /\ [r EXCEPT !.input = v] \in ListedFile /\ [r EXCEPT !.input = v].file = r.file
         /\ [r EXCEPT !.input = v].group = r.group
         /\ [r EXCEPT !.input = v].members = r.members
         /\ [r EXCEPT !.input = v].input = v
  BY DEF ListedFile
<1>3. /\ e \in ListedFile /\ e.file = files[p].file /\ e.group = files[p].group
      /\ e.members = files[p].members /\ e.input = n
  BY <1>1, <1>2
<1>4. fs = [files EXCEPT ![p] = e]
  OBVIOUS
<1> HIDE DEF e
<1>5. /\ fs \in Seq(ListedFile) /\ Len(fs) = Len(files)
      /\ \A i \in 1..Len(files) : fs[i] = IF i = p THEN e ELSE files[i]
  <2> HIDE DEF fs
  <2> QED BY <1>3, <1>4, Replaced
<1> HIDE DEF fs
<1>6. \A i \in 1..Len(files) :
         /\ fs[i].file = files[i].file /\ fs[i].group = files[i].group
         /\ fs[i].members = files[i].members
         /\ fs[i].input = IF i = p THEN n ELSE files[i].input
  BY <1>3, <1>5
<1> QED BY <1>5, <1>6 DEF fs

LEMMA WalkLoadFile ==
    ASSUME Walk, LoadFile
    PROVE  Walk'
<1> DEFINE p == Position
<1>1. /\ pc = "resolve" /\ p \in 1..Len(files) /\ ls' \in Options /\ ls'.group = files[p].group
      /\ ls'.rerun = ls.rerun /\ cmd' = cmd /\ pass' = pass
      /\ Contents[files[p].file] \in AllObjects
      /\ \/ /\ pc' \in {"fatal", "restart"} /\ (pc' = "restart" => ~ls.rerun)
            /\ at' = p /\ UNCHANGED <<files, inputs, sg>>
         \/ /\ LoadObject(Contents[files[p].file], [files EXCEPT ![p].input = Len(inputs) + 1])
            /\ pc' \in {"resolve", "fatal"} /\ at' = p + 1
  BY LoadFileIs
<1>2. /\ files \in Seq(ListedFile) /\ inputs \in Seq(InputObject) /\ sg \subseteq Signatures
      /\ cmd \in CmdLines /\ pass \in [k : Nat, hit : BOOLEAN]
      /\ Len(files) \in Nat /\ Len(inputs) \in Nat /\ files # <<>>
  BY <1>1 DEF Walk
<1> HIDE DEF p
<1>3. CASE at' = p /\ UNCHANGED <<files, inputs, sg>> /\ pc' \in {"fatal", "restart"} /\ (pc' = "restart" => ~ls.rerun)
  BY <1>1, <1>2, <1>3 DEF Walk
<1>4. CASE /\ LoadObject(Contents[files[p].file], [files EXCEPT ![p].input = Len(inputs) + 1])
           /\ pc' \in {"resolve", "fatal"} /\ at' = p + 1
  <2> DEFINE fs == [files EXCEPT ![p].input = Len(inputs) + 1]
  <2>2. fs \in Seq(ListedFile) /\ Len(fs) = Len(files) /\ fs[p].group = files[p].group
    <3>1. Len(inputs) + 1 \in Nat
      BY <1>2
    <3> DEFINE n == Len(inputs) + 1
    <3>2. n \in Nat
      BY <3>1
    <3> HIDE DEF n
    <3>3. LET gs == [files EXCEPT ![p].input = n] IN
          gs \in Seq(ListedFile) /\ Len(gs) = Len(files) /\ gs[p].group = files[p].group
      BY <1>1, <1>2, <3>2, WithInputIs
    <3> QED BY <3>3 DEF n
  <2>3. /\ inputs' \in Seq(InputObject) /\ sg' \subseteq Signatures /\ files' = fs
    <3> HIDE DEF fs
    <3>1. LoadObject(Contents[files[p].file], fs)
      BY <1>4 DEF fs
    <3> QED BY <3>1, <1>1, <1>2, LoadObjectIs
  <2> HIDE DEF fs
  <2>4. fs # <<>> /\ Len(fs) \in Nat /\ p + 1 =< Len(fs) + 1 /\ p + 1 # 1 /\ (p + 1) - 1 = p
    BY <2>2, <1>1, <1>2
  <2> QED BY <1>1, <1>2, <1>4, <2>2, <2>3, <2>4 DEF Walk
<1> QED BY <1>1, <1>3, <1>4

\* The entry of the index an extraction serves.
Served == Smallest(Ahead)
Member == Index[Served].member
Members == files[at].members \cup {<<Member, Len(inputs) + 1>>}
WithMember == [files EXCEPT ![at] = [files[at] EXCEPT !.members = Members]]

LEMMA IndexTyped ==
    ASSUME Walk, pc = "archive"
    PROVE  /\ at \in 1..Len(files) /\ files[at].file \in DOMAIN Contents
           /\ Len(Index) \in Nat
           /\ \A k \in 1..Len(Index) : Index[k].member \in DOMAIN Contents[files[at].file].members
<1>1. /\ at \in Nat \ {0} /\ at =< Len(files) /\ IsArchive(files[at].file) /\ files \in Seq(ListedFile)
  BY DEF Walk
<1>2. at \in 1..Len(files)
  BY <1>1
<1>3. files[at].file \in DOMAIN Contents
  BY <1>1, <1>2, Listed
<1> DEFINE c == Contents[files[at].file]
<1>4. c.index \in Seq([name : Names, member : DOMAIN c.members])
  BY <1>1, <1>3, ContentsAssumption
<1>5. \A k \in 1..Len(c.index) : c.index[k] \in [name : Names, member : DOMAIN c.members]
  <2> DEFINE s == c.index
             R == [name : Names, member : DOMAIN c.members]
  <2>1. s \in Seq(R)
    BY <1>4
  <2>2. \A k \in 1..Len(s) : s[k] \in R
    <3> HIDE DEF s, R
    <3> QED BY <2>1
  <2> QED BY <2>2
<1> QED BY <1>2, <1>3, <1>4, <1>5 DEF Index

\* What an extraction does: a member that was not extracted is loaded, and the
\* archive and the level of its group are marked.
LEMMA ExtractIs ==
    ASSUME Walk, Extract
    PROVE  /\ pc = "archive" /\ at \in 1..Len(files) /\ pc' \in {"archive", "fatal"}
           /\ Served \in 1..Len(Index) /\ Served >= pass.k /\ Member \notin Extracted
           /\ Member \in DOMAIN Contents[files[at].file].members
           /\ Contents[files[at].file].members[Member] \in AllObjects
           /\ LoadObject(Contents[files[at].file].members[Member], WithMember)
           /\ pass' = [k |-> Served + 1, hit |-> TRUE] /\ UNCHANGED <<cmd, at>>
           /\ ls' \in Options /\ ls'.group = ls.group /\ ls'.rerun = ls.rerun
           /\ \A g \in 0..MaxNestedGroup :
                 ls'.extracted[g] = IF g = ls.group THEN TRUE ELSE ls.extracted[g]
<1>1. /\ pc = "archive" /\ Ahead # {} /\ pc' \in {"archive", "fatal"}
      /\ LoadObject(Contents[files[at].file].members[Member],
                    [files EXCEPT ![at].members = @ \cup {<<Member, Len(inputs) + 1>>}])
      /\ pass' = [k |-> Served + 1, hit |-> TRUE] /\ UNCHANGED <<cmd, at>>
      /\ ls' = [ls EXCEPT !.extracted[ls.group] = TRUE]
  BY DEF Extract, Served, Member
<1>2. /\ at \in 1..Len(files) /\ files[at].file \in DOMAIN Contents /\ Len(Index) \in Nat
      /\ \A k \in 1..Len(Index) : Index[k].member \in DOMAIN Contents[files[at].file].members
  BY <1>1, IndexTyped
<1>3. pass.k \in Nat /\ pass.k >= 1 /\ IsArchive(files[at].file)
  BY <1>1 DEF Walk
<1>4. Ahead \in SUBSET Nat
  BY <1>2, <1>3 DEF Ahead
<1>5. Served \in Ahead
  BY <1>1, <1>4, SmallestExists DEF Served
<1>6. Served \in 1..Len(Index) /\ Served >= pass.k /\ Wanted(ld, Served)
  BY <1>2, <1>3, <1>5 DEF Ahead
<1>7. Member \notin Extracted /\ Member \in DOMAIN Contents[files[at].file].members
  BY <1>2, <1>6 DEF Wanted, Member
<1>8. Contents[files[at].file].members[Member] \in AllObjects
  BY <1>2, <1>3, <1>7 DEF AllObjects
<1>9. [files EXCEPT ![at].members = @ \cup {<<Member, Len(inputs) + 1>>}] = WithMember
  BY DEF WithMember, Members
<1>10. /\ ls' \in Options /\ ls'.group = ls.group /\ ls'.rerun = ls.rerun
       /\ \A g \in 0..MaxNestedGroup :
             ls'.extracted[g] = IF g = ls.group THEN TRUE ELSE ls.extracted[g]
  <2> DEFINE e == [ls.extracted EXCEPT ![ls.group] = TRUE]
  <2>1. ls \in Options
    BY DEF Walk
  <2>2. ls.extracted \in LevelFlags
    BY <2>1 DEF Options
  <2>3. /\ e \in LevelFlags
        /\ \A g \in 0..MaxNestedGroup : e[g] = IF g = ls.group THEN TRUE ELSE ls.extracted[g]
    BY <2>2 DEF LevelFlags
  <2>4. ls' = [ls EXCEPT !.extracted = e]
    BY <1>1
  <2> HIDE DEF e
  <2>5. /\ [ls EXCEPT !.extracted = e] \in Options /\ [ls EXCEPT !.extracted = e].group = ls.group
        /\ [ls EXCEPT !.extracted = e].rerun = ls.rerun /\ [ls EXCEPT !.extracted = e].extracted = e
    BY <2>1, <2>3 DEF Options
  <2> QED BY <2>3, <2>4, <2>5
<1> QED BY <1>1, <1>2, <1>6, <1>7, <1>8, <1>9, <1>10

LEMMA WithMemberIs ==
    ASSUME Walk, Extract
    PROVE  /\ WithMember \in Seq(ListedFile) /\ Len(WithMember) = Len(files)
           /\ \A j \in 1..Len(files) :
                 /\ WithMember[j].file = files[j].file /\ WithMember[j].group = files[j].group
                 /\ WithMember[j].input = files[j].input
                 /\ WithMember[j].members = IF j = at THEN Members ELSE files[j].members
<1>1. /\ at \in 1..Len(files) /\ Member \in DOMAIN Contents[files[at].file].members /\ pc = "archive"
  BY ExtractIs
<1>2. files \in Seq(ListedFile) /\ inputs \in Seq(InputObject) /\ IsArchive(files[at].file)
  BY <1>1 DEF Walk
<1>3. files[at] \in ListedFile /\ files[at].file \in DOMAIN Contents /\ files[at].members \in MemberSets
  BY <1>1, <1>2, Listed
<1>4. Members \in MemberSets
  <2>1. Member \in AllMembers
    BY <1>1, <1>2, <1>3 DEF AllMembers
  <2>2. Len(inputs) + 1 \in Nat
    BY <1>2
  <2> QED BY <2>1, <2>2, <1>3 DEF MemberSets, Members
<1> DEFINE e == [files[at] EXCEPT !.members = Members]
<1>5. \A r \in ListedFile, v \in MemberSets :
         /\ [r EXCEPT !.members = v] \in ListedFile /\ [r EXCEPT !.members = v].file = r.file
         /\ [r EXCEPT !.members = v].group = r.group /\ [r EXCEPT !.members = v].input = r.input
         /\ [r EXCEPT !.members = v].members = v
  BY DEF ListedFile
<1>6. /\ e \in ListedFile /\ e.file = files[at].file /\ e.group = files[at].group
      /\ e.input = files[at].input /\ e.members = Members
  BY <1>3, <1>4, <1>5
<1>7. WithMember = [files EXCEPT ![at] = e]
  BY DEF WithMember
<1> HIDE DEF e
<1> QED BY <1>1, <1>2, <1>6, <1>7, Replaced

LEMMA WalkExtract ==
    ASSUME Walk, Extract
    PROVE  Walk'
<1>1. /\ pc = "archive" /\ at \in 1..Len(files) /\ pc' \in {"archive", "fatal"}
      /\ Served \in 1..Len(Index) /\ pass' = [k |-> Served + 1, hit |-> TRUE] /\ UNCHANGED <<cmd, at>>
      /\ LoadObject(Contents[files[at].file].members[Member], WithMember)
      /\ Contents[files[at].file].members[Member] \in AllObjects
      /\ ls' \in Options /\ ls'.group = ls.group /\ ls'.rerun = ls.rerun
  BY ExtractIs
<1>2. /\ inputs \in Seq(InputObject) /\ sg \subseteq Signatures /\ cmd \in CmdLines /\ at \in Nat \ {0}
      /\ IsArchive(files[at].file) /\ ls.group = files[at].group
  BY <1>1 DEF Walk
<1>3. /\ inputs' \in Seq(InputObject) /\ sg' \subseteq Signatures /\ files' = WithMember
  BY <1>1, <1>2, LoadObjectIs
<1>4. /\ WithMember \in Seq(ListedFile) /\ Len(WithMember) = Len(files)
      /\ WithMember[at].file = files[at].file /\ WithMember[at].group = files[at].group
  BY <1>1, WithMemberIs
<1>5. Len(Index) \in Nat
  BY <1>1, IndexTyped
<1>6. pass' \in [k : Nat, hit : BOOLEAN] /\ pass'.k >= 1 /\ pass'.hit
  BY <1>1, <1>5
<1> QED BY <1>1, <1>2, <1>3, <1>4, <1>6 DEF Walk

LEMMA WalkEndOfPass ==
    ASSUME Walk, EndOfPass
    PROVE  Walk'
<1>1. pc = "archive" /\ UNCHANGED <<cmd, files, inputs, sg, ls>>
  BY DEF EndOfPass
<1>2. at \in 1..Len(files) /\ Len(files) \in Nat /\ files # <<>> /\ ls.group = files[at].group
  BY <1>1 DEF Walk
<1>3. CASE pass.hit
  <2>1. pass' = [k |-> 1, hit |-> FALSE] /\ UNCHANGED <<pc, at>>
    BY <1>3 DEF EndOfPass
  <2> QED BY <2>1, <1>1 DEF Walk
<1>4. CASE ~pass.hit
  <2>1. pc' = "resolve" /\ at' = at + 1 /\ UNCHANGED pass
    BY <1>4 DEF EndOfPass
  <2> QED BY <2>1, <1>1, <1>2 DEF Walk
<1> QED BY <1>3, <1>4

LEMMA WalkEndOfFiles ==
    ASSUME Walk, EndOfFiles
    PROVE  Walk'
BY DEF Walk, EndOfFiles

LEMMA WalkRunOffList ==
    ASSUME Walk, RunOffList
    PROVE  Walk'
BY DEF Walk, RunOffList

LEMMA WalkRestart ==
    ASSUME Walk, Restart
    PROVE  Walk'
<1>1. /\ pc' = "parse" /\ at' = 1 /\ files' = <<>> /\ inputs' = <<>> /\ UNCHANGED <<cmd, sg, pass>>
      /\ ls' = [ls EXCEPT !.rerun = TRUE]
  BY DEF Restart
<1>2. ls \in Options
  BY DEF Walk
<1>3. ls' \in Options
  BY <1>1, <1>2 DEF Options
<1>4. Len(cmd) \in Nat
  BY CmdTyped
<1>5. files' \in Seq(ListedFile) /\ inputs' \in Seq(InputObject) /\ Len(files') = 0
  BY <1>1
<1> QED BY <1>1, <1>3, <1>4, <1>5 DEF Walk

\* What is true at each point of the program stays true.
LEMMA WalkStep ==
    ASSUME Walk, [Next]_vars
    PROVE  Walk'
<1>1. CASE Step
  BY <1>1, WalkParseItem, WalkBeginResolve, WalkRunOffList, WalkLoadArchive, WalkLoadFile,
     WalkExtract, WalkEndOfPass, WalkEndOfFiles, WalkRestart DEF Step
<1>2. CASE UNCHANGED vars
  BY <1>2 DEF vars, Walk
<1> QED BY <1>1, <1>2 DEF Next, Stop

LEMMA WalkAlways == Spec => []Walk
<1>1. Init => Walk
  BY WalkInit
<1>2. Walk /\ [Next]_vars => Walk'
  BY WalkStep
<1> QED BY <1>1, <1>2, PTL DEF Spec

----------------------------------------------------------------------------
(* Section groups: at most one input keeps a signature. *)

\* An action that loads no object leaves the inputs and their groups alone, or
\* starts again with none.
LEMMA LoadsOrNot ==
    ASSUME Walk, [Next]_vars
    PROVE  \/ UNCHANGED <<inputs, sg>>
           \/ inputs' = <<>> /\ sg' = sg
           \/ \E fs : \E obj \in AllObjects : LoadObject(obj, fs)
<1>1. CASE ParseItem
  BY <1>1 DEF ParseItem
<1>2. CASE BeginResolve
  BY <1>2 DEF BeginResolve
<1>3. CASE RunOffList
  BY <1>3 DEF RunOffList
<1>4. CASE LoadArchive
  BY <1>4 DEF LoadArchive
<1>5. CASE LoadFile
  BY <1>5, LoadFileIs
<1>6. CASE Extract
  BY <1>6, ExtractIs
<1>7. CASE EndOfPass
  BY <1>7 DEF EndOfPass
<1>8. CASE EndOfFiles
  BY <1>8 DEF EndOfFiles
<1>9. CASE Restart
  BY <1>9 DEF Restart
<1>10. CASE UNCHANGED vars
  BY <1>10 DEF vars
<1> QED BY <1>1, <1>2, <1>3, <1>4, <1>5, <1>6, <1>7, <1>8, <1>9, <1>10 DEF Next, Step, Stop

LEMMA KeptOnceStep ==
    ASSUME Walk, KeptOnce, [Next]_vars
    PROVE  KeptOnce'
<1>1. CASE UNCHANGED <<inputs, sg>>
  BY <1>1 DEF KeptOnce
<1>2. CASE inputs' = <<>> /\ sg' = sg
  BY <1>2 DEF KeptOnce
<1>3. ASSUME NEW obj \in AllObjects, NEW fs, LoadObject(obj, fs)
      PROVE  KeptOnce'
  <2>1. inputs \in Seq(InputObject) /\ sg \subseteq Signatures
    BY DEF Walk
  <2>2. /\ Len(inputs') = Len(inputs) + 1 /\ \A j \in 1..Len(inputs) : inputs'[j] = inputs[j]
        /\ inputs'[Len(inputs) + 1].kept = obj.comdat \ sg /\ sg' = sg \cup obj.comdat
    BY <1>3, <2>1, LoadObjectIs
  <2>3. \A i \in 1..Len(inputs) + 1 : i \in 1..Len(inputs) \/ i = Len(inputs) + 1
    BY <2>1
  <2>4. ASSUME NEW i \in 1..Len(inputs')
        PROVE  inputs'[i].kept \subseteq sg'
    BY <2>2, <2>3 DEF KeptOnce
  <2>5. ASSUME NEW i \in 1..Len(inputs'), NEW j \in 1..Len(inputs'), i # j
        PROVE  inputs'[i].kept \cap inputs'[j].kept = {}
    <3>1. CASE i \in 1..Len(inputs) /\ j \in 1..Len(inputs)
      BY <3>1, <2>2, <2>5 DEF KeptOnce
    <3>2. CASE i \in 1..Len(inputs) /\ j = Len(inputs) + 1
      BY <3>2, <2>2 DEF KeptOnce
    <3>3. CASE i = Len(inputs) + 1 /\ j \in 1..Len(inputs)
      BY <3>3, <2>2 DEF KeptOnce
    <3> QED BY <3>1, <3>2, <3>3, <2>2, <2>3, <2>5
  <2> QED BY <2>4, <2>5 DEF KeptOnce
<1> QED BY <1>1, <1>2, <1>3, LoadsOrNot

\* Of the section groups with one signature at most one is included, whatever is
\* linked: a group is left out when its signature was read before
\* (ld_input_init_sections, _search_sg).
THEOREM SignaturesKeptOnce == Spec => []KeptOnce
<1>1. Init => KeptOnce
  BY DEF Init, KeptOnce
<1>2. Walk /\ KeptOnce /\ [Next]_vars => KeptOnce'
  BY KeptOnceStep
<1> QED BY <1>1, <1>2, WalkAlways, PTL DEF Spec

----------------------------------------------------------------------------
(* Section groups: some input of the list keeps each signature. *)

LEMMA LinkedIs ==
    ASSUME NEW x
    PROVE  x \in LinkedInputs <=> \E i \in 1..Len(files) : \/ files[i].input = x
                                                         \/ \E m \in files[i].members : m[2] = x
BY DEF LinkedInputs

\* No object is loaded again: the files from the position on hold none.
LEMMA NoneLoadedBeyond ==
    ASSUME Walk, AllLinked, OnlyArchivesGrouped, pc = "resolve", at =< Len(files), ~NoFileBefore
    PROVE  \A i \in 1..Len(files) : files[i].input # 0 => i < Position /\ ~IsArchive(files[i].file)
<1>1. /\ Position \in 1..Len(files) /\ at \in 1..Len(files) /\ Len(files) \in Nat
      /\ ~SearchAgain => Position = at
      /\ SearchAgain => Position < at /\ files[at].group < ls.group
      /\ \A j \in Position..at - 1 : files[j].group >= ls.group
  <2>1. files \in Seq(ListedFile)
    BY DEF Walk
  <2> QED BY <2>1, PositionIs
<1>2. ASSUME NEW i \in 1..Len(files), files[i].input # 0
      PROVE  i < Position /\ ~IsArchive(files[i].file)
  <2>1. i < at /\ ~IsArchive(files[i].file)
    BY <1>2 DEF AllLinked
  <2>2. CASE ~SearchAgain
    BY <2>1, <2>2, <1>1
  <2>3. CASE SearchAgain
    <3>1. SUFFICES ASSUME i \in Position..at - 1 PROVE FALSE
      BY <2>1, <1>1
    <3>2. /\ files[i].group >= ls.group /\ files[at].group < ls.group /\ files[at].group >= 0
      BY <3>1, <2>3, <1>1 DEF AllLinked
    <3>3. files[i].group \in Int /\ files[at].group \in Int /\ ls.group \in Int
      <4>1. files \in Seq(ListedFile) /\ ls \in Options
        BY DEF Walk
      <4> QED BY <4>1, <1>1, Listed DEF Options
    <3> QED BY <3>2, <3>3, <2>1 DEF OnlyArchivesGrouped
  <2> QED BY <2>2, <2>3
<1> QED BY <1>2

\* The inputs after an object was loaded: fs is the list of files with it recorded.
LEMMA OneMoreLinked ==
    ASSUME Walk, AllLinked, NEW obj \in AllObjects, NEW fs, LoadObject(obj, fs),
           Len(fs) = Len(files),
           \A i \in 1..Len(files) :
              /\ fs[i].group = files[i].group
              /\ fs[i].input \in {files[i].input, Len(inputs) + 1}
              /\ files[i].input # 0 => fs[i].input = files[i].input
              /\ files[i].members \subseteq fs[i].members
              /\ \A m \in fs[i].members : m \in files[i].members \/ m[2] = Len(inputs) + 1,
           \E i \in 1..Len(files) : \/ fs[i].input = Len(inputs) + 1
                                    \/ \E m \in fs[i].members : m[2] = Len(inputs) + 1
    PROVE  /\ \A i \in 1..Len(files') : files'[i].group >= 0
           /\ \A i \in 1..Len(files') : files'[i].input \in 0..Len(inputs')
           /\ \A i \in 1..Len(files') : \A m \in files'[i].members : m[2] \in 1..Len(inputs')
           /\ 1..Len(inputs') \subseteq LinkedInputs'
           /\ sg' \subseteq UNION {inputs'[i].kept : i \in 1..Len(inputs')}
<1> DEFINE n == Len(inputs) + 1
<1>1. inputs \in Seq(InputObject) /\ sg \subseteq Signatures /\ n \in Nat /\ n >= 1
  BY DEF Walk
<1>2. /\ Len(inputs') = n /\ files' = fs /\ sg' = sg \cup obj.comdat
      /\ \A j \in 1..Len(inputs) : inputs'[j] = inputs[j]
      /\ inputs'[n].kept = obj.comdat \ sg
  BY <1>1, LoadObjectIs
<1>3. \A i \in 1..Len(files') : files'[i].group >= 0
  BY <1>2 DEF AllLinked
<1>4. \A i \in 1..Len(files') : files'[i].input \in 0..Len(inputs')
  BY <1>1, <1>2 DEF AllLinked
<1>5. \A i \in 1..Len(files') : \A m \in files'[i].members : m[2] \in 1..Len(inputs')
  BY <1>1, <1>2 DEF AllLinked
<1>6. ASSUME NEW x \in 1..Len(inputs')
      PROVE  x \in LinkedInputs'
  <2>1. \E i \in 1..Len(files) : fs[i].input = x \/ \E m \in fs[i].members : m[2] = x
    <3>1. CASE x = n
      BY <3>1
    <3>2. CASE x # n
      <4>1. x \in 1..Len(inputs) /\ x # 0
        BY <3>2, <1>1, <1>2
      <4>2. x \in LinkedInputs
        BY <4>1 DEF AllLinked
      <4>3. PICK i \in 1..Len(files) : files[i].input = x \/ \E m \in files[i].members : m[2] = x
        BY <4>2, LinkedIs
      <4> QED BY <4>1, <4>3
    <3> QED BY <3>1, <3>2
  <2> QED BY <2>1, <1>2 DEF LinkedInputs
<1>7. ASSUME NEW g \in sg'
      PROVE  \E i \in 1..Len(inputs') : g \in inputs'[i].kept
  <2>1. CASE g \in sg
    <3>1. PICK i \in 1..Len(inputs) : g \in inputs[i].kept
      BY <2>1 DEF AllLinked
    <3> QED BY <3>1, <1>1, <1>2
  <2>2. CASE g \in obj.comdat \ sg
    BY <2>2, <1>1, <1>2
  <2> QED BY <2>1, <2>2, <1>2
<1> QED BY <1>3, <1>4, <1>5, <1>6, <1>7

LEMMA AllLinkedStep ==
    ASSUME Walk, AllLinked, LevelNotNegative, OnlyArchivesGrouped, RestartBare, [Next]_vars
    PROVE  AllLinked'
<1>1. CASE ParseItem
  <2> DEFINE o == Option(cmd[at], ls, files)
  <2>1. /\ pc = "parse" /\ cmd[at] \in Items /\ ls \in Options /\ files \in Seq(ListedFile) /\ inputs = <<>>
        /\ \A i \in 1..Len(files) : files[i].input = 0 /\ files[i].members = {}
    BY <1>1, CmdTyped DEF Walk, ParseItem
  <2>2. /\ files' = o.fs /\ inputs' = inputs /\ sg' = sg /\ pc' \in {"fatal", "parse"}
    BY <1>1 DEF ParseItem
  <2>3. /\ o.fs \in Seq(ListedFile)
        /\ \A i \in 1..Len(o.fs) :
              \/ i \in 1..Len(files) /\ o.fs[i] = files[i]
              \/ o.fs[i].input = 0 /\ o.fs[i].members = {} /\ o.fs[i].group = ls.group
    BY <2>1, OptionTyped
  <2> HIDE DEF o
  <2>4. Len(inputs) = 0
    BY <2>1
  <2>5. /\ \A i \in 1..Len(files') : files'[i].group >= 0
        /\ \A i \in 1..Len(files') : files'[i].input = 0 /\ files'[i].members = {}
    BY <2>1, <2>2, <2>3 DEF AllLinked, LevelNotNegative
  <2>6. sg' \subseteq UNION {inputs'[i].kept : i \in 1..Len(inputs')}
    BY <2>2 DEF AllLinked
  <2>7. 1..Len(inputs') = {} /\ 0 \in 0..Len(inputs')
    BY <2>2, <2>4
  <2> QED BY <2>2, <2>5, <2>6, <2>7 DEF AllLinked
<1>2. CASE BeginResolve
  <2>1. /\ UNCHANGED <<files, inputs, sg>> /\ pc = "parse"
    BY <1>2 DEF BeginResolve
  <2>2. \A i \in 1..Len(files) : files[i].input = 0
    BY <2>1 DEF Walk
  <2> QED BY <2>1, <2>2 DEF AllLinked, LinkedInputs
<1>3. CASE RunOffList
  BY <1>3 DEF RunOffList, AllLinked, LinkedInputs
<1>4. CASE LoadArchive
  <2>1. /\ UNCHANGED <<files, inputs, sg>> /\ at' = Position /\ pc = "resolve"
        /\ at =< Len(files) /\ ~NoFileBefore
    BY <1>4 DEF LoadArchive
  <2>2. \A i \in 1..Len(files) : files[i].input # 0 => i < Position /\ ~IsArchive(files[i].file)
    BY <2>1, NoneLoadedBeyond
  <2>3. \A i \in 1..Len(files') : files'[i].input # 0 => i < at' /\ ~IsArchive(files'[i].file)
    BY <2>1, <2>2
  <2>4. LinkedInputs' = LinkedInputs
    BY <2>1 DEF LinkedInputs
  <2> QED BY <2>1, <2>3, <2>4 DEF AllLinked
<1>5. CASE LoadFile
  <2> DEFINE p == Position
             obj == Contents[files[p].file]
             fs == [files EXCEPT ![p].input = Len(inputs) + 1]
  <2>1. /\ pc = "resolve" /\ at =< Len(files) /\ ~NoFileBefore /\ p \in 1..Len(files)
        /\ ~IsArchive(files[p].file) /\ obj \in AllObjects
        /\ \/ pc' \in {"fatal", "restart"} /\ UNCHANGED <<files, inputs, sg>>
           \/ LoadObject(obj, fs) /\ pc' \in {"resolve", "fatal"} /\ at' = p + 1
    BY <1>5, LoadFileIs
  <2>2. \A i \in 1..Len(files) : files[i].input # 0 => i < p /\ ~IsArchive(files[i].file)
    BY <2>1, NoneLoadedBeyond
  <2>3. CASE pc' \in {"fatal", "restart"} /\ UNCHANGED <<files, inputs, sg>>
    <3>1. LinkedInputs' = LinkedInputs
      BY <2>3 DEF LinkedInputs
    <3> QED BY <2>3, <3>1 DEF AllLinked
  <2>4. CASE LoadObject(obj, fs) /\ pc' \in {"resolve", "fatal"} /\ at' = p + 1
    <3>1. files \in Seq(ListedFile) /\ inputs \in Seq(InputObject) /\ sg \subseteq Signatures
      BY DEF Walk
    <3>2. /\ Len(fs) = Len(files) /\ Len(files) \in Nat /\ Len(inputs) + 1 \in Nat
          /\ \A i \in 1..Len(files) :
                /\ fs[i].group = files[i].group /\ fs[i].members = files[i].members
                /\ fs[i].file = files[i].file
                /\ fs[i].input = IF i = p THEN Len(inputs) + 1 ELSE files[i].input
      BY <2>1, <3>1, WithInputIs
    <3> HIDE DEF fs, p, obj
    <3>3. files[p].input = 0
      <4>1. p \in Nat
        BY <2>1
      <4> QED BY <2>1, <2>2, <4>1
    <3>4. files' = fs
      BY <2>1, <2>4, <3>1, LoadObjectIs
    <3>5. /\ \A i \in 1..Len(files') : files'[i].group >= 0
          /\ \A i \in 1..Len(files') : files'[i].input \in 0..Len(inputs')
          /\ \A i \in 1..Len(files') : \A m \in files'[i].members : m[2] \in 1..Len(inputs')
          /\ 1..Len(inputs') \subseteq LinkedInputs'
          /\ sg' \subseteq UNION {inputs'[i].kept : i \in 1..Len(inputs')}
      <4>1. \E i \in 1..Len(files) : fs[i].input = Len(inputs) + 1
        BY <2>1, <3>2
      <4> QED BY <2>1, <2>4, <3>2, <3>3, <4>1, OneMoreLinked
    <3>6. \A i \in 1..Len(files') : files'[i].input # 0 => i < at' /\ ~IsArchive(files'[i].file)
      BY <2>1, <2>2, <2>4, <3>2, <3>4
    <3> QED BY <3>5, <3>6 DEF AllLinked
  <2> QED BY <2>1, <2>3, <2>4
<1>6. CASE Extract
  <2>1. /\ pc = "archive" /\ at \in 1..Len(files) /\ pc' \in {"archive", "fatal"} /\ UNCHANGED at
        /\ Contents[files[at].file].members[Member] \in AllObjects
        /\ LoadObject(Contents[files[at].file].members[Member], WithMember)
    BY <1>6, ExtractIs
  <2>2. /\ Len(WithMember) = Len(files)
        /\ \A j \in 1..Len(files) :
              /\ WithMember[j].file = files[j].file /\ WithMember[j].group = files[j].group
              /\ WithMember[j].input = files[j].input
              /\ WithMember[j].members = IF j = at THEN Members ELSE files[j].members
    BY <1>6, WithMemberIs
  <2>3. inputs \in Seq(InputObject) /\ sg \subseteq Signatures
    BY DEF Walk
  <2>4. files' = WithMember
    BY <2>1, <2>3, LoadObjectIs
  <2>5. /\ \A i \in 1..Len(files') : files'[i].group >= 0
        /\ \A i \in 1..Len(files') : files'[i].input \in 0..Len(inputs')
        /\ \A i \in 1..Len(files') : \A m \in files'[i].members : m[2] \in 1..Len(inputs')
        /\ 1..Len(inputs') \subseteq LinkedInputs'
        /\ sg' \subseteq UNION {inputs'[i].kept : i \in 1..Len(inputs')}
    <3>1. /\ <<Member, Len(inputs) + 1>> \in Members /\ files[at].members \subseteq Members
          /\ \A m \in Members : m \in files[at].members \/ m[2] = Len(inputs) + 1
      BY DEF Members
    <3>2. \E m \in WithMember[at].members : m[2] = Len(inputs) + 1
      BY <2>1, <2>2, <3>1
    <3> QED BY <2>1, <2>2, <3>1, <3>2, OneMoreLinked
  <2>6. \A i \in 1..Len(files') : files'[i].input # 0 => i < at' /\ ~IsArchive(files'[i].file)
    BY <2>1, <2>2, <2>4 DEF AllLinked
  <2> QED BY <2>5, <2>6 DEF AllLinked
<1>7. CASE EndOfPass
  <2>1. /\ UNCHANGED <<files, inputs, sg>> /\ pc = "archive" /\ at' \in {at, at + 1} /\ at \in Nat
    BY <1>7 DEF EndOfPass, Walk
  <2>2. \A i \in 1..Len(files') : files'[i].input # 0 => i < at' /\ ~IsArchive(files'[i].file)
    BY <2>1 DEF AllLinked
  <2>3. LinkedInputs' = LinkedInputs
    BY <2>1 DEF LinkedInputs
  <2> QED BY <2>1, <2>2, <2>3 DEF AllLinked
<1>8. CASE EndOfFiles
  BY <1>8 DEF EndOfFiles, AllLinked, LinkedInputs
<1>9. CASE Restart
  <2>1. files' = <<>> /\ inputs' = <<>> /\ sg' = {} /\ pc' = "parse"
    BY <1>9 DEF Restart, RestartBare
  <2> QED BY <2>1 DEF AllLinked
<1>10. CASE UNCHANGED vars
  BY <1>10 DEF vars, AllLinked, LinkedInputs
<1> QED BY <1>1, <1>2, <1>3, <1>4, <1>5, <1>6, <1>7, <1>8, <1>9, <1>10 DEF Next, Step, Stop

\* Of the section groups with one signature exactly one is included, in an input
\* that is laid out, for any link in which only archives are between --start-group
\* and --end-group, no group is closed that was not opened, and no signature was
\* read before the link starts again for another architecture.
THEOREM ComdatOnce ==
    Spec /\ []LevelNotNegative /\ []OnlyArchivesGrouped /\ []RestartBare => []ComdatKeptOnce
<1>1. Init => AllLinked
  BY DEF Init, AllLinked, LinkedInputs
<1>2. /\ Walk /\ AllLinked /\ LevelNotNegative /\ OnlyArchivesGrouped /\ RestartBare /\ [Next]_vars
      => AllLinked'
  BY AllLinkedStep
<1>3. Walk /\ KeptOnce /\ AllLinked => ComdatKeptOnce
  <2> SUFFICES ASSUME Walk, KeptOnce, AllLinked, NEW g \in sg
               PROVE  \E i \in LinkedInputs \ {0} :
                         /\ g \in inputs[i].kept
                         /\ \A j \in LinkedInputs \ {0} : g \in inputs[j].kept => j = i
    BY DEF ComdatKeptOnce
  <2>1. PICK i \in 1..Len(inputs) : g \in inputs[i].kept
    BY DEF AllLinked
  <2>2. i \in LinkedInputs \ {0}
    BY DEF AllLinked
  <2>3. ASSUME NEW j \in LinkedInputs \ {0}, g \in inputs[j].kept
        PROVE  j = i
    <3>1. PICK f \in 1..Len(files) : files[f].input = j \/ \E m \in files[f].members : m[2] = j
      BY LinkedIs
    <3>2. Len(inputs) \in Nat
      BY DEF Walk
    <3>3. j \in 1..Len(inputs)
      BY <3>1, <3>2 DEF AllLinked
    <3> QED BY <3>3, <2>1, <2>3 DEF KeptOnce
  <2> QED BY <2>1, <2>2, <2>3
<1> QED BY <1>1, <1>2, <1>3, WalkAlways, SignaturesKeptOnce, PTL DEF Spec

----------------------------------------------------------------------------
(* Groups are searched until nothing is resolved. *)

\* A pass over the index of an archive that extracts nothing leaves nothing in it
\* that could be extracted for an undefined symbol.
LEMMA PassSearches ==
    ASSUME Walk, pc = "archive", Ahead = {}, ~pass.hit
    PROVE  ~CouldResolve(at)
<1>1. pass.k = 1
  BY DEF Walk
<1>2. SUFFICES ASSUME CouldResolve(at) PROVE FALSE
  OBVIOUS
<1>3. PICK k \in 1..Len(Index) : /\ Undefined(Index[k].name)
                                 /\ \A m \in files[at].members : m[1] # Index[k].member
  BY <1>2 DEF CouldResolve, Index
<1>4. Find(ld, <<Index[k].name, Unversioned>>) # {}
  BY <1>3 DEF Undefined, Find
<1>5. Wanted(ld, k)
  BY <1>3, <1>4 DEF Wanted, Extracted
<1>6. k \in Ahead
  BY <1>1, <1>5 DEF Ahead
<1> QED BY <1>6

LEMMA SearchedStep ==
    ASSUME Walk, SearchedSoFar, OneLevel, OnlyArchivesGrouped, [Next]_vars
    PROVE  SearchedSoFar'
<1>1. CASE pc' \notin {"resolve", "archive"}
  BY <1>1 DEF SearchedSoFar
<1>2. CASE BeginResolve
  <2>1. at' = 1 /\ pc' # "archive"
    BY <1>2 DEF BeginResolve
  <2>2. \A i \in 1..at' - 1 : FALSE
    BY <2>1
  <2> QED BY <2>1, <2>2 DEF SearchedSoFar, SearchedUpTo
<1>3. CASE LoadArchive
  <2>1. /\ pc = "resolve" /\ at =< Len(files) /\ ~NoFileBefore /\ pc' = "archive" /\ at' = Position
        /\ ls' = StateAt(Position) /\ UNCHANGED <<ld, files>>
    BY <1>3 DEF LoadArchive
  <2>2. /\ Position \in 1..Len(files) /\ files \in Seq(ListedFile) /\ ls \in Options /\ Len(files) \in Nat
        /\ ~SearchAgain => Position = at
        /\ SearchAgain => /\ Position > 1 /\ Position < at
                          /\ files[Position - 1].group < ls.group
    BY <2>1, PositionIs DEF Walk
  <2>3. ls'.extracted[1] = IF 1 = ls.group /\ SearchAgain THEN FALSE ELSE ls.extracted[1]
    <3>1. 1 \in 0..MaxNestedGroup
      BY DEF MaxNestedGroup
    <3> QED BY <2>1, <2>2, <3>1, StateAtTyped
  <2>4. CASE ~SearchAgain
    <3>1. at' = at /\ ls'.extracted[1] = ls.extracted[1]
      BY <2>1, <2>2, <2>3, <2>4
    <3>2. ~ls.extracted[1] => SearchedUpTo(at)
      BY <2>1 DEF SearchedSoFar
    <3>3. SearchedUpTo(at) => SearchedUpTo(at)'
      BY <2>1, <3>1 DEF SearchedUpTo, CouldResolve, Undefined
    <3> QED BY <2>1, <3>1, <3>2, <3>3 DEF SearchedSoFar
  <2>5. CASE SearchAgain
    <3>1. /\ Position - 1 \in 1..Len(files) /\ ls.group =< 1
      <4>1. \A j \in 1..Len(files) : files[j].group \in {0, 1}
        BY DEF OneLevel
      <4>2. /\ at \in Nat \ {0} /\ (IF at = 1 THEN 1 ELSE at - 1) \in 1..Len(files)
            /\ ls.group = files[IF at = 1 THEN 1 ELSE at - 1].group
        BY <2>1, <2>2 DEF Walk
      <4> QED BY <4>1, <4>2, <2>2, <2>5
    <3>2. files[Position - 1].group # 1
      <4>1. files[Position - 1].group \in Int /\ ls.group \in Int
        BY <3>1, <2>2, Listed DEF Options
      <4> QED BY <4>1, <3>1, <2>2, <2>5
    <3>3. SearchedUpTo(at)'
      <4>1. \A i \in 1..Position - 1 : Position - 1 \in i..Position - 1
        BY <2>2
      <4>2. \A i \in 1..Position - 1 : ~ \A j \in i..Position - 1 : files[j].group = 1
        BY <4>1, <3>2
      <4> QED BY <4>2, <2>1 DEF SearchedUpTo
    <3> QED BY <3>3 DEF SearchedSoFar
  <2> QED BY <2>4, <2>5
<1>4. CASE LoadFile /\ pc' = "resolve"
  <2> DEFINE p == Position
  <2>1. /\ p \in 1..Len(files) /\ ~IsArchive(files[p].file) /\ at' = p + 1
        /\ Contents[files[p].file] \in AllObjects
        /\ LoadObject(Contents[files[p].file], [files EXCEPT ![p].input = Len(inputs) + 1])
    BY <1>4, LoadFileIs
  <2>2. files \in Seq(ListedFile) /\ inputs \in Seq(InputObject) /\ sg \subseteq Signatures
    BY DEF Walk
  <2>3. files[p].group \in {0, 1} /\ ~ (files[p].group > 0)
    BY <2>1 DEF OneLevel, OnlyArchivesGrouped
  <2>4. files' = [files EXCEPT ![p].input = Len(inputs) + 1]
    BY <2>1, <2>2, LoadObjectIs
  <2>5. files'[p].group = files[p].group
    <3>1. files'[p] = [files[p] EXCEPT !.input = Len(inputs) + 1]
      BY <2>1, <2>2, <2>4
    <3>2. files[p] \in ListedFile
      BY <2>1, <2>2, Listed
    <3> QED BY <3>1, <3>2 DEF ListedFile
  <2>6. \A i \in 1..at' - 1 : p \in i..at' - 1
    <3>1. p \in Nat
      BY <2>1, <2>2
    <3> QED BY <3>1, <2>1
  <2>7. \A i \in 1..at' - 1 : ~ \A j \in i..at' - 1 : files'[j].group = 1
    BY <2>3, <2>5, <2>6
  <2> QED BY <2>7, <1>4 DEF SearchedSoFar, SearchedUpTo
<1>5. CASE Extract
  <2>1. /\ pc' \in {"archive", "fatal"} /\ ls'.group = ls.group
        /\ \A g \in 0..MaxNestedGroup :
              ls'.extracted[g] = IF g = ls.group THEN TRUE ELSE ls.extracted[g]
    BY <1>5, ExtractIs
  <2>2. ls'.group = 1 => ls'.extracted[1] = TRUE
    <3>1. 1 \in 0..MaxNestedGroup
      BY DEF MaxNestedGroup
    <3> QED BY <2>1, <3>1
  <2> QED BY <2>1, <2>2 DEF SearchedSoFar
<1>6. CASE EndOfPass
  <2>1. pc = "archive" /\ Ahead = {} /\ UNCHANGED <<ld, files, ls>>
    BY <1>6 DEF EndOfPass
  <2>2. CASE pass.hit
    <3>1. UNCHANGED <<pc, at>>
      BY <1>6, <2>2 DEF EndOfPass
    <3> QED BY <2>1, <3>1 DEF SearchedSoFar, SearchedUpTo, CouldResolve, Undefined
  <2>3. CASE ~pass.hit
    <3>1. pc' = "resolve" /\ at' = at + 1
      BY <1>6, <2>3 DEF EndOfPass
    <3>2. ~CouldResolve(at)
      BY <2>1, <2>3, PassSearches
    <3>3. at \in Nat /\ ls.group = files[at].group
      BY <2>1 DEF Walk
    <3>4. ASSUME ~ls.extracted[1], NEW i \in 1..at, \A j \in i..at : files[j].group = 1
          PROVE  ~CouldResolve(i)
      <4>1. CASE i = at
        BY <4>1, <3>2
      <4>2. CASE i # at
        <5>1. i \in 1..at - 1 /\ at \in i..at
          BY <4>2, <3>3
        <5>2. ls.group = 1
          BY <5>1, <3>3, <3>4
        <5>3. SearchedUpTo(at)
          BY <2>1, <3>4, <5>2 DEF SearchedSoFar
        <5>4. \A j \in i..at - 1 : files[j].group = 1
          BY <3>3, <3>4
        <5> QED BY <5>1, <5>3, <5>4 DEF SearchedUpTo
      <4> QED BY <4>1, <4>2
    <3>5. \A i \in 1..at : CouldResolve(i)' = CouldResolve(i)
      BY <2>1 DEF CouldResolve, Undefined
    <3>6. ~ls'.extracted[1] => SearchedUpTo(at)'
      <4>1. at' - 1 = at
        BY <3>1, <3>3
      <4> QED BY <4>1, <2>1, <3>4, <3>5 DEF SearchedUpTo
    <3> QED BY <3>1, <3>6 DEF SearchedSoFar
  <2> QED BY <2>2, <2>3
<1>7. CASE UNCHANGED vars
  BY <1>7 DEF vars, SearchedSoFar, SearchedUpTo, CouldResolve, Undefined
<1>8. ParseItem \/ RunOffList \/ EndOfFiles \/ Restart => pc' \notin {"resolve", "archive"}
  BY DEF ParseItem, RunOffList, EndOfFiles, Restart
<1>9. LoadFile => pc' \in {"resolve", "fatal", "restart"}
  BY LoadFileIs
<1> QED BY <1>1, <1>2, <1>3, <1>4, <1>5, <1>6, <1>7, <1>8, <1>9 DEF Next, Step, Stop

\* When the loop goes on after a group, or ends, the search of the group is over.
LEMMA GoesOnWhenSearched ==
    ASSUME Walk, SearchedSoFar, OneLevel, OnlyArchivesGrouped, GroupNotLast, Step,
           pc = "resolve", pc' # "crash", at' >= at, NEW i \in GroupBefore(at)
    PROVE  ~CouldResolve(i)
<1>1. /\ files \in Seq(ListedFile) /\ ls \in Options /\ Len(files) \in Nat /\ at \in Nat \ {0}
      /\ files # <<>> /\ at =< Len(files) + 1 /\ ls.group = files[IF at = 1 THEN 1 ELSE at - 1].group
  BY DEF Walk
<1>2. i \in 1..at - 1 /\ at > 1 /\ at - 1 \in i..at - 1
  BY <1>1 DEF GroupBefore
<1>3. ls.group = files[at - 1].group /\ at - 1 \in 1..Len(files)
  BY <1>1, <1>2
<1>4. CASE at > Len(files)
  <2>1. Len(files) \in i..at - 1 /\ Len(files) = at - 1
    BY <1>1, <1>2, <1>4
  <2>2. files[Len(files)].group > 0
    BY <2>1, <1>4 DEF GroupBefore
  <2>3. files[Len(files)].group = 0
    BY <1>1 DEF GroupNotLast
  <2> QED BY <2>2, <2>3
<1>5. CASE at =< Len(files)
  <2>1. at \in 1..Len(files) /\ \A j \in i..at - 1 : j \in 1..Len(files)
    BY <1>1, <1>2, <1>5
  <2>2. \A j \in i..at - 1 : files[j].group > files[at].group
    BY <1>5, <1>1 DEF GroupBefore
  <2>3. files[at].group = 0 /\ \A j \in i..at - 1 : files[j].group = 1
    BY <2>1, <2>2, <1>2 DEF OneLevel
  <2>4. ls.group = 1
    BY <2>3, <1>2, <1>3
  <2>5. ~SearchAgain
    <3>1. SUFFICES ASSUME SearchAgain PROVE FALSE
      OBVIOUS
    <3>2. \/ LoadArchive
          \/ LoadFile
      <4>1. RunOffList \/ LoadArchive \/ LoadFile
        BY <1>1, <1>5 DEF Step, ParseItem, BeginResolve, Extract, EndOfPass, EndOfFiles, Restart
      <4>2. ~RunOffList
        BY DEF RunOffList
      <4> QED BY <4>1, <4>2
    <3>3. ~NoFileBefore
      BY <3>2 DEF LoadArchive, LoadFile
    <3>4. /\ Position < at /\ Position \in 1..Len(files)
          /\ \A j \in Position..at - 1 : files[j].group >= ls.group
      BY <3>1, <3>3, <1>5, PositionIs
    <3>5. CASE LoadArchive
      <4>1. at' = Position
        BY <3>5 DEF LoadArchive
      <4> QED BY <4>1, <3>4, <1>1
    <3>6. CASE LoadFile
      <4>1. ~IsArchive(files[Position].file)
        BY <3>6 DEF LoadFile
      <4>2. Position \in Position..at - 1
        BY <3>4, <1>1
      <4>3. files[Position].group >= 1 /\ files[Position].group \in {0, 1}
        BY <4>2, <3>4, <2>4 DEF OneLevel
      <4> QED BY <4>1, <4>3, <3>4 DEF OnlyArchivesGrouped
    <3> QED BY <3>2, <3>5, <3>6
  <2>6. ~ls.extracted[1]
    BY <2>3, <2>4, <2>5 DEF SearchAgain
  <2> QED BY <2>3, <2>6, <1>2 DEF SearchedSoFar, SearchedUpTo
<1> QED BY <1>1, <1>4, <1>5

\* "Start a group of archives that are to be searched repeatedly until no new
\* undefined references are created" (ld.1:107), for any link in which groups hold
\* only archives, are not nested and are followed by another file.
THEOREM GroupsAreSearched ==
    Spec /\ []OneLevel /\ []OnlyArchivesGrouped /\ []GroupNotLast => GroupsSearched
<1>1. Init => SearchedSoFar
  BY DEF Init, SearchedSoFar
<1>2. /\ Walk /\ SearchedSoFar /\ OneLevel /\ OnlyArchivesGrouped /\ [Next]_vars => SearchedSoFar'
  BY SearchedStep
<1>3. /\ Walk /\ SearchedSoFar /\ OneLevel /\ OnlyArchivesGrouped /\ GroupNotLast /\ [Next]_vars
      => [pc = "resolve" /\ pc' # "crash" /\ at' >= at =>
             \A i \in GroupBefore(at) : ~CouldResolve(i)]_vars
  BY GoesOnWhenSearched DEF Next, Stop
<1> QED BY <1>1, <1>2, <1>3, WalkAlways, PTL DEF Spec, GroupsSearched

----------------------------------------------------------------------------
(* Every step makes progress. *)

LEMMA LevelsStep ==
    ASSUME Walk, LevelsMarked, LevelNotNegative, [Next]_vars
    PROVE  LevelsMarked'
<1>1. CASE ParseItem
  <2> DEFINE o == Option(cmd[at], ls, files)
  <2>1. /\ pc = "parse" /\ cmd[at] \in Items /\ ls \in Options /\ files \in Seq(ListedFile)
    BY <1>1, CmdTyped DEF Walk, ParseItem
  <2>2. /\ files' = o.fs /\ ls' = o.s /\ pc' = IF o.s.group > MaxNestedGroup THEN "fatal" ELSE "parse"
    BY <1>1 DEF ParseItem
  <2>3. /\ o.fs \in Seq(ListedFile) /\ o.s \in Options
        /\ \A i \in 1..Len(o.fs) :
              \/ i \in 1..Len(files) /\ o.fs[i] = files[i]
              \/ o.fs[i].input = 0 /\ o.fs[i].members = {} /\ o.fs[i].group = ls.group
    BY <2>1, OptionTyped
  <2> HIDE DEF o
  <2>4. ls.group \in 0..MaxNestedGroup /\ ls'.group \in Int
    <3>1. ls.group \in Int /\ ls'.group \in Int
      BY <2>1, <2>2, <2>3 DEF Options
    <3>2. ls.group =< MaxNestedGroup /\ ls.group >= 0 /\ MaxNestedGroup \in Int
      BY <2>1 DEF LevelsMarked, LevelNotNegative, MaxNestedGroup
    <3> QED BY <3>1, <3>2
  <2>5. \A i \in 1..Len(files') : files'[i].group \in 0..MaxNestedGroup
    BY <2>2, <2>3, <2>4 DEF LevelsMarked
  <2>6. pc' \in {"parse", "resolve", "archive", "restart"} => ls'.group =< MaxNestedGroup
    BY <2>2, <2>4 DEF MaxNestedGroup
  <2> QED BY <2>5, <2>6 DEF LevelsMarked
<1>2. CASE BeginResolve
  <2>1. CASE files = <<>>
    BY <1>2, <2>1 DEF BeginResolve, LevelsMarked
  <2>2. CASE files # <<>>
    <3>1. /\ ls' = [ls EXCEPT !.first = TRUE, !.group = files[1].group] /\ files' = files
      BY <1>2, <2>2 DEF BeginResolve
    <3>2. files \in Seq(ListedFile) /\ ls \in Options
      BY DEF Walk
    <3>3. 1 \in 1..Len(files)
      BY <2>2, <3>2
    <3>4. files[1].group \in 0..MaxNestedGroup
      BY <3>3 DEF LevelsMarked
    <3>5. ls'.group = files[1].group
      BY <3>1, <3>2 DEF Options
    <3> QED BY <3>1, <3>4, <3>5 DEF LevelsMarked, MaxNestedGroup
  <2> QED BY <2>1, <2>2
<1>3. CASE RunOffList
  BY <1>3 DEF RunOffList, LevelsMarked
<1>4. CASE LoadArchive
  <2>1. /\ pc = "resolve" /\ at =< Len(files) /\ ~NoFileBefore /\ files' = files /\ ls' = StateAt(Position)
    BY <1>4 DEF LoadArchive
  <2>2. Position \in 1..Len(files) /\ files \in Seq(ListedFile) /\ ls \in Options
    BY <2>1, PositionIs DEF Walk
  <2>3. ls'.group = files[Position].group
    BY <2>1, <2>2, StateAtTyped
  <2>4. ls'.group =< MaxNestedGroup
    <3>1. files[Position].group \in 0..MaxNestedGroup
      BY <2>2 DEF LevelsMarked
    <3>2. ls'.group \in 0..MaxNestedGroup
      BY <2>3, <3>1
    <3> QED BY <3>2 DEF MaxNestedGroup
  <2> QED BY <2>1, <2>4 DEF LevelsMarked
<1>5. CASE LoadFile
  <2>1. Position \in 1..Len(files) /\ ls'.group = files[Position].group
    BY <1>5, LoadFileIs
  <2>2. files' = files \/ files' = [files EXCEPT ![Position].input = Len(inputs) + 1]
    BY <1>5, LoadFileIs DEF LoadObject
  <2>3. files \in Seq(ListedFile) /\ Len(inputs) + 1 \in Nat
    BY DEF Walk
  <2>4. Len(files') = Len(files) /\ \A i \in 1..Len(files) : files'[i].group = files[i].group
    <3>1. CASE files' = files
      BY <3>1
    <3>2. CASE files' = [files EXCEPT ![Position].input = Len(inputs) + 1]
      BY <2>1, <2>3, <3>2, WithInputIs
    <3> QED BY <2>2, <3>1, <3>2
  <2>5. ls'.group =< MaxNestedGroup
    <3>1. files[Position].group \in 0..MaxNestedGroup
      BY <2>1 DEF LevelsMarked
    <3> QED BY <2>1, <3>1 DEF MaxNestedGroup
  <2>6. \A i \in 1..Len(files') : files'[i].group \in 0..MaxNestedGroup
    BY <2>4 DEF LevelsMarked
  <2> QED BY <2>5, <2>6 DEF LevelsMarked
<1>6. CASE Extract
  <2>1. /\ pc = "archive" /\ ls'.group = ls.group
        /\ LoadObject(Contents[files[at].file].members[Member], WithMember)
    BY <1>6, ExtractIs
  <2>2. files' = WithMember
    BY <2>1 DEF LoadObject
  <2>3. Len(files') = Len(files) /\ \A i \in 1..Len(files) : files'[i].group = files[i].group
    BY <1>6, <2>2, WithMemberIs
  <2> QED BY <2>1, <2>3 DEF LevelsMarked
<1>7. CASE EndOfPass
  BY <1>7 DEF EndOfPass, LevelsMarked
<1>8. CASE EndOfFiles
  BY <1>8 DEF EndOfFiles, LevelsMarked
<1>9. CASE Restart
  <2>1. pc = "restart" /\ files' = <<>> /\ ls' = [ls EXCEPT !.rerun = TRUE] /\ ls \in Options
    BY <1>9 DEF Restart, Walk
  <2>2. ls'.group = ls.group
    BY <2>1 DEF Options
  <2> QED BY <2>1, <2>2 DEF LevelsMarked
<1>10. CASE UNCHANGED vars
  BY <1>10 DEF vars, LevelsMarked
<1> QED BY <1>1, <1>2, <1>3, <1>4, <1>5, <1>6, <1>7, <1>8, <1>9, <1>10 DEF Next, Step, Stop

\* The parts of Rank.
Rank1 == IF ls.rerun THEN 0 ELSE 1
Rank2 == IF pc = "parse" THEN Len(cmd) + 2 - at ELSE 0
Rank3 == Cardinality(NotExtracted)
Marked == {g \in DOMAIN ls.extracted : ls.extracted[g]}
Rank5 == Len(files) + 1 - at
Rank6 == CASE pc = "resolve" -> 3
           [] pc = "archive" -> IF pass.hit THEN 2 ELSE 1
           [] OTHER          -> 0

LEMMA RankIs ==
    /\ Rank[1] = Rank1 /\ Rank[2] = Rank2 /\ Rank[3] = Rank3 /\ Rank[4] = Cardinality(Marked)
    /\ Rank[5] = Rank5 /\ Rank[6] = Rank6
BY DEF Rank, Rank1, Rank2, Rank3, Marked, Rank5, Rank6

LEMMA RankIsThen ==
    /\ Rank'[1] = Rank1' /\ Rank'[2] = Rank2' /\ Rank'[3] = Rank3' /\ Rank'[4] = Cardinality(Marked)'
    /\ Rank'[5] = Rank5' /\ Rank'[6] = Rank6'
BY DEF Rank, Rank1, Rank2, Rank3, Marked, Rank5, Rank6

\* One part gets smaller and those before it stay as they are.
LEMMA SmallerAt ==
    ASSUME NEW r, NEW q, NEW i \in 1..6, r[i] < q[i], \A j \in 1..i - 1 : r[j] = q[j]
    PROVE  Smaller(r, q)
BY DEF Smaller

\* The members that could still be extracted are finitely many.
LEMMA NotExtractedFinite ==
    ASSUME files \in Seq(ListedFile)
    PROVE  IsFiniteSet(NotExtracted)
<1>1. IsFiniteSet(1..Len(files))
  BY FS_Interval
<1>2. IsFiniteSet((1..Len(files)) \X AllMembers)
  BY <1>1, FS_Product, ContentsAssumption
<1>3. NotExtracted \in SUBSET ((1..Len(files)) \X AllMembers)
  BY DEF NotExtracted
<1> QED BY <1>2, <1>3, FS_Subset

\* A group that is searched again is no longer marked.
LEMMA UnmarkedAgain ==
    ASSUME Walk, LevelsMarked, pc = "resolve", ls' \in Options, SearchAgain,
           \A g \in 0..MaxNestedGroup :
              ls'.extracted[g] = IF g = ls.group /\ SearchAgain THEN FALSE ELSE ls.extracted[g],
           at =< Len(files)
    PROVE  Cardinality(Marked)' < Cardinality(Marked)
<1>1. /\ ls.group \in 0..MaxNestedGroup /\ ls.extracted[ls.group]
  <2>1. /\ files \in Seq(ListedFile) /\ files # <<>> /\ at \in Nat \ {0}
        /\ ls.group = files[IF at = 1 THEN 1 ELSE at - 1].group
    BY DEF Walk
  <2>2. (IF at = 1 THEN 1 ELSE at - 1) \in 1..Len(files)
    BY <2>1
  <2> QED BY <2>1, <2>2 DEF LevelsMarked, SearchAgain
<1>2. /\ DOMAIN ls.extracted = 0..MaxNestedGroup /\ DOMAIN ls'.extracted = 0..MaxNestedGroup
      /\ \A g \in 0..MaxNestedGroup : ls.extracted[g] \in BOOLEAN
  <2>1. ls \in Options
    BY DEF Walk
  <2> QED BY <2>1 DEF Options, LevelFlags
<1>3. Marked' = Marked \ {ls.group}
  BY <1>1, <1>2 DEF Marked
<1>4. IsFiniteSet(Marked)
  <2>1. IsFiniteSet(0..MaxNestedGroup)
    <3>1. 0 \in Int /\ MaxNestedGroup \in Int
      BY DEF MaxNestedGroup
    <3> QED BY <3>1, FS_Interval
  <2>2. Marked \in SUBSET (0..MaxNestedGroup)
    BY <1>2 DEF Marked
  <2> QED BY <2>1, <2>2, FS_Subset
<1>5. ls.group \in Marked
  BY <1>1, <1>2 DEF Marked
<1>6. Cardinality(Marked) \in Nat /\ Cardinality(Marked \ {ls.group}) = Cardinality(Marked) - 1
  BY <1>4, <1>5, FS_RemoveElement, FS_CardinalityType
<1> QED BY <1>3, <1>6

\* No other step to a file changes the marks.
LEMMA MarksStay ==
    ASSUME ls \in Options, ls' \in Options, ~SearchAgain,
           \A g \in 0..MaxNestedGroup :
              ls'.extracted[g] = IF g = ls.group /\ SearchAgain THEN FALSE ELSE ls.extracted[g]
    PROVE  Marked' = Marked
<1>1. /\ DOMAIN ls.extracted = 0..MaxNestedGroup /\ DOMAIN ls'.extracted = 0..MaxNestedGroup
  BY DEF Options, LevelFlags
<1> QED BY <1>1 DEF Marked

\* A step that goes on from the file the loop has reached.
LEMMA ToAFile ==
    ASSUME Walk, LevelsMarked, pc = "resolve", at =< Len(files), ~NoFileBefore, ls' \in Options,
           \A g \in 0..MaxNestedGroup :
              ls'.extracted[g] = IF g = ls.group /\ SearchAgain THEN FALSE ELSE ls.extracted[g],
           ls'.rerun = ls.rerun, pc' \in {"resolve", "archive", "restart", "fatal"},
           NotExtracted' = NotExtracted, Len(files') = Len(files),
           \/ at' = Position + 1
           \/ at' = Position /\ Rank6' < 3
    PROVE  Smaller(Rank', Rank)
<1>1. /\ files \in Seq(ListedFile) /\ Len(files) \in Nat /\ at \in Nat /\ ls \in Options
  BY DEF Walk
<1>2. Rank1' = Rank1 /\ Rank2' = Rank2 /\ Rank3' = Rank3 /\ Rank6 = 3
  BY DEF Rank1, Rank2, Rank3, Rank6
<1>3. CASE SearchAgain
  <2>1. Cardinality(Marked)' < Cardinality(Marked)
    BY <1>3, UnmarkedAgain
  <2>2. Rank'[4] < Rank[4] /\ Rank'[1] = Rank[1] /\ Rank'[2] = Rank[2] /\ Rank'[3] = Rank[3]
    BY <2>1, <1>2, RankIs, RankIsThen
  <2>3. 4 \in 1..6 /\ \A j \in 1..4 - 1 : j \in {1, 2, 3}
    OBVIOUS
  <2> QED BY <2>2, <2>3, SmallerAt
<1>4. CASE ~SearchAgain
  <2>1. Marked' = Marked /\ Position = at
    BY <1>1, <1>4, MarksStay, PositionIs
  <2>2. Rank'[4] = Rank[4] /\ Rank'[1] = Rank[1] /\ Rank'[2] = Rank[2] /\ Rank'[3] = Rank[3]
    BY <2>1, <1>2, RankIs, RankIsThen
  <2>3. CASE at' = Position + 1
    <3>1. Rank5' < Rank5
      BY <2>1, <2>3, <1>1 DEF Rank5
    <3>2. Rank'[5] < Rank[5]
      BY <3>1, RankIs, RankIsThen
    <3>3. 5 \in 1..6 /\ \A j \in 1..5 - 1 : j \in {1, 2, 3, 4}
      OBVIOUS
    <3> QED BY <2>2, <3>2, <3>3, SmallerAt
  <2>4. CASE at' = Position /\ Rank6' < 3
    <3>1. Rank5' = Rank5 /\ Rank6' < Rank6
      BY <2>1, <2>4, <1>2 DEF Rank5
    <3>2. Rank'[5] = Rank[5] /\ Rank'[6] < Rank[6]
      BY <3>1, RankIs, RankIsThen
    <3>3. 6 \in 1..6 /\ \A j \in 1..6 - 1 : j \in {1, 2, 3, 4, 5}
      OBVIOUS
    <3> QED BY <2>2, <3>2, <3>3, SmallerAt
  <2> QED BY <2>3, <2>4
<1> QED BY <1>3, <1>4

\* One part that is a number gets smaller, the others stay.
LEMMA ProgressStep ==
    ASSUME Walk, LevelsMarked, Step
    PROVE  Smaller(Rank', Rank)
<1>1. /\ files \in Seq(ListedFile) /\ Len(files) \in Nat /\ at \in Nat /\ ls \in Options
      /\ inputs \in Seq(InputObject) /\ Len(inputs) + 1 \in Nat
  BY DEF Walk
<1>2. /\ 1 \in 1..6 /\ 2 \in 1..6 /\ 3 \in 1..6 /\ 5 \in 1..6 /\ 6 \in 1..6
      /\ \A j \in 1..1 - 1 : FALSE
      /\ \A j \in 1..2 - 1 : j = 1
      /\ \A j \in 1..3 - 1 : j \in {1, 2}
      /\ \A j \in 1..5 - 1 : j \in {1, 2, 3, 4}
      /\ \A j \in 1..6 - 1 : j \in {1, 2, 3, 4, 5}
  OBVIOUS
<1>3. CASE ParseItem
  <2>1. /\ pc = "parse" /\ cmd[at] \in Items /\ at =< Len(cmd) /\ Len(cmd) \in Nat
    BY <1>3, CmdTyped DEF ParseItem
  <2>2. /\ ls' = Option(cmd[at], ls, files).s /\ at' = at + 1 /\ cmd' = cmd /\ pc' \in {"parse", "fatal"}
    BY <1>3 DEF ParseItem
  <2>3. ls'.rerun = ls.rerun
    BY <1>1, <2>1, <2>2, OptionTyped
  <2>4. Rank1' = Rank1 /\ Rank2' < Rank2
    BY <1>1, <2>1, <2>2, <2>3 DEF Rank1, Rank2
  <2>5. Rank'[1] = Rank[1] /\ Rank'[2] < Rank[2]
    BY <2>4, RankIs, RankIsThen
  <2> QED BY <1>2, <2>5, SmallerAt
<1>4. CASE BeginResolve
  <2>1. /\ pc = "parse" /\ pc' # "parse" /\ at =< Len(cmd) + 1 /\ Len(cmd) \in Nat
    BY <1>4, CmdTyped DEF BeginResolve, Walk
  <2>2. ls' = ls \/ ls' = [ls EXCEPT !.first = TRUE, !.group = files[1].group]
    BY <1>4 DEF BeginResolve
  <2>3. ls'.rerun = ls.rerun
    BY <1>1, <2>2 DEF Options
  <2>4. Rank1' = Rank1 /\ Rank2' < Rank2
    BY <1>1, <2>1, <2>3 DEF Rank1, Rank2
  <2>5. Rank'[1] = Rank[1] /\ Rank'[2] < Rank[2]
    BY <2>4, RankIs, RankIsThen
  <2> QED BY <1>2, <2>5, SmallerAt
<1>5. CASE RunOffList \/ EndOfFiles
  <2>1. /\ pc = "resolve" /\ pc' \in {"crash", "done"} /\ UNCHANGED <<cmd, files, ls, at>>
    BY <1>5 DEF RunOffList, EndOfFiles
  <2>2. /\ Rank1' = Rank1 /\ Rank2' = Rank2 /\ Rank5' = Rank5 /\ Rank6' < Rank6
    BY <2>1 DEF Rank1, Rank2, Rank5, Rank6
  <2>3. Rank3' = Rank3 /\ Marked' = Marked
    BY <2>1 DEF Rank3, NotExtracted, Marked
  <2>4. /\ Rank'[1] = Rank[1] /\ Rank'[2] = Rank[2] /\ Rank'[3] = Rank[3] /\ Rank'[4] = Rank[4]
        /\ Rank'[5] = Rank[5] /\ Rank'[6] < Rank[6]
    BY <2>2, <2>3, RankIs, RankIsThen
  <2> QED BY <1>2, <2>4, SmallerAt
<1>6. CASE LoadArchive
  <2>1. /\ pc = "resolve" /\ at =< Len(files) /\ ~NoFileBefore /\ pc' = "archive" /\ at' = Position
        /\ ls' = StateAt(Position) /\ pass' = [k |-> 1, hit |-> FALSE] /\ files' = files
    BY <1>6 DEF LoadArchive
  <2>2. Position \in 1..Len(files)
    BY <2>1, PositionIs
  <2>3. /\ ls' \in Options /\ ls'.rerun = ls.rerun
        /\ \A g \in 0..MaxNestedGroup :
              ls'.extracted[g] = IF g = ls.group /\ SearchAgain THEN FALSE ELSE ls.extracted[g]
    BY <1>1, <2>1, <2>2, StateAtTyped
  <2>4. NotExtracted' = NotExtracted /\ Rank6' < 3
    BY <2>1 DEF NotExtracted, Rank6
  <2> QED BY <2>1, <2>3, <2>4, ToAFile
<1>7. CASE LoadFile
  <2>1. /\ pc = "resolve" /\ at =< Len(files) /\ ~NoFileBefore /\ Position \in 1..Len(files)
        /\ ls' \in Options /\ ls'.rerun = ls.rerun
        /\ \A g \in 0..MaxNestedGroup :
              ls'.extracted[g] = IF g = ls.group /\ SearchAgain THEN FALSE ELSE ls.extracted[g]
    BY <1>7, LoadFileIs
  <2>2. \/ pc' \in {"fatal", "restart"} /\ at' = Position /\ files' = files
        \/ /\ pc' \in {"resolve", "fatal"} /\ at' = Position + 1
           /\ files' = [files EXCEPT ![Position].input = Len(inputs) + 1]
    BY <1>7, LoadFileIs DEF LoadObject
  <2>3. CASE pc' \in {"fatal", "restart"} /\ at' = Position /\ files' = files
    <3>1. NotExtracted' = NotExtracted /\ Rank6' < 3
      BY <2>3 DEF NotExtracted, Rank6
    <3> QED BY <2>1, <2>3, <3>1, ToAFile
  <2>4. CASE /\ pc' \in {"resolve", "fatal"} /\ at' = Position + 1
             /\ files' = [files EXCEPT ![Position].input = Len(inputs) + 1]
    <3>1. /\ Len(files') = Len(files)
          /\ \A i \in 1..Len(files) :
                files'[i].file = files[i].file /\ files'[i].members = files[i].members
      BY <1>1, <2>1, <2>4, WithInputIs
    <3>2. NotExtracted' = NotExtracted
      BY <3>1 DEF NotExtracted
    <3> QED BY <2>1, <2>4, <3>1, <3>2, ToAFile
  <2> QED BY <2>2, <2>3, <2>4
<1>8. CASE Extract
  <2>1. /\ pc = "archive" /\ pc' \in {"archive", "fatal"} /\ at \in 1..Len(files)
        /\ ls'.rerun = ls.rerun /\ Member \notin Extracted
        /\ Member \in DOMAIN Contents[files[at].file].members
        /\ LoadObject(Contents[files[at].file].members[Member], WithMember)
    BY <1>8, ExtractIs
  <2>2. files' = WithMember
    BY <2>1 DEF LoadObject
  <2>3. /\ Len(files') = Len(files)
        /\ \A j \in 1..Len(files) :
              /\ files'[j].file = files[j].file
              /\ files'[j].members = IF j = at THEN Members ELSE files[j].members
    BY <1>8, <2>2, WithMemberIs
  <2>4. NotExtracted' = NotExtracted \ {<<at, Member>>}
    <3>1. ASSUME NEW x \in (1..Len(files)) \X AllMembers
          PROVE  x \in NotExtracted' <=> x \in NotExtracted /\ x # <<at, Member>>
      <4>1. PICK j \in 1..Len(files), m \in AllMembers : x = <<j, m>>
        OBVIOUS
      <4>2. CASE j # at
        BY <2>3, <4>1, <4>2 DEF NotExtracted
      <4>3. CASE j = at
        <5>1. (\A y \in Members : y[1] # m) <=> (\A y \in files[at].members : y[1] # m) /\ m # Member
          <6>1. Members = files[at].members \cup {<<Member, Len(inputs) + 1>>}
            BY DEF Members
          <6>2. <<Member, Len(inputs) + 1>>[1] = Member
            OBVIOUS
          <6> QED BY <6>1, <6>2
        <5> QED BY <2>1, <2>3, <4>1, <4>3, <5>1 DEF NotExtracted
      <4> QED BY <4>2, <4>3
    <3>2. NotExtracted' \subseteq (1..Len(files)) \X AllMembers
      BY <2>3 DEF NotExtracted
    <3>3. NotExtracted \subseteq (1..Len(files)) \X AllMembers
      BY DEF NotExtracted
    <3> QED BY <3>1, <3>2, <3>3
  <2>5. <<at, Member>> \in NotExtracted
    <3>1. IsArchive(files[at].file) /\ files[at].file \in DOMAIN Contents
      BY <1>1, <2>1, Listed DEF Walk
    <3>2. Member \in AllMembers
      BY <2>1, <3>1 DEF AllMembers
    <3> QED BY <2>1, <3>1, <3>2 DEF NotExtracted, Extracted
  <2>6. Rank3' < Rank3
    <3>1. IsFiniteSet(NotExtracted)
      BY <1>1, NotExtractedFinite
    <3>2. /\ Cardinality(NotExtracted) \in Nat
          /\ Cardinality(NotExtracted \ {<<at, Member>>}) = Cardinality(NotExtracted) - 1
      BY <2>5, <3>1, FS_RemoveElement, FS_CardinalityType
    <3> QED BY <2>4, <3>2 DEF Rank3
  <2>7. Rank1' = Rank1 /\ Rank2' = Rank2
    BY <2>1 DEF Rank1, Rank2
  <2>8. Rank'[1] = Rank[1] /\ Rank'[2] = Rank[2] /\ Rank'[3] < Rank[3]
    BY <2>6, <2>7, RankIs, RankIsThen
  <2> QED BY <1>2, <2>8, SmallerAt
<1>9. CASE EndOfPass
  <2>1. /\ pc = "archive" /\ UNCHANGED <<cmd, files, ls>>
    BY <1>9 DEF EndOfPass
  <2>2. Rank3' = Rank3 /\ Marked' = Marked
    BY <2>1 DEF Rank3, NotExtracted, Marked
  <2>3. CASE pass.hit
    <3>1. pass' = [k |-> 1, hit |-> FALSE] /\ UNCHANGED <<pc, at>>
      BY <1>9, <2>3 DEF EndOfPass
    <3>2. /\ Rank1' = Rank1 /\ Rank2' = Rank2 /\ Rank5' = Rank5 /\ Rank6' < Rank6
      BY <2>1, <2>3, <3>1 DEF Rank1, Rank2, Rank5, Rank6
    <3>3. /\ Rank'[1] = Rank[1] /\ Rank'[2] = Rank[2] /\ Rank'[3] = Rank[3] /\ Rank'[4] = Rank[4]
          /\ Rank'[5] = Rank[5] /\ Rank'[6] < Rank[6]
      BY <2>2, <3>2, RankIs, RankIsThen
    <3> QED BY <1>2, <3>3, SmallerAt
  <2>4. CASE ~pass.hit
    <3>1. pc' = "resolve" /\ at' = at + 1
      BY <1>9, <2>4 DEF EndOfPass
    <3>2. /\ Rank1' = Rank1 /\ Rank2' = Rank2 /\ Rank5' < Rank5
      BY <1>1, <2>1, <3>1 DEF Rank1, Rank2, Rank5
    <3>3. /\ Rank'[1] = Rank[1] /\ Rank'[2] = Rank[2] /\ Rank'[3] = Rank[3] /\ Rank'[4] = Rank[4]
          /\ Rank'[5] < Rank[5]
      BY <2>2, <3>2, RankIs, RankIsThen
    <3> QED BY <1>2, <3>3, SmallerAt
  <2> QED BY <2>3, <2>4
<1>10. CASE Restart
  <2>1. ~ls.rerun /\ ls' = [ls EXCEPT !.rerun = TRUE]
    BY <1>10 DEF Restart, Walk
  <2>2. Rank1 = 1 /\ Rank1' = 0
    BY <1>1, <2>1 DEF Rank1, Options
  <2>3. Rank'[1] < Rank[1]
    BY <2>2, RankIs, RankIsThen
  <2> QED BY <1>2, <2>3, SmallerAt
<1> QED BY <1>3, <1>4, <1>5, <1>6, <1>7, <1>8, <1>9, <1>10 DEF Step

\* The loading of the symbols ends, for any files and any command line that closes
\* no group it did not open: every step makes Rank smaller.
THEOREM LoadingProgresses == Spec /\ []LevelNotNegative => Progress
<1>1. Init => LevelsMarked
  BY DEF Init, LevelsMarked, NewState, MaxNestedGroup
<1>2. Walk /\ LevelsMarked /\ LevelNotNegative /\ [Next]_vars => LevelsMarked'
  BY LevelsStep
<1>3. Walk /\ LevelsMarked /\ [Next]_vars => [Smaller(Rank', Rank)]_vars
  BY ProgressStep DEF Next, Stop
<1> QED BY <1>1, <1>2, <1>3, WalkAlways, PTL DEF Spec, Progress

----------------------------------------------------------------------------
(* The list of files. *)

LEMMA StaysOnTheList ==
    ASSUME Walk, LevelsMarked, GroupNotFirst, RunOffList
    PROVE  FALSE
<1>1. /\ pc = "resolve" /\ at =< Len(files) /\ SearchAgain /\ Below(ls.group, at) = {}
  BY DEF RunOffList, NoFileBefore
<1>2. /\ files \in Seq(ListedFile) /\ files # <<>> /\ at \in Nat \ {0} /\ Len(files) \in Nat
      /\ ls.group = files[IF at = 1 THEN 1 ELSE at - 1].group
  BY <1>1 DEF Walk
<1>3. /\ at \in 1..Len(files) /\ 1 \in 1..Len(files) /\ files[1].group = 0
  BY <1>1, <1>2 DEF GroupNotFirst
<1>4. files[at].group \in 0..MaxNestedGroup /\ files[at].group < ls.group
  BY <1>1, <1>3 DEF LevelsMarked, SearchAgain
<1>5. at # 1
  BY <1>2, <1>3, <1>4
<1>6. ls.group > 0
  <2>1. (IF at = 1 THEN 1 ELSE at - 1) \in 1..Len(files)
    BY <1>2, <1>3
  <2>2. ls.group \in Int
    BY <1>2, <2>1, Listed
  <2> QED BY <1>4, <2>2
<1>7. 1 \in Below(ls.group, at)
  BY <1>2, <1>3, <1>5, <1>6 DEF Below
<1> QED BY <1>1, <1>7

\* The list of files is never walked past its head (ld_symbols.c:251-255), for any
\* link whose first file is not in a group.
THEOREM ListNotLeft == Spec /\ []LevelNotNegative /\ []GroupNotFirst => []NeverRunsOff
<1>1. Init => LevelsMarked /\ NeverRunsOff
  BY DEF Init, LevelsMarked, NewState, MaxNestedGroup, NeverRunsOff
<1>2. Walk /\ LevelsMarked /\ LevelNotNegative /\ [Next]_vars => LevelsMarked'
  BY LevelsStep
<1>3. Walk /\ LevelsMarked /\ GroupNotFirst /\ NeverRunsOff /\ [Next]_vars => NeverRunsOff'
  <2> SUFFICES ASSUME Walk, LevelsMarked, GroupNotFirst, NeverRunsOff, [Next]_vars
               PROVE  NeverRunsOff'
    OBVIOUS
  <2>1. ~RunOffList
    BY StaysOnTheList
  <2>2. LoadFile => pc' # "crash"
    BY LoadFileIs
  <2>3. Extract => pc' # "crash"
    BY ExtractIs
  <2>4. ParseItem \/ BeginResolve \/ LoadArchive \/ EndOfPass \/ EndOfFiles \/ Restart => pc' # "crash"
    BY DEF ParseItem, BeginResolve, LoadArchive, EndOfPass, EndOfFiles, Restart, NeverRunsOff
  <2> QED BY <2>1, <2>2, <2>3, <2>4 DEF Next, Step, Stop, vars, NeverRunsOff
<1> QED BY <1>1, <1>2, <1>3, WalkAlways, PTL DEF Spec

=============================================================================
