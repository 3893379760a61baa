--------------------------- MODULE ArProgramProofs ---------------------------
(***************************************************************************)
(* Proofs about ArProgram, for any archives, command lines, scripts and    *)
(* failures: an archive changes only when a command line, ranlib or the    *)
(* SAVE of a script changes it, whatever stops half way.  The refinement   *)
(* of ArEditor rests on where the next write goes: in a script to the      *)
(* temporary archive, which is there as long as the script has a target.   *)
(* And every edit keeps the members it has no business with: each argument *)
(* takes and puts one object, so the others stay in their order, which is  *)
(* carried through the folds over the arguments stage by stage.  A symbol  *)
(* table is right because the space of what is written is that of the      *)
(* objects it was worked out from, member for member.                      *)
(***************************************************************************)
EXTENDS ArProgram, SequenceTheorems, NaturalsInduction, WellFoundedInduction, TLAPS

----------------------------------------------------------------------------
(* Sequences. *)

\* A list: every element is where its length says.
IsSequence(s) == Len(s) \in Nat /\ s = [i \in 1..Len(s) |-> s[i]]

\* A list of elements of S, for the facts of the library.
LEMMA AsSeq ==
    ASSUME NEW s, IsSequence(s), NEW S, \A i \in 1..Len(s) : s[i] \in S
    PROVE  s \in Seq(S) /\ Len(s) \in Nat /\ DOMAIN s = 1..Len(s)
<1>1. Len(s) \in Nat /\ s = [i \in 1..Len(s) |-> s[i]]
  BY DEF IsSequence
<1>2. s \in [1..Len(s) -> S]
  BY <1>1
<1> QED BY <1>1, <1>2

\* A sequence of the library is a list.
LEMMA SeqIs ==
    ASSUME NEW S, NEW s \in Seq(S)
    PROVE  IsSequence(s) /\ DOMAIN s = 1..Len(s)
BY DEF IsSequence

\* A function on 1..n is a list of n elements.
LEMMA Listing ==
    ASSUME NEW n \in Nat, NEW s, s = [i \in 1..n |-> s[i]]
    PROVE  IsSequence(s) /\ Len(s) = n
<1>1. s \in [1..n -> {s[i] : i \in 1..n}]
  OBVIOUS
<1>2. s \in Seq({s[i] : i \in 1..n})
  BY <1>1
<1> QED BY <1>1, <1>2 DEF IsSequence

\* What appending, removing, inserting and concatenating make of a list, place by place.
LEMMA AppendIs ==
    ASSUME NEW s, NEW o, IsSequence(s)
    PROVE  /\ IsSequence(Append(s, o)) /\ Len(Append(s, o)) = Len(s) + 1
           /\ \A j \in 1..Len(s) + 1 : Append(s, o)[j] = IF j = Len(s) + 1 THEN o ELSE s[j]
<1> DEFINE S == {s[i] : i \in 1..Len(s)} \cup {o}
<1>1. s \in Seq(S) /\ o \in S
  BY AsSeq
<1> HIDE DEF S
<1>2. Append(s, o) \in Seq(S) /\ Len(Append(s, o)) = Len(s) + 1 /\ Len(s) \in Nat
  BY <1>1
<1>3. \A j \in 1..Len(s) + 1 : Append(s, o)[j] = IF j = Len(s) + 1 THEN o ELSE s[j]
  BY <1>1
<1> QED BY <1>2, <1>3, SeqIs

LEMMA RemoveIs ==
    ASSUME NEW s, IsSequence(s), NEW k \in 1..Len(s)
    PROVE  /\ IsSequence(RemoveAt(s, k)) /\ Len(RemoveAt(s, k)) = Len(s) - 1
           /\ \A j \in 1..Len(s) - 1 : RemoveAt(s, k)[j] = IF j < k THEN s[j] ELSE s[j + 1]
<1> DEFINE S == {s[i] : i \in 1..Len(s)}
<1>1. s \in Seq(S) /\ Len(s) \in Nat /\ k \in Nat /\ k >= 1 /\ k =< Len(s)
  BY AsSeq
<1> HIDE DEF S
<1> DEFINE a == SubSeq(s, 1, k - 1)
           b == SubSeq(s, k + 1, Len(s))
<1>2. a \in Seq(S) /\ Len(a) = k - 1 /\ \A j \in 1..k - 1 : a[j] = s[j]
  BY <1>1
<1>3. b \in Seq(S) /\ Len(b) = Len(s) - k /\ \A j \in 1..Len(s) - k : b[j] = s[j + k]
  BY <1>1
<1>4. RemoveAt(s, k) = a \o b
  BY DEF RemoveAt
<1> HIDE DEF a, b
<1>5. a \o b \in Seq(S) /\ Len(a \o b) = Len(s) - 1
  <2>1. a \o b \in Seq(S) /\ Len(a \o b) = Len(a) + Len(b)
    BY <1>2, <1>3, ConcatProperties
  <2> QED BY <2>1, <1>1, <1>2, <1>3
<1>6. \A j \in 1..Len(s) - 1 : (a \o b)[j] = IF j < k THEN s[j] ELSE s[j + 1]
  <2> SUFFICES ASSUME NEW j \in 1..Len(s) - 1
               PROVE  (a \o b)[j] = IF j < k THEN s[j] ELSE s[j + 1]
    OBVIOUS
  <2>1. CASE j < k
    BY <2>1, <1>1, <1>2, <1>3
  <2>2. CASE ~(j < k)
    <3>1. (a \o b)[j] = b[j - (k - 1)] /\ j - (k - 1) \in 1..Len(s) - k
      BY <2>2, <1>1, <1>2, <1>3
    <3>2. b[j - (k - 1)] = s[j - (k - 1) + k] /\ j - (k - 1) + k = j + 1
      BY <3>1, <1>1, <1>3
    <3> QED BY <2>2, <3>1, <3>2
  <2> QED BY <2>1, <2>2
<1> QED BY <1>4, <1>5, <1>6, SeqIs

LEMMA InsertIs ==
    ASSUME NEW s, NEW o, IsSequence(s), NEW k \in 1..Len(s) + 1
    PROVE  /\ IsSequence(InsertAt(s, k, o)) /\ Len(InsertAt(s, k, o)) = Len(s) + 1
           /\ \A j \in 1..Len(s) + 1 :
                 InsertAt(s, k, o)[j] = IF j < k THEN s[j] ELSE IF j = k THEN o ELSE s[j - 1]
<1> DEFINE S == {s[i] : i \in 1..Len(s)} \cup {o}
<1>1. s \in Seq(S) /\ o \in S /\ Len(s) \in Nat /\ k \in Nat /\ k >= 1 /\ k =< Len(s) + 1
  BY AsSeq
<1> HIDE DEF S
<1> DEFINE a == SubSeq(s, 1, k - 1)
           m == a \o <<o>>
           b == SubSeq(s, k, Len(s))
<1>2. a \in Seq(S) /\ Len(a) = k - 1 /\ \A j \in 1..k - 1 : a[j] = s[j]
  BY <1>1
<1>3. b \in Seq(S) /\ Len(b) = Len(s) - k + 1 /\ \A j \in 1..Len(s) - k + 1 : b[j] = s[j + k - 1]
  BY <1>1
<1>4. InsertAt(s, k, o) = m \o b
  BY DEF InsertAt
<1>5. <<o>> \in Seq(S) /\ Len(<<o>>) = 1 /\ <<o>>[1] = o
  BY <1>1
<1> HIDE DEF a, b
<1>6. m \in Seq(S) /\ Len(m) = k /\ \A j \in 1..k : m[j] = IF j < k THEN s[j] ELSE o
  BY <1>1, <1>2, <1>5
<1> HIDE DEF m
<1>7. m \o b \in Seq(S) /\ Len(m \o b) = Len(s) + 1
  <2>1. m \o b \in Seq(S) /\ Len(m \o b) = Len(m) + Len(b)
    BY <1>6, <1>3, ConcatProperties
  <2> QED BY <2>1, <1>1, <1>6, <1>3
<1>8. \A j \in 1..Len(s) + 1 : (m \o b)[j] = IF j < k THEN s[j] ELSE IF j = k THEN o ELSE s[j - 1]
  <2> SUFFICES ASSUME NEW j \in 1..Len(s) + 1
               PROVE  (m \o b)[j] = IF j < k THEN s[j] ELSE IF j = k THEN o ELSE s[j - 1]
    OBVIOUS
  <2>1. CASE j =< k
    <3>1. j \in 1..k /\ j \in 1..Len(m) + Len(b)
      BY <2>1, <1>1, <1>6, <1>3
    <3>3. (m \o b)[j] = m[j]
      BY <2>1, <3>1, <1>6, <1>3, ConcatProperties
    <3>2. m[j] = IF j < k THEN s[j] ELSE o
      BY <3>1, <1>6
    <3> QED BY <2>1, <3>3, <3>2, <1>1
  <2>2. CASE j > k
    <3>1. (m \o b)[j] = b[j - k] /\ j - k \in 1..Len(s) - k + 1
      BY <2>2, <1>1, <1>6, <1>3
    <3>2. b[j - k] = s[j - k + k - 1] /\ j - k + k - 1 = j - 1
      BY <3>1, <1>1, <1>3
    <3>3. ~(j < k) /\ j # k
      BY <2>2, <1>1
    <3> QED BY <3>3, <3>1, <3>2
  <2>3. j \in Int /\ k \in Int
    BY <1>1
  <2>4. j =< k \/ j > k
    BY <2>3
  <2> QED BY <2>1, <2>2, <2>4
<1> QED BY <1>4, <1>7, <1>8, SeqIs

LEMMA ConcatIs ==
    ASSUME NEW s, NEW t, IsSequence(s), IsSequence(t)
    PROVE  /\ IsSequence(s \o t) /\ Len(s \o t) = Len(s) + Len(t)
           /\ \A j \in 1..Len(s) + Len(t) : (s \o t)[j] = IF j =< Len(s) THEN s[j] ELSE t[j - Len(s)]
<1> DEFINE S == {s[i] : i \in 1..Len(s)} \cup {t[i] : i \in 1..Len(t)}
<1>1. s \in Seq(S) /\ t \in Seq(S)
  BY AsSeq
<1> HIDE DEF S
<1>2. s \o t \in Seq(S) /\ Len(s \o t) = Len(s) + Len(t)
  BY <1>1
<1>3. \A j \in 1..Len(s) + Len(t) : (s \o t)[j] = IF j =< Len(s) THEN s[j] ELSE t[j - Len(s)]
  BY <1>1
<1> QED BY <1>2, <1>3, SeqIs

\* A set of numbers has a least one.
LEMMA MinIs ==
    ASSUME NEW T \in SUBSET Nat, T # {}
    PROVE  Min(T) \in T /\ \A x \in T : Min(T) =< x
<1> DEFINE R == OpToRel(<, Nat)
<1>1. IsWellFoundedOn(R, Nat)
  BY NatLessThanWellFounded
<1>2. PICK m \in T : \A k \in T : ~ (<<k, m>> \in R)
  <2> HIDE DEF R
  <2> QED BY <1>1, WFMin
<1>3. \A k \in T : ~ (k < m)
  BY <1>2 DEF OpToRel
<1>4. \A k \in T : m =< k
  BY <1>3
<1> QED BY <1>4 DEF Min
----------------------------------------------------------------------------
(* Folds. *)

\* What is done to a first value with each element of a sequence.
TakeOne(t, m) ==
    LET k == SelectInSeq(t.left, LAMBDA n : n = m.name)
    IN  IF k = 0 THEN t
        ELSE [objs |-> Append(t.objs, m), left |-> RemoveAt(t.left, k)]
KeepOne(ms, o) == IF o.size > 0 THEN Append(ms, Stored(o)) ELSE ms

One(what, x, y) ==
    CASE what = "edit" -> EditArg(x, y)
      [] what = "add"  -> AddArg(x, y)
      [] what = "take" -> TakeOne(x, y)
      [] what = "keep" -> KeepOne(x, y)
      [] what = "bsd"  -> x + Space(y, TRUE)
      [] what = "svr4" -> x + Space(y, FALSE)
      [] what = "long" -> x + IF LongName(y.name, FALSE) THEN NameLen[y.name] + 2 ELSE 0
      [] what = "syms" -> x + NameLen[y.sym] + 1
      [] what = "join" -> x \o y

\* A fold, as the community modules define it.
Folded(what, x, seq, D, it) ==
    it = [S \in SUBSET D |->
             IF S = {} THEN x ELSE One(what, it[S \ {Max(S)}], seq[Max(S)])]
Fold(what, x, seq) == (CHOOSE it : Folded(what, x, seq, DOMAIN seq, it))[DOMAIN seq]

\* The folds of the model are folds.
LEMMA FoldsAre ==
    ASSUME NEW x, NEW seq
    PROVE  /\ FoldLeft(EditArg, x, seq) = Fold("edit", x, seq)
           /\ FoldLeft(AddArg, x, seq) = Fold("add", x, seq)
           /\ \A img : TakeNamed(img, x) = Fold("take", [objs |-> <<>>, left |-> x], img.members).objs
           /\ WrittenMembers(seq) = Fold("keep", <<>>, seq)
<1>1. FoldLeft(EditArg, x, seq) = Fold("edit", x, seq)
  BY DEF FoldLeft, MapThenFoldSet, Fold, Folded, One
<1>2. FoldLeft(AddArg, x, seq) = Fold("add", x, seq)
  BY DEF FoldLeft, MapThenFoldSet, Fold, Folded, One
<1>3. ASSUME NEW img
      PROVE  TakeNamed(img, x) = Fold("take", [objs |-> <<>>, left |-> x], img.members).objs
  BY DEF TakeNamed, FoldLeft, MapThenFoldSet, Fold, Folded, One, TakeOne
<1>4. WrittenMembers(seq) = Fold("keep", <<>>, seq)
  BY DEF WrittenMembers, FoldLeft, MapThenFoldSet, Fold, Folded, One, KeepOne
<1> QED BY <1>1, <1>2, <1>3, <1>4

\* And so are its sums.
Flavour(bsd) == IF bsd THEN "bsd" ELSE "svr4"

LEMMA SumsAre ==
    ASSUME NEW seq
    PROVE  /\ \A bsd \in BOOLEAN : TotalSpace(seq, bsd) = Fold(Flavour(bsd), 0, seq)
           /\ StringTableSize(seq, FALSE) = RoundUp2(Fold("long", 0, seq))
           /\ NamesSize(seq) = Fold("syms", 0, seq)
<1>1. TotalSpace(seq, TRUE) = Fold("bsd", 0, seq)
  BY DEF TotalSpace, FoldLeft, MapThenFoldSet, Fold, Folded, One
<1>2. TotalSpace(seq, FALSE) = Fold("svr4", 0, seq)
  BY DEF TotalSpace, FoldLeft, MapThenFoldSet, Fold, Folded, One
<1>3. StringTableSize(seq, FALSE) = RoundUp2(Fold("long", 0, seq))
  BY DEF StringTableSize, FoldLeft, MapThenFoldSet, Fold, Folded, One
<1>4. NamesSize(seq) = Fold("syms", 0, seq)
  BY DEF NamesSize, FoldLeft, MapThenFoldSet, Fold, Folded, One
<1> QED BY <1>1, <1>2, <1>3, <1>4 DEF Flavour

\* The greatest of a set that has m and nothing above it.
LEMMA MaxOf ==
    ASSUME NEW m \in Nat, NEW S \in SUBSET (1..m), m \in S
    PROVE  Max(S) = m
<1>1. \A y \in S : m >= y
  OBVIOUS
<1>2. \A z \in S : (\A y \in S : z >= y) => z = m
  OBVIOUS
<1> QED BY <1>1, <1>2 DEF Max

\* There is a function that works the fold out: were there none for some length, there
\* would be none for the least such length, but it extends the one for the length before.
LEMMA FoldExists ==
    ASSUME NEW what, NEW x, NEW seq, NEW n \in Nat
    PROVE  \E it : Folded(what, x, seq, 1..n, it)
<1> DEFINE Value(it, S) == IF S = {} THEN x ELSE One(what, it[S \ {Max(S)}], seq[Max(S)])
           Def(it, m) == it = [S \in SUBSET (1..m) |-> Value(it, S)]
           Bad == {m \in Nat : ~ \E it : Def(it, m)}
<1> SUFFICES ASSUME Bad # {} PROVE FALSE
  <2>1. n \notin Bad
    OBVIOUS
  <2>2. \E it : Def(it, n)
    <3> HIDE DEF Def
    <3> QED BY <2>1
  <2> QED BY <2>2 DEF Folded
<1> DEFINE m == Min(Bad)
<1>1. m \in Nat /\ m \in Bad /\ \A k \in Bad : m =< k
  <2>1. Bad \in SUBSET Nat
    OBVIOUS
  <2> HIDE DEF Bad
  <2> QED BY <2>1, MinIs
<1> HIDE DEF m
<1>2. ~ \E it : Def(it, m)
  <2> HIDE DEF Def
  <2> QED BY <1>1
<1>3. CASE m = 0
  <2> DEFINE it == [S \in SUBSET (1..0) |-> x]
  <2>1. \A S \in SUBSET (1..0) : S = {}
    OBVIOUS
  <2>2. Def(it, 0)
    BY <2>1
  <2> QED BY <2>2, <1>2, <1>3
<1>4. CASE m # 0
  <2>1. m - 1 \in Nat /\ m - 1 < m
    BY <1>1, <1>4
  <2>2. m - 1 \notin Bad
    <3> HIDE DEF Bad
    <3> QED BY <2>1, <1>1
  <2>3. PICK g : Def(g, m - 1)
    <3> HIDE DEF Def
    <3> QED BY <2>1, <2>2
  <2> DEFINE it == [S \in SUBSET (1..m) |-> IF m \in S THEN One(what, g[S \ {m}], seq[m]) ELSE g[S]]
  <2>4. ASSUME NEW S \in SUBSET (1..m) PROVE it[S] = Value(it, S)
    <3>1. CASE m \in S
      <4>1. Max(S) = m /\ S # {}
        BY <1>1, <3>1, MaxOf
      <4>2. S \ {m} \in SUBSET (1..m) /\ m \notin S \ {m}
        OBVIOUS
      <4>3. it[S \ {m}] = g[S \ {m}]
        BY <4>2
      <4> QED BY <3>1, <4>1, <4>3
    <3>2. CASE m \notin S
      <4>1. S \in SUBSET (1..m - 1) /\ S \ {Max(S)} \in SUBSET (1..m) /\ m \notin S \ {Max(S)}
        <5>1. \A i \in 1..m : i # m => i \in 1..m - 1
          BY <1>1
        <5>2. S \in SUBSET (1..m - 1)
          BY <3>2, <5>1
        <5> QED BY <5>2, <3>2
      <4>2. it[S] = g[S] /\ it[S \ {Max(S)}] = g[S \ {Max(S)}]
        BY <4>1, <3>2
      <4>3. g[S] = Value(g, S)
        BY <4>1, <2>3
      <4> QED BY <4>2, <4>3
    <3> QED BY <3>1, <3>2
  <2>5. Def(it, m)
    BY <2>4
  <2> QED BY <2>5, <1>2
<1> QED BY <1>3, <1>4

\* The stages of a fold.
LEMMA FoldStages ==
    ASSUME NEW what, NEW x, NEW seq, IsSequence(seq)
    PROVE  \E f : /\ f[0] = x /\ f[Len(seq)] = Fold(what, x, seq)
                  /\ \A k \in 1..Len(seq) : f[k] = One(what, f[k - 1], seq[k])
<1> DEFINE n == Len(seq)
           it == CHOOSE it : Folded(what, x, seq, DOMAIN seq, it)
           f == [k \in 0..n |-> it[1..k]]
<1>1. n \in Nat /\ DOMAIN seq = 1..n
  BY AsSeq DEF IsSequence
<1>2. Folded(what, x, seq, DOMAIN seq, it)
  <2>1. \E g : Folded(what, x, seq, DOMAIN seq, g)
    <3> HIDE DEF n
    <3> QED BY <1>1, FoldExists
  <2> QED BY <2>1
<1> HIDE DEF it
<1>3. \A S \in SUBSET (1..n) : it[S] = IF S = {} THEN x ELSE One(what, it[S \ {Max(S)}], seq[Max(S)])
  BY <1>1, <1>2 DEF Folded
<1>4. f[0] = x
  <2>1. 1..0 = {}
    OBVIOUS
  <2>2. it[1..0] = x
    BY <1>1, <1>3, <2>1
  <2> QED BY <1>1, <2>2
<1>5. f[n] = Fold(what, x, seq)
  BY <1>1 DEF Fold, it
<1>6. ASSUME NEW k \in 1..n PROVE f[k] = One(what, f[k - 1], seq[k])
  <2>1. 1..k \in SUBSET (1..n) /\ k \in 1..k /\ k \in Nat /\ k - 1 \in 0..n /\ k \in 0..n
    BY <1>1
  <2>2. Max(1..k) = k /\ (1..k) \ {k} = 1..k - 1 /\ 1..k # {}
    <3>1. 1..k \in SUBSET (1..k)
      OBVIOUS
    <3>2. Max(1..k) = k
      BY <2>1, <3>1, MaxOf
    <3>3. (1..k) \ {k} = 1..k - 1 /\ 1..k # {}
      BY <2>1
    <3> QED BY <3>2, <3>3
  <2>3. it[1..k] = One(what, it[(1..k) \ {k}], seq[k])
    BY <1>3, <2>1, <2>2
  <2> QED BY <2>1, <2>2, <2>3
<1> QED BY <1>4, <1>5, <1>6

----------------------------------------------------------------------------
(* Members and objects. *)

Objects == [name : DOMAIN NameLen, size : Nat, syms : Seq(DOMAIN NameLen), mtime : Nat, id : Nat \ {0}]

\* No file is empty, and at first no member is.
NoneEmpty ==
    /\ \A n \in Names : Files[n].size # 0
    /\ \A f \in Archives : \A i \in DOMAIN StartDisk[f].members : StartDisk[f].members[i].size # 0

GoodMember(m) == m \in Members /\ (NoneEmpty => m.size # 0)
GoodObject(o) == o \in Objects /\ (NoneEmpty => o.size # 0)
GoodImage(img) == img \in Images /\ \A i \in 1..Len(img.members) : GoodMember(img.members[i])

\* An object made of a member is that member when it is stored.
LEMMA ObjectIsGood ==
    ASSUME NEW m, GoodMember(m), NEW i \in Nat \ {0}
    PROVE  GoodObject(Object(m, i)) /\ Stored(Object(m, i)) = m /\ Stored(m) = m
<1>1. m = [name |-> m.name, size |-> m.size, syms |-> m.syms, mtime |-> m.mtime]
      /\ m.name \in DOMAIN NameLen /\ m.size \in Nat /\ m.syms \in Seq(DOMAIN NameLen) /\ m.mtime \in Nat
  BY DEF GoodMember, Members
<1> QED BY <1>1 DEF GoodMember, GoodObject, Objects, Object, Stored

LEMMA StoredIsGood ==
    ASSUME NEW o, o \in Objects
    PROVE  Stored(o) \in Members /\ Stored(o).size = o.size /\ Stored(o).syms = o.syms
BY DEF Objects, Members, Stored

\* The object made of a file.
LEMMA FileObjectIs ==
    ASSUME NEW n \in Names, NEW t, NEW opts, CreateObj(n, t, opts), NEW id \in Nat \ {0}
    PROVE  GoodObject(FileObject(n, opts, id)) /\ FileObject(n, opts, id).id = id
<1>1. /\ Files[n] \in [size : Nat, syms : Seq(DOMAIN NameLen), mtime : Nat]
      /\ n \in DOMAIN NameLen /\ Short[n] \in DOMAIN NameLen
  BY NamesAssumption DEF CreateObj
<1>2. Files[n].size \in Nat /\ Files[n].syms \in Seq(DOMAIN NameLen) /\ Files[n].mtime \in Nat
  BY <1>1
<1>3. NoneEmpty => Files[n].size # 0
  BY DEF NoneEmpty
<1> QED BY <1>1, <1>2, <1>3 DEF FileObject, GoodObject, Objects

LEMMA MembersAre ==
    ASSUME NEW img, GoodImage(img)
    PROVE  /\ IsSequence(img.members) /\ Len(img.members) \in Nat
           /\ DOMAIN img.members = 1..Len(img.members)
           /\ \A i \in 1..Len(img.members) : GoodMember(img.members[i])
<1>1. img.members \in Seq(Members)
  BY DEF GoodImage, Images
<1> QED BY <1>1, SeqIs DEF GoodImage, IsSequence

----------------------------------------------------------------------------
(* An edit of the list. *)

IsEdit(e) ==
    /\ e = [objs |-> e.objs, mode |-> e.mode, argv |-> e.argv, pos |-> e.pos, opts |-> e.opts,
            left |-> e.left, id |-> e.id, freed |-> e.freed]
    /\ IsSequence(e.objs) /\ e.left \in Seq(Names) /\ e.id \in Nat

\* An object that the archive held and the edit e has no business with.
Other(o, before, e) == o.id =< Len(before) /\ Untouchable(o, e)

\* The objects of the archive are what they were; those the edit has no business with
\* are all there, in their order.
OthersIn(objs, before, e) ==
    /\ \A k \in 1..Len(objs) :
          /\ GoodObject(objs[k])
          /\ objs[k].id =< Len(before) => objs[k] = Object(before[objs[k].id], objs[k].id)
    /\ \A i \in 1..Len(before) : Untouchable(before[i], e) => \E k \in 1..Len(objs) : objs[k].id = i
    /\ \A j, k \in 1..Len(objs) :
          Other(objs[j], before, e) /\ Other(objs[k], before, e) /\ j < k => objs[j].id < objs[k].id

Same(e, d) == e.mode = d.mode /\ e.argv = d.argv /\ e.opts = d.opts

\* Only the mode, the arguments and the options say what an edit has business with.
LEMMA SameJudged ==
    ASSUME NEW e, NEW d, Same(e, d), NEW objs, NEW before, OthersIn(objs, before, e)
    PROVE  OthersIn(objs, before, d)
<1>1. \A m : Untouchable(m, e) <=> Untouchable(m, d)
  BY DEF Same, Untouchable, Named
<1>2. \A o : Other(o, before, e) <=> Other(o, before, d)
  BY <1>1 DEF Other
<1> QED BY <1>1, <1>2 DEF OthersIn

\* An object is judged as the member it was made of.
LEMMA ObjectJudged ==
    ASSUME NEW m, NEW i, NEW e
    PROVE  /\ Untouchable(Object(m, i), e) <=> Untouchable(m, e)
           /\ Object(m, i).id = i
<1>1. Object(m, i).name = m.name /\ Object(m, i).mtime = m.mtime /\ Object(m, i).id = i
  BY DEF Object
<1> HIDE DEF Object
<1> QED BY <1>1 DEF Untouchable, Named, SameName

\* An object that goes and is none of the others leaves them as they are.
LEMMA RemoveKeeps ==
    ASSUME NEW objs, IsSequence(objs), NEW before, NEW e, OthersIn(objs, before, e),
           NEW k \in 1..Len(objs), ~Other(objs[k], before, e), Len(before) \in Nat
    PROVE  OthersIn(RemoveAt(objs, k), before, e)
<1> DEFINE new == RemoveAt(objs, k)
           At(j) == IF j < k THEN j ELSE j + 1
<1>1. /\ Len(objs) \in Nat /\ k \in Nat /\ Len(new) = Len(objs) - 1
      /\ \A j \in 1..Len(new) : At(j) \in 1..Len(objs) /\ new[j] = objs[At(j)]
  <2>1. Len(objs) \in Nat /\ k \in Nat /\ Len(new) = Len(objs) - 1
    <3>1. Len(objs) \in Nat /\ k \in Nat
      BY DEF IsSequence
    <3>2. Len(new) = Len(objs) - 1
      BY RemoveIs
    <3> QED BY <3>1, <3>2
  <2>2. \A j \in 1..Len(objs) - 1 : new[j] = IF j < k THEN objs[j] ELSE objs[j + 1]
    BY RemoveIs
  <2> HIDE DEF new
  <2> QED BY <2>1, <2>2
<1>2. \A i, j \in 1..Len(new) : i < j => At(i) < At(j)
  BY <1>1
<1>3. \A i \in 1..Len(objs) : i # k => \E j \in 1..Len(new) : At(j) = i
  <2> SUFFICES ASSUME NEW i \in 1..Len(objs), i # k
               PROVE  \E j \in 1..Len(new) : At(j) = i
    OBVIOUS
  <2>1. CASE i < k
    <3>1. i \in 1..Len(new) /\ At(i) = i
      BY <2>1, <1>1
    <3> QED BY <3>1
  <2>2. CASE i > k
    <3>1. i - 1 \in 1..Len(new) /\ At(i - 1) = i
      BY <2>2, <1>1
    <3> QED BY <3>1
  <2> QED BY <2>1, <2>2, <1>1
<1> HIDE DEF new, At
<1>4. \A j \in 1..Len(new) :
          /\ GoodObject(new[j])
          /\ new[j].id =< Len(before) => new[j] = Object(before[new[j].id], new[j].id)
  BY <1>1 DEF OthersIn
<1>5. ASSUME NEW i \in 1..Len(before), Untouchable(before[i], e)
      PROVE  \E j \in 1..Len(new) : new[j].id = i
  <2>1. PICK l \in 1..Len(objs) : objs[l].id = i
    BY <1>5 DEF OthersIn
  <2>2. Other(objs[l], before, e)
    <3>1. i =< Len(before) /\ objs[l] = Object(before[i], i)
      BY <2>1 DEF OthersIn
    <3> QED BY <3>1, <1>5, ObjectJudged DEF Other
  <2>3. PICK j \in 1..Len(new) : At(j) = l
    BY <2>2, <1>3
  <2> QED BY <2>1, <2>3, <1>1
<1>6. ASSUME NEW i \in 1..Len(new), NEW j \in 1..Len(new),
             Other(new[i], before, e), Other(new[j], before, e), i < j
      PROVE  new[i].id < new[j].id
  BY <1>1, <1>2, <1>6 DEF OthersIn
<1> QED BY <1>4, <1>5, <1>6 DEF OthersIn, new

\* So does an object that is put anywhere among them.
LEMMA InsertKeeps ==
    ASSUME NEW objs, IsSequence(objs), NEW before, NEW e, OthersIn(objs, before, e),
           NEW o, ~Other(o, before, e), GoodObject(o),
           o.id =< Len(before) => o = Object(before[o.id], o.id),
           NEW new, Len(new) = Len(objs) + 1, NEW k \in 1..Len(objs) + 1,
           \A j \in 1..Len(objs) + 1 : new[j] = IF j < k THEN objs[j] ELSE IF j = k THEN o ELSE objs[j - 1]
    PROVE  OthersIn(new, before, e)
<1> DEFINE At(j) == IF j < k THEN j ELSE j - 1
<1>1. /\ Len(objs) \in Nat /\ k \in Nat /\ new[k] = o /\ k \in 1..Len(new)
      /\ \A j \in 1..Len(new) : j # k => At(j) \in 1..Len(objs) /\ new[j] = objs[At(j)]
  BY DEF IsSequence
<1>2. \A i, j \in 1..Len(new) : i < j /\ i # k /\ j # k => At(i) < At(j)
  BY <1>1
<1>3. \A i \in 1..Len(objs) : \E j \in 1..Len(new) : j # k /\ At(j) = i
  <2> SUFFICES ASSUME NEW i \in 1..Len(objs)
               PROVE  \E j \in 1..Len(new) : j # k /\ At(j) = i
    OBVIOUS
  <2>1. CASE i < k
    <3>1. i \in 1..Len(new) /\ At(i) = i /\ i # k
      BY <2>1, <1>1
    <3> QED BY <3>1
  <2>2. CASE i >= k
    <3>1. i + 1 \in 1..Len(new) /\ At(i + 1) = i /\ i + 1 # k
      BY <2>2, <1>1
    <3> QED BY <3>1
  <2> QED BY <2>1, <2>2, <1>1
<1> HIDE DEF At
<1>4. \A j \in 1..Len(new) :
          /\ GoodObject(new[j])
          /\ new[j].id =< Len(before) => new[j] = Object(before[new[j].id], new[j].id)
  <2> SUFFICES ASSUME NEW j \in 1..Len(new)
               PROVE  /\ GoodObject(new[j])
                      /\ new[j].id =< Len(before) => new[j] = Object(before[new[j].id], new[j].id)
    OBVIOUS
  <2>1. CASE j = k
    BY <2>1, <1>1
  <2>2. CASE j # k
    BY <2>2, <1>1 DEF OthersIn
  <2> QED BY <2>1, <2>2
<1>5. ASSUME NEW i \in 1..Len(before), Untouchable(before[i], e)
      PROVE  \E j \in 1..Len(new) : new[j].id = i
  <2>1. PICK l \in 1..Len(objs) : objs[l].id = i
    BY <1>5 DEF OthersIn
  <2>2. PICK j \in 1..Len(new) : j # k /\ At(j) = l
    BY <1>3
  <2> QED BY <2>1, <2>2, <1>1
<1>6. ASSUME NEW i \in 1..Len(new), NEW j \in 1..Len(new),
             Other(new[i], before, e), Other(new[j], before, e), i < j
      PROVE  new[i].id < new[j].id
  <2>1. i # k /\ j # k
    BY <1>1, <1>6
  <2> QED BY <1>1, <1>2, <1>6, <2>1 DEF OthersIn
<1> QED BY <1>4, <1>5, <1>6 DEF OthersIn

\* insert_obj puts one object somewhere, or uses memory that was freed.
LEMMA InsertObjKeeps ==
    ASSUME NEW e, IsEdit(e), NEW before, Len(before) \in Nat, OthersIn(e.objs, before, e),
           NEW o, ~Other(o, before, e), GoodObject(o),
           o.id =< Len(before) => o = Object(before[o.id], o.id)
    PROVE  LET d == InsertObj(e, o) IN
           IsEdit(d) /\ Same(e, d) /\ d.id = e.id /\ d.left = e.left /\ OthersIn(d.objs, before, d)
<1> DEFINE p == SelectInSeq(e.objs, LAMBDA x : x.id = e.pos)
           d == InsertObj(e, o)
           Put(k, new) ==
               /\ IsSequence(new) /\ Len(new) = Len(e.objs) + 1 /\ k \in 1..Len(e.objs) + 1
               /\ \A j \in 1..Len(e.objs) + 1 :
                     new[j] = IF j < k THEN e.objs[j] ELSE IF j = k THEN o ELSE e.objs[j - 1]
<1>1. Len(e.objs) \in Nat /\ IsSequence(e.objs)
  BY DEF IsEdit, IsSequence
<1>2. p \in 0..Len(e.objs)
  <2> DEFINE I == {i \in 1..Len(e.objs) : e.objs[i].id = e.pos}
  <2>1. I \in SUBSET Nat /\ p = IF I # {} THEN Min(I) ELSE 0
    BY DEF SelectInSeq
  <2>2. I # {} => Min(I) \in I
    <3> HIDE DEF I
    <3> QED BY <2>1, MinIs
  <2> QED BY <1>1, <2>1, <2>2
<1>3. Put(Len(e.objs) + 1, Append(e.objs, o))
  <2>1. /\ IsSequence(Append(e.objs, o)) /\ Len(Append(e.objs, o)) = Len(e.objs) + 1
        /\ \A j \in 1..Len(e.objs) + 1 :
              Append(e.objs, o)[j] = IF j = Len(e.objs) + 1 THEN o ELSE e.objs[j]
    BY <1>1, AppendIs
  <2> QED BY <1>1, <2>1
<1>4. \A k \in 1..Len(e.objs) + 1 : Put(k, InsertAt(e.objs, k, o))
  BY <1>1, InsertIs
<1>5. \/ d = [e EXCEPT !.freed = TRUE]
      \/ \E k, new : Put(k, new) /\ d = [e EXCEPT !.objs = new]
  <2>1. CASE e.pos = 0 \/ o.id = e.pos
    BY <2>1, <1>3 DEF InsertObj
  <2>2. CASE ~(e.pos = 0 \/ o.id = e.pos) /\ p = 0
    BY <2>2 DEF InsertObj
  <2>3. CASE ~(e.pos = 0 \/ o.id = e.pos) /\ p # 0
    <3>1. p \in 1..Len(e.objs) + 1 /\ p + 1 \in 1..Len(e.objs) + 1
      BY <1>1, <1>2, <2>3
    <3>2. d = [e EXCEPT !.objs = InsertAt(e.objs, p, o)]
          \/ d = [e EXCEPT !.objs = InsertAt(e.objs, p + 1, o)]
          \/ d = [e EXCEPT !.objs = Append(e.objs, o)]
      BY <2>3 DEF InsertObj
    <3> HIDE DEF p, d, Put
    <3> QED BY <3>1, <3>2, <1>3, <1>4
  <2> HIDE DEF p, d, Put
  <2> QED BY <2>1, <2>2, <2>3
<1> HIDE DEF p, d
<1>6. CASE d = [e EXCEPT !.freed = TRUE]
  <2>1. /\ IsEdit(d) /\ d.objs = e.objs /\ d.mode = e.mode /\ d.argv = e.argv /\ d.opts = e.opts
        /\ d.id = e.id /\ d.left = e.left
    BY <1>6 DEF IsEdit
  <2> QED BY <2>1, SameJudged DEF Same, d
<1>7. ASSUME NEW k, NEW new, Put(k, new), d = [e EXCEPT !.objs = new]
      PROVE  IsEdit(d) /\ Same(e, d) /\ d.id = e.id /\ d.left = e.left /\ OthersIn(d.objs, before, d)
  <2>1. /\ IsEdit(d) /\ d.objs = new /\ d.mode = e.mode /\ d.argv = e.argv /\ d.opts = e.opts
        /\ d.id = e.id /\ d.left = e.left
    BY <1>7 DEF IsEdit
  <2>2. OthersIn(new, before, e)
    BY <1>1, <1>7, InsertKeeps
  <2> QED BY <2>1, <2>2, SameJudged DEF Same
<1> QED BY <1>5, <1>6, <1>7 DEF d

\* What is known of an edit at each stage.
EditKeeps(e, before) ==
    IsEdit(e) /\ e.id > Len(before) /\ Len(before) \in Nat /\ OthersIn(e.objs, before, e)

\* One file added: it is a new object.
LEMMA AddArgKeeps ==
    ASSUME NEW e, NEW before, EditKeeps(e, before), NEW n \in Names
    PROVE  LET d == AddArg(e, n) IN EditKeeps(d, before) /\ Same(e, d)
<1> DEFINE o == FileObject(n, e.opts, e.id)
           c == [e EXCEPT !.id = @ + 1]
<1>1. CASE ~CreateObj(n, 0, e.opts)
  BY <1>1 DEF AddArg, Same
<1>2. CASE CreateObj(n, 0, e.opts)
  <2>1. AddArg(e, n) = InsertObj(c, o)
    BY <1>2 DEF AddArg
  <2>2. /\ IsEdit(c) /\ Same(e, c) /\ c.objs = e.objs /\ c.id = e.id + 1 /\ c.id > Len(before)
    BY DEF EditKeeps, IsEdit, Same
  <2>3. OthersIn(c.objs, before, c)
    BY <2>2, SameJudged DEF EditKeeps
  <2>4. o.id = e.id /\ GoodObject(o) /\ ~(e.id =< Len(before))
    <3>1. e.id \in Nat \ {0} /\ ~(e.id =< Len(before))
      BY DEF EditKeeps, IsEdit
    <3> QED BY <1>2, <3>1, FileObjectIs
  <2>5. ~Other(o, before, c)
    BY <2>4 DEF Other
  <2> HIDE DEF c, o
  <2>6. LET d == InsertObj(c, o) IN
        IsEdit(d) /\ Same(c, d) /\ d.id = c.id /\ OthersIn(d.objs, before, d)
    BY <2>2, <2>3, <2>4, <2>5, InsertObjKeeps DEF EditKeeps
  <2> QED BY <2>1, <2>2, <2>6 DEF EditKeeps, Same
<1> QED BY <1>1, <1>2

\* An argument is left for later.
LEMMA WithLeft ==
    ASSUME NEW e, IsEdit(e), NEW left \in Seq(Names), NEW d, d = [e EXCEPT !.left = left]
    PROVE  IsEdit(d) /\ Same(e, d) /\ d.objs = e.objs /\ d.id = e.id
<1>1. d = [objs |-> e.objs, mode |-> e.mode, argv |-> e.argv, pos |-> e.pos, opts |-> e.opts,
           left |-> left, id |-> e.id, freed |-> e.freed]
  BY DEF IsEdit
<1> QED BY <1>1 DEF IsEdit, Same

\* One argument of modes d, m and r: the object it deletes, moves or replaces is one the
\* edit has business with.
LEMMA EditArgKeeps ==
    ASSUME NEW e, NEW before, EditKeeps(e, before), e.mode \in {"d", "m", "r"},
           e.argv \in Seq(Names), NEW i \in 1..Len(e.argv)
    PROVE  LET d == EditArg(e, e.argv[i]) IN EditKeeps(d, before) /\ Same(e, d)
<1> DEFINE n == e.argv[i]
           I == {j \in 1..Len(e.objs) : SameName(n, e.objs[j], e.opts)}
           k == SelectInSeq(e.objs, LAMBDA x : SameName(n, x, e.opts))
           removed == [e EXCEPT !.objs = RemoveAt(@, k), !.id = @ + 1]
           o == FileObject(n, e.opts, e.id)
           Kept(d) == EditKeeps(d, before) /\ Same(e, d)
<1>1. /\ IsSequence(e.objs) /\ e.left \in Seq(Names) /\ Len(e.objs) \in Nat /\ e.id \in Nat
      /\ Len(before) \in Nat /\ n \in Names
  BY DEF EditKeeps, IsEdit, IsSequence
<1>2. k = 0 \/ (k \in 1..Len(e.objs) /\ SameName(n, e.objs[k], e.opts))
  <2>1. I \in SUBSET Nat /\ k = IF I # {} THEN Min(I) ELSE 0
    BY DEF SelectInSeq
  <2>2. I # {} => Min(I) \in I
    <3> HIDE DEF I
    <3> QED BY <2>1, MinIs
  <2> QED BY <2>1, <2>2
<1>3. EditArg(e, n) = IF k = 0 THEN [e EXCEPT !.left = Append(@, n)]
                      ELSE CASE e.mode = "d" -> removed
                             [] e.mode = "m" -> InsertObj(removed, e.objs[k])
                             [] e.mode = "r" ->
                                  IF CreateObj(n, e.objs[k].mtime, e.opts) THEN InsertObj(removed, o) ELSE e
  BY DEF EditArg
<1> HIDE DEF k
<1>4. CASE k = 0
  <2> DEFINE d == [e EXCEPT !.left = Append(@, n)]
  <2>1. Append(e.left, n) \in Seq(Names)
    BY <1>1
  <2>2. /\ IsEdit(d) /\ Same(e, d) /\ d.objs = e.objs /\ d.id = e.id
    <3>1. IsEdit(e) /\ d = [e EXCEPT !.left = Append(e.left, n)]
      BY DEF EditKeeps
    <3> HIDE DEF d, n
    <3> QED BY <2>1, <3>1, WithLeft
  <2> HIDE DEF d
  <2>3. Kept(d)
    BY <2>2, SameJudged DEF EditKeeps
  <2> QED BY <2>3, <1>3, <1>4 DEF d
<1>5. CASE k # 0
  <2>1. k \in 1..Len(e.objs) /\ SameName(n, e.objs[k], e.opts)
    BY <1>2, <1>5
  <2>2. Named(e.objs[k], e)
    <3>1. DOMAIN e.argv = 1..Len(e.argv)
      OBVIOUS
    <3> QED BY <2>1, <3>1 DEF Named
  <2>3. /\ IsEdit(removed) /\ Same(e, removed) /\ removed.objs = RemoveAt(e.objs, k)
        /\ removed.id = e.id + 1
    <3> DEFINE objs == RemoveAt(e.objs, k)
               id == e.id + 1
    <3>1. IsSequence(objs)
      BY <1>1, <2>1, RemoveIs
    <3>2. id \in Nat
      BY <1>1
    <3>3. IsEdit(e) /\ removed = [e EXCEPT !.objs = objs, !.id = id]
      BY DEF EditKeeps
    <3> HIDE DEF removed, objs, id
    <3>4. removed = [objs |-> objs, mode |-> e.mode, argv |-> e.argv, pos |-> e.pos, opts |-> e.opts,
                     left |-> e.left, id |-> id, freed |-> e.freed]
      BY <3>3 DEF IsEdit
    <3>5. IsEdit(removed) /\ Same(e, removed) /\ removed.objs = objs /\ removed.id = id
      BY <1>1, <3>1, <3>2, <3>4 DEF IsEdit, Same
    <3> QED BY <3>5 DEF objs, id
  <2>4. removed.id > Len(before) /\ removed.id \in Nat
    BY <2>3, <1>1 DEF EditKeeps
  <2> HIDE DEF removed, o, n
  <2>5. ASSUME ~Untouchable(e.objs[k], e)
        PROVE  Kept(removed)
    <3>1. ~Other(e.objs[k], before, e)
      BY <2>5 DEF Other
    <3>2. OthersIn(RemoveAt(e.objs, k), before, e)
      BY <1>1, <2>1, <3>1, RemoveKeeps DEF EditKeeps
    <3>3. OthersIn(removed.objs, before, removed)
      BY <2>3, <3>2, SameJudged
    <3> QED BY <1>1, <2>3, <2>4, <3>3 DEF EditKeeps
  <2>6. ASSUME Kept(removed), NEW x, ~Other(x, before, e), GoodObject(x),
               x.id =< Len(before) => x = Object(before[x.id], x.id)
        PROVE  Kept(InsertObj(removed, x))
    <3>1. ~Other(x, before, removed)
      BY <2>6, <2>3 DEF Other, Same, Untouchable, Named
    <3>2. LET d == InsertObj(removed, x) IN
          IsEdit(d) /\ Same(removed, d) /\ d.id = removed.id /\ OthersIn(d.objs, before, d)
      BY <2>6, <3>1, <1>1, InsertObjKeeps DEF EditKeeps
    <3> QED BY <3>2, <2>3, <2>4, <1>1 DEF EditKeeps, Same
  <2>7. CASE e.mode = "d"
    <3>1. ~Untouchable(e.objs[k], e)
      BY <2>2, <2>7 DEF Untouchable
    <3> QED BY <3>1, <2>5, <2>7, <1>3, <1>5 DEF n
  <2>8. CASE e.mode = "m"
    <3>1. ~Untouchable(e.objs[k], e)
      BY <2>2, <2>8 DEF Untouchable
    <3>2. /\ ~Other(e.objs[k], before, e) /\ GoodObject(e.objs[k])
          /\ e.objs[k].id =< Len(before) => e.objs[k] = Object(before[e.objs[k].id], e.objs[k].id)
      BY <2>1, <3>1 DEF Other, EditKeeps, OthersIn
    <3>3. Kept(InsertObj(removed, e.objs[k]))
      BY <3>1, <3>2, <2>5, <2>6
    <3> QED BY <3>3, <2>8, <1>3, <1>5 DEF n
  <2>9. CASE e.mode = "r" /\ CreateObj(n, e.objs[k].mtime, e.opts)
    <3>1. ~Untouchable(e.objs[k], e)
      <4>1. DOMAIN e.argv = 1..Len(e.argv)
        OBVIOUS
      <4> QED BY <2>1, <2>2, <2>9, <4>1 DEF Untouchable, n
    <3>2. o.id = e.id /\ ~(e.id =< Len(before)) /\ GoodObject(o)
      <4>1. e.id \in Nat \ {0} /\ ~(e.id =< Len(before))
        BY <1>1 DEF EditKeeps
      <4> QED BY <1>1, <2>9, <4>1, FileObjectIs DEF o
    <3>3. ~Other(o, before, e)
      BY <3>2 DEF Other
    <3>4. Kept(InsertObj(removed, o))
      BY <3>1, <3>2, <3>3, <2>5, <2>6
    <3> QED BY <3>4, <2>9, <1>3, <1>5 DEF n
  <2>10. CASE e.mode = "r" /\ ~CreateObj(n, e.objs[k].mtime, e.opts)
    BY <2>10, <1>3, <1>5 DEF n, Same
  <2> QED BY <2>7, <2>8, <2>9, <2>10
<1> QED BY <1>4, <1>5

\* Induction up to n.
LEMMA Upward ==
    ASSUME NEW n \in Nat, NEW T, 0 \in T, \A k \in 1..n : k - 1 \in T => k \in T
    PROVE  \A k \in 0..n : k \in T
<1> DEFINE Bad == {k \in 0..n : k \notin T}
<1> SUFFICES ASSUME Bad # {} PROVE FALSE
  OBVIOUS
<1>1. Bad \in SUBSET Nat
  OBVIOUS
<1>2. Min(Bad) \in Bad /\ \A x \in Bad : Min(Bad) =< x
  <2> HIDE DEF Bad
  <2> QED BY <1>1, MinIs
<1> DEFINE m == Min(Bad)
<1>3. m \in 0..n /\ m \notin T /\ \A x \in Bad : m =< x
  BY <1>2
<1> HIDE DEF m
<1>4. m \in 1..n /\ m - 1 \in 0..n
  BY <1>3
<1>5. m - 1 \notin Bad
  BY <1>3, <1>4
<1> QED BY <1>3, <1>4, <1>5

\* All arguments, one after the other.
LEMMA EditsKeep ==
    ASSUME NEW e, NEW before, EditKeeps(e, before), e.mode \in {"d", "m", "r"}, e.argv \in Seq(Names)
    PROVE  LET d == FoldLeft(EditArg, e, e.argv) IN EditKeeps(d, before) /\ Same(e, d)
<1> DEFINE n == Len(e.argv)
<1>0. IsSequence(e.argv)
  BY SeqIs
<1>1. PICK f : /\ f[0] = e /\ f[n] = Fold("edit", e, e.argv)
               /\ \A k \in 1..n : f[k] = One("edit", f[k - 1], e.argv[k])
  BY <1>0, FoldStages
<1> DEFINE T == {k \in 0..n : EditKeeps(f[k], before) /\ Same(e, f[k])}
<1>2. n \in Nat
  BY <1>0 DEF IsSequence
<1>3. 0 \in T
  BY <1>1, <1>2 DEF Same
<1>4. ASSUME NEW k \in 1..n, k - 1 \in T PROVE k \in T
  <2> DEFINE d == f[k - 1]
  <2>1. EditKeeps(d, before) /\ Same(e, d) /\ k \in 0..n
    BY <1>2, <1>4
  <2>2. f[k] = EditArg(d, e.argv[k])
    BY <1>1 DEF One
  <2> HIDE DEF d
  <2>3. d.mode \in {"d", "m", "r"} /\ d.argv = e.argv /\ k \in 1..Len(d.argv)
    BY <2>1 DEF Same
  <2>4. LET c == EditArg(d, d.argv[k]) IN EditKeeps(c, before) /\ Same(d, c)
    BY <2>1, <2>3, EditArgKeeps
  <2> QED BY <2>1, <2>2, <2>3, <2>4 DEF Same
<1>5. n \in T
  <2> HIDE DEF T
  <2>1. \A k \in 0..n : k \in T
    BY <1>2, <1>3, <1>4, Upward
  <2> QED BY <2>1, <1>2
<1> QED BY <1>1, <1>5, FoldsAre

\* All files added.
LEMMA AddsKeep ==
    ASSUME NEW e, NEW before, EditKeeps(e, before), NEW args \in Seq(Names)
    PROVE  EditKeeps(FoldLeft(AddArg, e, args), before)
<1> DEFINE n == Len(args)
<1>0. IsSequence(args)
  BY SeqIs
<1>1. PICK f : /\ f[0] = e /\ f[n] = Fold("add", e, args)
               /\ \A k \in 1..n : f[k] = One("add", f[k - 1], args[k])
  BY <1>0, FoldStages
<1> DEFINE T == {k \in 0..n : EditKeeps(f[k], before)}
<1>2. n \in Nat /\ \A k \in 1..n : args[k] \in Names
  OBVIOUS
<1>3. 0 \in T
  BY <1>1, <1>2
<1>4. ASSUME NEW k \in 1..n, k - 1 \in T PROVE k \in T
  <2>1. f[k] = AddArg(f[k - 1], args[k])
    BY <1>1 DEF One
  <2> QED BY <2>1, <1>2, <1>4, AddArgKeeps
<1>5. n \in T
  <2> HIDE DEF T
  <2>1. \A k \in 0..n : k \in T
    BY <1>2, <1>3, <1>4, Upward
  <2> QED BY <2>1, <1>2
<1> QED BY <1>1, <1>5, FoldsAre

----------------------------------------------------------------------------
(* Lists of members. *)

GoodList(ms) == IsSequence(ms) /\ \A i \in 1..Len(ms) : GoodMember(ms[i])

LEMMA GoodAppend ==
    ASSUME NEW ms, GoodList(ms), NEW m, GoodMember(m)
    PROVE  GoodList(Append(ms, m))
<1>1. /\ IsSequence(Append(ms, m)) /\ Len(Append(ms, m)) = Len(ms) + 1
      /\ \A j \in 1..Len(ms) + 1 : Append(ms, m)[j] = IF j = Len(ms) + 1 THEN m ELSE ms[j]
  BY AppendIs DEF GoodList
<1>2. \A j \in 1..Len(ms) + 1 : j # Len(ms) + 1 => j \in 1..Len(ms)
  BY DEF GoodList, IsSequence
<1> QED BY <1>1, <1>2 DEF GoodList

\* What ADDLIB takes of the members of an archive.
LEMMA TakenIs ==
    ASSUME NEW img, GoodImage(img), NEW argv
    PROVE  GoodList(TakeNamed(img, argv))
<1> DEFINE n == Len(img.members)
           t0 == [objs |-> <<>>, left |-> argv]
<1>0. IsSequence(img.members) /\ \A k \in 1..n : GoodMember(img.members[k])
  BY MembersAre
<1>1. PICK f : /\ f[0] = t0 /\ f[n] = Fold("take", t0, img.members)
               /\ \A k \in 1..n : f[k] = One("take", f[k - 1], img.members[k])
  <2>1. IsSequence(img.members)
    BY <1>0
  <2> QED BY <2>1, FoldStages
<1> DEFINE T == {k \in 0..n : GoodList(f[k].objs)}
<1>2. n \in Nat
  BY <1>0 DEF IsSequence
<1>3. 0 \in T
  BY <1>1, <1>2 DEF IsSequence, GoodList
<1>4. ASSUME NEW k \in 1..n, k - 1 \in T PROVE k \in T
  <2>1. f[k] = TakeOne(f[k - 1], img.members[k])
    BY <1>1 DEF One
  <2>2. f[k].objs \in {f[k - 1].objs, Append(f[k - 1].objs, img.members[k])}
    BY <2>1 DEF TakeOne
  <2>3. GoodList(Append(f[k - 1].objs, img.members[k]))
    BY <1>0, <1>4, GoodAppend
  <2>4. GoodList(f[k].objs)
    BY <2>2, <2>3, <1>4
  <2> QED BY <2>4, <1>2
<1>5. n \in T
  <2> HIDE DEF T
  <2>1. \A k \in 0..n : k \in T
    BY <1>2, <1>3, <1>4, Upward
  <2> QED BY <2>1, <1>2
<1>6. GoodList(Fold("take", t0, img.members).objs)
  BY <1>1, <1>5
<1> QED BY <1>6, FoldsAre

\* What is kept of a list: good members, and where no object is empty all of them.
LEMMA KeptAreGood ==
    ASSUME NEW ms0, ms0 = <<>>, NEW objs, IsSequence(objs), \A i \in 1..Len(objs) : objs[i] \in Objects
    PROVE  LET ms == Fold("keep", ms0, objs) IN
           /\ GoodList(ms)
           /\ (\A i \in 1..Len(objs) : objs[i].size # 0) =>
                 Len(ms) = Len(objs) /\ \A i \in 1..Len(objs) : ms[i] = Stored(objs[i])
<1> DEFINE n == Len(objs)
           Full == \A i \in 1..n : objs[i].size # 0
<1>1. PICK f : /\ f[0] = ms0 /\ f[n] = Fold("keep", ms0, objs)
               /\ \A k \in 1..n : f[k] = One("keep", f[k - 1], objs[k])
  BY FoldStages
<1> DEFINE Stage(k) == /\ GoodList(f[k])
                       /\ Full => Len(f[k]) = k /\ \A i \in 1..k : f[k][i] = Stored(objs[i])
           T == {k \in 0..n : Stage(k)}
<1>2. n \in Nat
  BY DEF IsSequence
<1>3. 0 \in T
  BY <1>1, <1>2 DEF GoodList, IsSequence
<1>4. ASSUME NEW k \in 1..n, k - 1 \in T PROVE k \in T
  <2> DEFINE ms == f[k - 1]
             o == Stored(objs[k])
  <2>1. f[k] = IF objs[k].size > 0 THEN Append(ms, o) ELSE ms
    BY <1>1 DEF One, KeepOne
  <2>2. GoodList(ms) /\ (Full => Len(ms) = k - 1 /\ \A i \in 1..k - 1 : ms[i] = Stored(objs[i]))
    BY <1>4
  <2>3. objs[k].size \in Nat /\ o \in Members /\ o.size = objs[k].size
    BY StoredIsGood DEF Objects
  <2>4. objs[k].size > 0 => GoodMember(o)
    BY <2>3 DEF GoodMember
  <2> HIDE DEF ms, o
  <2>5. /\ IsSequence(Append(ms, o)) /\ Len(Append(ms, o)) = Len(ms) + 1
        /\ \A j \in 1..Len(ms) + 1 : Append(ms, o)[j] = IF j = Len(ms) + 1 THEN o ELSE ms[j]
    BY <2>2, AppendIs DEF GoodList
  <2>6. CASE objs[k].size > 0
    <3>1. GoodList(f[k])
      BY <2>1, <2>2, <2>4, <2>6, GoodAppend
    <3>2. ASSUME Full, NEW i \in 1..k
          PROVE  Len(f[k]) = k /\ f[k][i] = Stored(objs[i])
      <4>1. Len(ms) = k - 1 /\ \A l \in 1..k - 1 : ms[l] = Stored(objs[l])
        BY <2>2, <3>2
      <4>2. Len(f[k]) = k /\ f[k][i] = IF i = k THEN o ELSE ms[i]
        BY <2>1, <2>5, <2>6, <4>1
      <4>3. i # k => i \in 1..k - 1
        OBVIOUS
      <4> QED BY <4>1, <4>2, <4>3 DEF o
    <3>3. k \in 1..k
      BY <1>2
    <3>4. Stage(k)
      BY <3>1, <3>2, <3>3
    <3> HIDE DEF Stage
    <3> QED BY <3>4, <1>2
  <2>7. CASE ~(objs[k].size > 0)
    <3>1. ~Full
      BY <2>3, <2>7
    <3>2. Stage(k)
      BY <2>1, <2>2, <2>7, <3>1
    <3> HIDE DEF Stage
    <3> QED BY <3>2, <1>2
  <2> QED BY <2>6, <2>7
<1>5. n \in T
  <2> HIDE DEF T
  <2>1. \A k \in 0..n : k \in T
    BY <1>2, <1>3, <1>4, Upward
  <2> QED BY <2>1, <1>2
<1> QED BY <1>1, <1>5

\* What is written of a list.
LEMMA WrittenIs ==
    ASSUME NEW objs, IsSequence(objs), \A i \in 1..Len(objs) : objs[i] \in Objects
    PROVE  LET ms == WrittenMembers(objs) IN
           /\ GoodList(ms)
           /\ (\A i \in 1..Len(objs) : objs[i].size # 0) =>
                 Len(ms) = Len(objs) /\ \A i \in 1..Len(objs) : ms[i] = Stored(objs[i])
<1>1. LET ms == Fold("keep", <<>>, objs) IN
      /\ GoodList(ms)
      /\ (\A i \in 1..Len(objs) : objs[i].size # 0) =>
            Len(ms) = Len(objs) /\ \A i \in 1..Len(objs) : ms[i] = Stored(objs[i])
  BY KeptAreGood
<1>2. WrittenMembers(objs) = Fold("keep", <<>>, objs)
  BY FoldsAre
<1> QED BY <1>1, <1>2

----------------------------------------------------------------------------
(* The edit as a whole. *)

\* At first the list is what the archive holds, in its order.
LEMMA EditBegins ==
    ASSUME NEW img, GoodImage(img), NEW mode, NEW argv, NEW posarg, NEW opts
    PROVE  LET e == Edit(ReadObjs(img), mode, argv, posarg, opts) IN
           /\ EditKeeps(e, img.members) /\ e.mode = mode /\ e.argv = argv
           /\ e.id = Len(img.members) + 1 /\ e.objs = ReadObjs(img)
<1> DEFINE e == Edit(ReadObjs(img), mode, argv, posarg, opts)
           n == Len(img.members)
           objs == ReadObjs(img)
<1>1. n \in Nat /\ \A i \in 1..n : GoodMember(img.members[i])
  BY MembersAre
<1>2. IsSequence(objs) /\ Len(objs) = n /\ \A i \in 1..n : objs[i] = Object(img.members[i], i)
  <2>1. objs = [i \in 1..n |-> Object(img.members[i], i)]
    BY DEF ReadObjs
  <2> HIDE DEF objs, n
  <2>2. objs = [i \in 1..n |-> objs[i]]
    BY <2>1
  <2> QED BY <1>1, <2>1, <2>2, Listing
<1>3. \A i \in 1..n : objs[i].id = i /\ GoodObject(objs[i])
  <2> SUFFICES ASSUME NEW i \in 1..n PROVE objs[i].id = i /\ GoodObject(objs[i])
    OBVIOUS
  <2>1. i \in Nat \ {0} /\ GoodMember(img.members[i]) /\ objs[i] = Object(img.members[i], i)
    BY <1>1, <1>2
  <2> QED BY <2>1, ObjectJudged, ObjectIsGood
<1> HIDE DEF objs
<1>4. /\ e.objs = objs /\ e.mode = mode /\ e.argv = argv /\ e.left = <<>> /\ e.id = Len(objs) + 1
      /\ e = [objs |-> e.objs, mode |-> e.mode, argv |-> e.argv, pos |-> e.pos, opts |-> e.opts,
              left |-> e.left, id |-> e.id, freed |-> e.freed]
  BY DEF Edit, objs
<1> HIDE DEF e
<1>5. IsEdit(e)
  BY <1>1, <1>2, <1>4 DEF IsEdit, IsSequence
<1>6. OthersIn(objs, img.members, e)
  BY <1>1, <1>2, <1>3 DEF OthersIn
<1> QED BY <1>1, <1>2, <1>4, <1>5, <1>6 DEF EditKeeps, e, objs

\* ADDLIB adds members of another archive at the end.
LEMMA LibraryKeeps ==
    ASSUME NEW e, NEW before, EditKeeps(e, before), NEW lib, GoodList(lib)
    PROVE  EditKeeps([e EXCEPT !.objs = @ \o [i \in 1..Len(lib) |-> Object(lib[i], e.id + i)]], before)
<1> DEFINE more == [i \in 1..Len(lib) |-> Object(lib[i], e.id + i)]
           all == e.objs \o more
           d == [e EXCEPT !.objs = all]
           n == Len(e.objs)
<1>1. n \in Nat /\ Len(lib) \in Nat /\ IsSequence(e.objs) /\ e.id \in Nat /\ Len(before) \in Nat
  BY DEF EditKeeps, IsEdit, IsSequence, GoodList
<1>2. IsSequence(more) /\ Len(more) = Len(lib)
  <2>1. more = [i \in 1..Len(lib) |-> more[i]]
    OBVIOUS
  <2> HIDE DEF more
  <2> QED BY <1>1, <2>1, Listing
<1>3. \A i \in 1..Len(lib) : more[i].id = e.id + i /\ GoodObject(more[i])
  <2> SUFFICES ASSUME NEW i \in 1..Len(lib) PROVE more[i].id = e.id + i /\ GoodObject(more[i])
    OBVIOUS
  <2>1. e.id + i \in Nat \ {0} /\ GoodMember(lib[i]) /\ more[i] = Object(lib[i], e.id + i)
    BY <1>1 DEF GoodList
  <2> QED BY <2>1, ObjectJudged, ObjectIsGood
<1> HIDE DEF more
<1>4. /\ IsSequence(all) /\ Len(all) = n + Len(lib)
      /\ \A j \in 1..n + Len(lib) : all[j] = IF j =< n THEN e.objs[j] ELSE more[j - n]
  BY <1>1, <1>2, ConcatIs
<1> HIDE DEF all
<1>5. \A j \in 1..Len(all) : (j \in 1..n /\ all[j] = e.objs[j])
                          \/ (GoodObject(all[j]) /\ all[j].id > Len(before) /\ all[j].id \in Nat)
  <2> SUFFICES ASSUME NEW j \in 1..Len(all)
               PROVE  \/ j \in 1..n /\ all[j] = e.objs[j]
                      \/ GoodObject(all[j]) /\ all[j].id > Len(before) /\ all[j].id \in Nat
    OBVIOUS
  <2>1. CASE j =< n
    BY <2>1, <1>1, <1>4
  <2>2. CASE ~(j =< n)
    <3>1. j - n \in 1..Len(lib) /\ all[j] = more[j - n]
      BY <2>2, <1>1, <1>4
    <3>2. all[j].id = e.id + (j - n) /\ GoodObject(all[j])
      BY <3>1, <1>3
    <3>3. e.id > Len(before)
      BY DEF EditKeeps
    <3> QED BY <3>1, <3>2, <3>3, <1>1
  <2> QED BY <2>1, <2>2
<1>6. OthersIn(all, before, e)
  <2>1. \A j \in 1..n : j \in 1..Len(all) /\ all[j] = e.objs[j]
    BY <1>1, <1>4
  <2>2. \A j \in 1..Len(all) : all[j].id =< Len(before) => j \in 1..n /\ all[j] = e.objs[j]
    BY <1>1, <1>5
  <2>3. \A j \in 1..Len(all) : GoodObject(all[j])
    BY <1>1, <1>5 DEF EditKeeps, OthersIn
  <2>4. OthersIn(e.objs, before, e)
    BY DEF EditKeeps
  <2>5. \A j \in 1..Len(all) : all[j].id =< Len(before) => all[j] = Object(before[all[j].id], all[j].id)
    BY <2>2, <2>4 DEF OthersIn
  <2>6. \A i \in 1..Len(before) : Untouchable(before[i], e) => \E k \in 1..Len(all) : all[k].id = i
    BY <2>1, <2>4 DEF OthersIn
  <2>7. \A j, k \in 1..Len(all) :
            Other(all[j], before, e) /\ Other(all[k], before, e) /\ j < k => all[j].id < all[k].id
    <3>1. \A j \in 1..Len(all) : Other(all[j], before, e) => j \in 1..n /\ Other(e.objs[j], before, e)
                                                           /\ all[j].id = e.objs[j].id
      BY <2>2 DEF Other
    <3> QED BY <3>1, <2>4 DEF OthersIn
  <2> QED BY <2>3, <2>5, <2>6, <2>7 DEF OthersIn
<1>7. IsEdit(d) /\ Same(e, d) /\ d.objs = all /\ d.id = e.id
  <2>1. d = [objs |-> all, mode |-> e.mode, argv |-> e.argv, pos |-> e.pos, opts |-> e.opts,
             left |-> e.left, id |-> e.id, freed |-> e.freed]
    BY DEF EditKeeps, IsEdit
  <2> QED BY <2>1, <1>4 DEF IsEdit, Same, EditKeeps
<1> HIDE DEF d
<1>8. EditKeeps(d, before)
  BY <1>1, <1>6, <1>7, SameJudged DEF EditKeeps
<1> QED BY <1>8 DEF d, all, more

\* Every mode of ar_write_archive.
LEMMA EditArchiveKeeps ==
    ASSUME NEW img, GoodImage(img), NEW lib, GoodImage(lib),
           NEW mode \in {"d", "m", "q", "r", "s", "A"}, NEW argv \in Seq(Names), NEW posarg, NEW opts
    PROVE  EditKeeps(EditArchive(img, mode, argv, posarg, opts, lib), img.members)
<1> DEFINE e0 == Edit(ReadObjs(img), mode, argv, posarg, opts)
           e1 == FoldLeft(EditArg, e0, argv)
           ms == IF argv = <<>> THEN lib.members ELSE TakeNamed(lib, argv)
           new == [e0 EXCEPT !.objs = @ \o [i \in 1..Len(ms) |-> Object(ms[i], e0.id + i)]]
           before == img.members
<1>1. EditKeeps(e0, before) /\ e0.mode = mode /\ e0.argv = argv
  BY EditBegins
<1>2. EditArchive(img, mode, argv, posarg, opts, lib)
        = CASE mode = "s" -> e0
            [] mode = "A" -> new
            [] mode = "q" -> FoldLeft(AddArg, e0, argv)
            [] mode = "r" -> FoldLeft(AddArg, e1, e1.left)
            [] OTHER      -> e1
  BY DEF EditArchive
<1>3. GoodList(ms)
  <2>1. GoodList(lib.members)
    BY MembersAre DEF GoodList
  <2> QED BY <2>1, TakenIs
<1> HIDE DEF e0, ms
<1>4. EditKeeps(new, before)
  BY <1>1, <1>3, LibraryKeeps
<1>5. mode \in {"d", "m", "r"} => EditKeeps(e1, before)
  BY <1>1, EditsKeep
<1> HIDE DEF e1, new
<1>6. CASE mode = "s"
  BY <1>1, <1>2, <1>6
<1>7. CASE mode = "A"
  BY <1>2, <1>4, <1>7
<1>8. CASE mode = "q"
  <2>1. EditKeeps(FoldLeft(AddArg, e0, argv), before)
    BY <1>1, AddsKeep
  <2> QED BY <2>1, <1>2, <1>8
<1>9. CASE mode = "r"
  <2>1. e1.left \in Seq(Names)
    BY <1>5, <1>9 DEF EditKeeps, IsEdit
  <2>2. EditKeeps(FoldLeft(AddArg, e1, e1.left), before)
    BY <2>1, <1>5, <1>9, AddsKeep
  <2> QED BY <2>2, <1>2, <1>9
<1>10. CASE mode \in {"d", "m"}
  BY <1>2, <1>5, <1>10
<1> QED BY <1>6, <1>7, <1>8, <1>9, <1>10

\* What OthersKept says of an edit of which this much is known.
LEMMA KeptIsSaid ==
    ASSUME NEW e, NEW img, GoodImage(img), EditKeeps(e, img.members)
    PROVE  LET before == img.members
               objs == e.objs
               left == {k \in DOMAIN objs : objs[k].id =< Len(before) /\ Untouchable(objs[k], e)}
           IN  /\ \A i \in DOMAIN before : Untouchable(before[i], e) =>
                      \E k \in DOMAIN objs : objs[k].id = i
               /\ \A k \in left : Stored(objs[k]) = before[objs[k].id]
               /\ \A j, k \in left : j < k => objs[j].id < objs[k].id
<1> DEFINE before == img.members
           objs == e.objs
<1>1. DOMAIN objs = 1..Len(objs) /\ DOMAIN before = 1..Len(before)
  BY MembersAre DEF EditKeeps, IsEdit, IsSequence
<1>2. OthersIn(objs, before, e) /\ Len(before) \in Nat
  BY DEF EditKeeps
<1>3. \A k \in 1..Len(objs) : objs[k].id =< Len(before) => Stored(objs[k]) = before[objs[k].id]
  <2> SUFFICES ASSUME NEW k \in 1..Len(objs), objs[k].id =< Len(before)
               PROVE  Stored(objs[k]) = before[objs[k].id]
    OBVIOUS
  <2> DEFINE i == objs[k].id
  <2>1. i \in 1..Len(before) /\ i \in Nat \ {0} /\ objs[k] = Object(before[i], i)
    BY <1>2 DEF OthersIn, GoodObject, Objects
  <2>2. GoodMember(before[i])
    BY <2>1, MembersAre
  <2> QED BY <2>1, <2>2, ObjectIsGood
<1> QED BY <1>1, <1>2, <1>3 DEF OthersIn, Other

----------------------------------------------------------------------------
(* Sums. *)

\* A sum of numbers is a number.
LEMMA SumIs ==
    ASSUME NEW what, NEW seq, IsSequence(seq),
           \A k \in 1..Len(seq) : \A y \in Nat : One(what, y, seq[k]) \in Nat
    PROVE  Fold(what, 0, seq) \in Nat
<1> DEFINE n == Len(seq)
<1>1. PICK f : /\ f[0] = 0 /\ f[n] = Fold(what, 0, seq)
               /\ \A k \in 1..n : f[k] = One(what, f[k - 1], seq[k])
  BY FoldStages
<1> DEFINE T == {k \in 0..n : f[k] \in Nat}
<1>2. n \in Nat
  BY DEF IsSequence
<1>3. 0 \in T
  BY <1>1, <1>2
<1>4. ASSUME NEW k \in 1..n, k - 1 \in T PROVE k \in T
  <2>1. f[k] \in Nat
    BY <1>1, <1>4
  <2> QED BY <2>1, <1>2
<1>5. n \in T
  <2> HIDE DEF T
  <2>1. \A k \in 0..n : k \in T
    BY <1>2, <1>3, <1>4, Upward
  <2> QED BY <2>1, <1>2
<1> QED BY <1>1, <1>5

\* It depends on what is added only.
LEMMA SameSum ==
    ASSUME NEW what, NEW s, NEW t, IsSequence(s), IsSequence(t), Len(s) = Len(t), NEW x,
           \A k \in 1..Len(s) : \A y : One(what, y, s[k]) = One(what, y, t[k])
    PROVE  Fold(what, x, s) = Fold(what, x, t)
<1> DEFINE n == Len(s)
<1>1. PICK f : /\ f[0] = x /\ f[n] = Fold(what, x, s)
               /\ \A k \in 1..n : f[k] = One(what, f[k - 1], s[k])
  BY FoldStages
<1>2. PICK g : /\ g[0] = x /\ g[n] = Fold(what, x, t)
               /\ \A k \in 1..n : g[k] = One(what, g[k - 1], t[k])
  <2>1. PICK g : /\ g[0] = x /\ g[Len(t)] = Fold(what, x, t)
                 /\ \A k \in 1..Len(t) : g[k] = One(what, g[k - 1], t[k])
    BY FoldStages
  <2> QED BY <2>1
<1> DEFINE T == {k \in 0..n : f[k] = g[k]}
<1>3. n \in Nat
  BY DEF IsSequence
<1>4. 0 \in T
  BY <1>1, <1>2, <1>3
<1>5. ASSUME NEW k \in 1..n, k - 1 \in T PROVE k \in T
  <2>1. f[k - 1] = g[k - 1]
    BY <1>5
  <2>2. f[k] = g[k]
    BY <2>1, <1>1, <1>2
  <2> QED BY <2>2, <1>3
<1>6. n \in T
  <2> HIDE DEF T
  <2>1. \A k \in 0..n : k \in T
    BY <1>3, <1>4, <1>5, Upward
  <2> QED BY <2>1, <1>3
<1> QED BY <1>1, <1>2, <1>6

\* The beginning of a list.
LEMMA FrontIs ==
    ASSUME NEW s, IsSequence(s), NEW k \in 0..Len(s)
    PROVE  /\ IsSequence(SubSeq(s, 1, k)) /\ Len(SubSeq(s, 1, k)) = k
           /\ \A j \in 1..k : SubSeq(s, 1, k)[j] = s[j]
<1> DEFINE S == {s[i] : i \in 1..Len(s)}
<1>1. s \in Seq(S) /\ Len(s) \in Nat
  BY AsSeq
<1> HIDE DEF S
<1>2. SubSeq(s, 1, k) \in Seq(S) /\ Len(SubSeq(s, 1, k)) = k /\ \A j \in 1..k : SubSeq(s, 1, k)[j] = s[j]
  BY <1>1
<1> QED BY <1>2, SeqIs

\* The sizes that are added are numbers, and so are their sums.
LEMMA RoundIs ==
    ASSUME NEW n \in Nat
    PROVE  RoundUp2(n) \in Nat
<1>1. n % 2 \in 0..1
  OBVIOUS
<1> QED BY <1>1 DEF RoundUp2

\* What takes space: a member, or an object.
Stands(m) == m.name \in DOMAIN NameLen /\ m.size \in Nat

LEMMA SpaceIs ==
    ASSUME NEW m, Stands(m), NEW bsd \in BOOLEAN
    PROVE  Space(m, bsd) \in Nat
<1> DEFINE n == m.size + IF bsd /\ LongName(m.name, bsd) THEN NameLen[m.name] ELSE 0
<1>1. n \in Nat
  <2>1. NameLen[m.name] \in Nat /\ m.size \in Nat
    BY NamesAssumption DEF Stands
  <2> QED BY <2>1
<1>2. Space(m, bsd) = 60 + RoundUp2(n)
  BY DEF Space, HdrLen
<1> HIDE DEF n
<1> QED BY <1>1, <1>2, RoundIs

LEMMA TotalIs ==
    ASSUME NEW ms, IsSequence(ms), \A i \in 1..Len(ms) : Stands(ms[i]), NEW bsd \in BOOLEAN
    PROVE  TotalSpace(ms, bsd) \in Nat
<1>1. ASSUME NEW k \in 1..Len(ms), NEW y \in Nat
      PROVE  One(Flavour(bsd), y, ms[k]) \in Nat
  <2>1. Space(ms[k], bsd) \in Nat
    BY SpaceIs
  <2>2. One(Flavour(bsd), y, ms[k]) = y + Space(ms[k], bsd)
    BY DEF One, Flavour
  <2> QED BY <2>1, <2>2
<1> QED BY <1>1, SumIs, SumsAre

\* The space is that of the names and the sizes.
LEMMA SameTotal ==
    ASSUME NEW s, NEW t, IsSequence(s), IsSequence(t), Len(s) = Len(t), NEW bsd \in BOOLEAN,
           \A i \in 1..Len(s) : s[i].name = t[i].name /\ s[i].size = t[i].size
    PROVE  TotalSpace(s, bsd) = TotalSpace(t, bsd)
<1>1. ASSUME NEW k \in 1..Len(s), NEW y
      PROVE  One(Flavour(bsd), y, s[k]) = One(Flavour(bsd), y, t[k])
  <2>1. Space(s[k], bsd) = Space(t[k], bsd)
    BY DEF Space
  <2> QED BY <2>1 DEF One, Flavour
<1>2. Fold(Flavour(bsd), 0, s) = Fold(Flavour(bsd), 0, t)
  BY <1>1, SameSum
<1> QED BY <1>2, SumsAre

LEMMA StringTableIs ==
    ASSUME NEW ms, IsSequence(ms), \A i \in 1..Len(ms) : Stands(ms[i]), NEW bsd \in BOOLEAN
    PROVE  StringTableSize(ms, bsd) \in Nat
<1>1. CASE bsd
  BY <1>1 DEF StringTableSize
<1>2. CASE ~bsd
  <2>1. ASSUME NEW k \in 1..Len(ms), NEW y \in Nat
        PROVE  One("long", y, ms[k]) \in Nat
    <3>1. NameLen[ms[k].name] \in Nat
      BY NamesAssumption DEF Stands
    <3> DEFINE w == IF LongName(ms[k].name, FALSE) THEN NameLen[ms[k].name] + 2 ELSE 0
    <3>2. One("long", y, ms[k]) = y + w
      BY DEF One
    <3>3. w \in Nat
      <4>1. CASE LongName(ms[k].name, FALSE)
        BY <3>1, <4>1
      <4>2. CASE ~LongName(ms[k].name, FALSE)
        BY <4>2
      <4> QED BY <4>1, <4>2
    <3> HIDE DEF w
    <3> QED BY <3>2, <3>3
  <2>2. RoundUp2(Fold("long", 0, ms)) \in Nat
    BY <2>1, SumIs, RoundIs
  <2>3. bsd = FALSE
    BY <1>2
  <2> QED BY <2>2, <2>3, SumsAre
<1> QED BY <1>1, <1>2

LEMMA NamesSizeIs ==
    ASSUME NEW entries \in Seq(Entries)
    PROVE  NamesSize(entries) \in Nat
<1>1. ASSUME NEW k \in 1..Len(entries), NEW y \in Nat
      PROVE  One("syms", y, entries[k]) \in Nat
  <2>1. entries[k].sym \in DOMAIN NameLen
    <3>1. entries[k] \in Entries
      OBVIOUS
    <3> QED BY <3>1 DEF Entries
  <2>2. NameLen[entries[k].sym] \in Nat
    BY <2>1, NamesAssumption
  <2> QED BY <2>2 DEF One
<1> QED BY <1>1, SeqIs, SumIs, SumsAre
----------------------------------------------------------------------------
(* Lists of lists. *)

\* Nothing in front of a list leaves it as it is.
LEMMA EmptyConcat ==
    ASSUME NEW s, IsSequence(s)
    PROVE  <<>> \o s = s
<1> DEFINE S == {s[i] : i \in 1..Len(s)}
<1>1. s \in Seq(S)
  BY AsSeq
<1> HIDE DEF S
<1> QED BY <1>1

\* A list of lists is flattened by joining one after the other.
Flattens(seqs, g) == g = [i \in 1..Len(seqs) |-> IF i = 1 THEN seqs[i] ELSE g[i - 1] \o seqs[i]]

LEMMA FlattenIs ==
    ASSUME NEW seqs, IsSequence(seqs), \A i \in 1..Len(seqs) : IsSequence(seqs[i]), NEW none, none = <<>>
    PROVE  FlattenSeq(seqs) = Fold("join", none, seqs)
<1> DEFINE n == Len(seqs)
<1>1. PICK f : /\ f[0] = none /\ f[n] = Fold("join", none, seqs)
               /\ \A k \in 1..n : f[k] = One("join", f[k - 1], seqs[k])
  BY FoldStages
<1>2. n \in Nat
  BY DEF IsSequence
<1>3. \A k \in 1..n : f[k] = f[k - 1] \o seqs[k]
  BY <1>1 DEF One
<1>4. n # 0 => f[1] = seqs[1]
  <2>1. n # 0 => f[1] = <<>> \o seqs[1]
    <3>1. n # 0 => 1 \in 1..n
      BY <1>2
    <3>2. n # 0 => f[1] = f[0] \o seqs[1]
      <4>1. 1 - 1 = 0
        OBVIOUS
      <4> QED BY <3>1, <4>1, <1>3
    <3> QED BY <3>2, <1>1
  <2> QED BY <2>1, <1>2, EmptyConcat
<1>5. CASE n = 0
  <2>1. FlattenSeq(seqs) = seqs
    BY <1>5 DEF FlattenSeq
  <2>2. seqs = <<>>
    BY <1>5 DEF IsSequence
  <2> QED BY <2>1, <2>2, <1>1, <1>5
<1>6. CASE n # 0
  <2> DEFINE g == CHOOSE h : Flattens(seqs, h)
             h == [i \in 1..n |-> f[i]]
  <2>1. FlattenSeq(seqs) = g[n]
    BY <1>6 DEF FlattenSeq, Flattens
  <2>2. Flattens(seqs, h)
    <3>1. ASSUME NEW i \in 1..n
          PROVE  h[i] = IF i = 1 THEN seqs[i] ELSE h[i - 1] \o seqs[i]
      <4>1. CASE i = 1
        BY <4>1, <1>4, <1>6
      <4>2. CASE i # 1
        <5>1. i - 1 \in 1..n
          BY <4>2, <1>2
        <5> QED BY <5>1, <4>2, <1>3
      <4> QED BY <4>1, <4>2
    <3> QED BY <3>1 DEF Flattens
  <2>3. Flattens(seqs, g)
    <3> HIDE DEF h
    <3> QED BY <2>2
  <2> HIDE DEF g, h
  <2>4. \A i \in 1..n : g[i] = IF i = 1 THEN seqs[i] ELSE g[i - 1] \o seqs[i]
    BY <2>3 DEF Flattens
  <2> DEFINE T == {k \in 0..n : k # 0 => g[k] = f[k]}
  <2>5. 0 \in T
    BY <1>2
  <2>6. ASSUME NEW k \in 1..n, k - 1 \in T PROVE k \in T
    <3>1. CASE k = 1
      BY <3>1, <2>4, <1>2, <1>4, <1>6
    <3>2. CASE k # 1
      <4>1. g[k - 1] = f[k - 1]
        BY <2>6, <3>2
      <4>2. g[k] = f[k]
        BY <4>1, <3>2, <2>4, <1>3
      <4> QED BY <4>2, <1>2
    <3> QED BY <3>1, <3>2
  <2>7. n \in T
    <3> HIDE DEF T
    <3>1. \A k \in 0..n : k \in T
      BY <1>2, <2>5, <2>6, Upward
    <3> QED BY <3>1, <1>2
  <2> QED BY <2>1, <2>7, <1>1, <1>6
<1> QED BY <1>5, <1>6

\* Flattened, lists of elements of S are one.
LEMMA FlattenIn ==
    ASSUME NEW S, NEW seqs, IsSequence(seqs), \A i \in 1..Len(seqs) : seqs[i] \in Seq(S),
           NEW none, none = <<>>
    PROVE  FlattenSeq(seqs) \in Seq(S) /\ FlattenSeq(seqs) = Fold("join", none, seqs)
<1> DEFINE n == Len(seqs)
<1>1. PICK f : /\ f[0] = none /\ f[n] = Fold("join", none, seqs)
               /\ \A k \in 1..n : f[k] = One("join", f[k - 1], seqs[k])
  <2>1. IsSequence(seqs)
    OBVIOUS
  <2> HIDE DEF n
  <2>2. \E f : /\ f[0] = none /\ f[Len(seqs)] = Fold("join", none, seqs)
              /\ \A k \in 1..Len(seqs) : f[k] = One("join", f[k - 1], seqs[k])
    BY <2>1, FoldStages
  <2> QED BY <2>2 DEF n
<1> DEFINE T == {k \in 0..n : f[k] \in Seq(S)}
<1>2. n \in Nat
  BY DEF IsSequence
<1>3. 0 \in T
  <2>1. f[0] = <<>> /\ <<>> \in Seq(S)
    BY <1>1
  <2>2. f[0] \in Seq(S)
    BY <2>1
  <2> QED BY <2>2, <1>2
<1>4. ASSUME NEW k \in 1..n, k - 1 \in T PROVE k \in T
  <2>1. f[k] = f[k - 1] \o seqs[k]
    BY <1>1 DEF One
  <2>2. f[k - 1] \in Seq(S) /\ seqs[k] \in Seq(S)
    BY <1>4
  <2>3. f[k] \in Seq(S)
    BY <2>1, <2>2
  <2> QED BY <2>3, <1>2
<1>5. n \in T
  <2> HIDE DEF T
  <2>1. \A k \in 0..n : k \in T
    BY <1>2, <1>3, <1>4, Upward
  <2> QED BY <2>1, <1>2
<1>6. FlattenSeq(seqs) = Fold("join", none, seqs)
  <2>1. \A i \in 1..Len(seqs) : IsSequence(seqs[i])
    BY SeqIs
  <2> QED BY <2>1, FlattenIs
<1> QED BY <1>1, <1>5, <1>6

\* The entries of t are those of s, moved by c.
Shifted(s, t, c) ==
    /\ s \in Seq(Entries) /\ t \in Seq(Entries) /\ Len(s) = Len(t)
    /\ \A j \in 1..Len(s) : t[j] = [sym |-> s[j].sym, off |-> s[j].off + c]

\* Lists moved by c are moved by c when they are joined.
LEMMA ShiftConcat ==
    ASSUME NEW c, NEW s, NEW t, Shifted(s, t, c), NEW u, NEW v, Shifted(u, v, c)
    PROVE  Shifted(s \o u, t \o v, c)
<1>1. /\ s \in Seq(Entries) /\ t \in Seq(Entries) /\ Len(s) = Len(t)
      /\ u \in Seq(Entries) /\ v \in Seq(Entries) /\ Len(u) = Len(v)
  BY DEF Shifted
<1>2. s \o u \in Seq(Entries) /\ t \o v \in Seq(Entries)
  BY <1>1
<1>3. Len(s \o u) = Len(s) + Len(u) /\ Len(t \o v) = Len(s) + Len(u)
  BY <1>1
<1>4. ASSUME NEW j \in 1..Len(s) + Len(u)
      PROVE  (t \o v)[j] = [sym |-> (s \o u)[j].sym, off |-> (s \o u)[j].off + c]
  <2>1. CASE j =< Len(s)
    <3>1. (t \o v)[j] = t[j] /\ (s \o u)[j] = s[j] /\ j \in 1..Len(s)
      BY <2>1, <1>1
    <3> QED BY <3>1 DEF Shifted
  <2>2. CASE ~(j =< Len(s))
    <3>1. (t \o v)[j] = v[j - Len(s)] /\ (s \o u)[j] = u[j - Len(s)] /\ j - Len(s) \in 1..Len(u)
      BY <2>2, <1>1
    <3> QED BY <3>1 DEF Shifted
  <2> QED BY <2>1, <2>2
<1> QED BY <1>2, <1>3, <1>4 DEF Shifted

\* Lists that are moved by c are, flattened, a list that is.
LEMMA FlattenShift ==
    ASSUME NEW c, NEW s, NEW t, IsSequence(s), IsSequence(t), Len(s) = Len(t),
           \A i \in 1..Len(s) : Shifted(s[i], t[i], c)
    PROVE  Shifted(FlattenSeq(s), FlattenSeq(t), c)
<1> DEFINE n == Len(s)
           none == <<>>
<1>0. FlattenSeq(s) = Fold("join", none, s) /\ FlattenSeq(t) = Fold("join", none, t)
  <2>1. \A i \in 1..n : s[i] \in Seq(Entries) /\ t[i] \in Seq(Entries)
    BY DEF Shifted
  <2> QED BY <2>1, FlattenIn
<1>00. none = <<>>
  OBVIOUS
<1> HIDE DEF none
<1>1. PICK f : /\ f[0] = none /\ f[n] = Fold("join", none, s)
               /\ \A k \in 1..n : f[k] = One("join", f[k - 1], s[k])
  BY FoldStages
<1>2. PICK g : /\ g[0] = none /\ g[n] = Fold("join", none, t)
               /\ \A k \in 1..n : g[k] = One("join", g[k - 1], t[k])
  <2>1. PICK g : /\ g[0] = none /\ g[Len(t)] = Fold("join", none, t)
                 /\ \A k \in 1..Len(t) : g[k] = One("join", g[k - 1], t[k])
    BY FoldStages
  <2> QED BY <2>1
<1> DEFINE T == {k \in 0..n : Shifted(f[k], g[k], c)}
<1>3. n \in Nat
  BY DEF IsSequence
<1>4. 0 \in T
  <2>1. Shifted(none, none, c)
    BY <1>00 DEF Shifted
  <2> QED BY <2>1, <1>1, <1>2, <1>3
<1>5. ASSUME NEW k \in 1..n, k - 1 \in T PROVE k \in T
  <2>1. f[k] = f[k - 1] \o s[k] /\ g[k] = g[k - 1] \o t[k]
    BY <1>1, <1>2 DEF One
  <2>2. Shifted(f[k], g[k], c)
    BY <2>1, <1>5, ShiftConcat
  <2> QED BY <2>2, <1>3
<1>6. n \in T
  <2> HIDE DEF T
  <2>1. \A k \in 0..n : k \in T
    BY <1>3, <1>4, <1>5, Upward
  <2> QED BY <2>1, <1>3
<1>7. Shifted(f[n], g[n], c)
  BY <1>6
<1> QED BY <1>0, <1>1, <1>2, <1>7

\* A list begins with another.
Begins(s, t) == Len(s) =< Len(t) /\ \A j \in 1..Len(s) : s[j] = t[j]

\* That is what a prefix is.
LEMMA BeginsIs ==
    ASSUME NEW S, NEW s \in Seq(S), NEW t \in Seq(S)
    PROVE  IsPrefix(s, t) <=> Begins(s, t)
<1>1. Len(s) \in Nat /\ Len(t) \in Nat
  OBVIOUS
<1>2. ASSUME Len(s) =< Len(t)
      PROVE  /\ SubSeq(s, 1, Len(s)) \in Seq(S) /\ Len(SubSeq(s, 1, Len(s))) = Len(s)
             /\ SubSeq(t, 1, Len(s)) \in Seq(S) /\ Len(SubSeq(t, 1, Len(s))) = Len(s)
             /\ \A j \in 1..Len(s) : SubSeq(s, 1, Len(s))[j] = s[j] /\ SubSeq(t, 1, Len(s))[j] = t[j]
  BY <1>1, <1>2
<1>3. ASSUME IsPrefix(s, t) PROVE Begins(s, t)
  BY <1>2, <1>3 DEF IsPrefix, Begins
<1>4. ASSUME Begins(s, t) PROVE IsPrefix(s, t)
  <2>1. Len(s) =< Len(t)
    BY <1>4 DEF Begins
  <2>2. \A j \in 1..Len(s) : SubSeq(s, 1, Len(s))[j] = SubSeq(t, 1, Len(s))[j]
    BY <1>2, <1>4, <2>1 DEF Begins
  <2>3. SubSeq(s, 1, Len(s)) = SubSeq(t, 1, Len(s))
    BY <1>2, <2>1, <2>2, SeqEqual
  <2> QED BY <2>1, <2>3 DEF IsPrefix
<1> QED BY <1>3, <1>4

\* Flattened, the beginning of a list is the beginning of the whole.
LEMMA FlattenBegins ==
    ASSUME NEW S, NEW s, NEW t, IsSequence(s), IsSequence(t), Len(s) =< Len(t),
           \A i \in 1..Len(t) : t[i] \in Seq(S), \A i \in 1..Len(s) : s[i] = t[i]
    PROVE  /\ FlattenSeq(s) \in Seq(S) /\ FlattenSeq(t) \in Seq(S)
           /\ Begins(FlattenSeq(s), FlattenSeq(t))
<1> DEFINE m == Len(s)
           n == Len(t)
           none == <<>>
<1>3. m \in Nat /\ n \in Nat /\ m =< n
  BY DEF IsSequence
<1>0. /\ FlattenSeq(s) = Fold("join", none, s) /\ FlattenSeq(t) = Fold("join", none, t)
      /\ FlattenSeq(s) \in Seq(S) /\ FlattenSeq(t) \in Seq(S)
  <2>1. \A i \in 1..m : i \in 1..n
    BY <1>3
  <2>2. \A i \in 1..m : s[i] \in Seq(S)
    BY <2>1
  <2> QED BY <2>2, FlattenIn
<1>00. none = <<>>
  OBVIOUS
<1> HIDE DEF none
<1>1. PICK f : /\ f[0] = none /\ f[m] = Fold("join", none, s)
               /\ \A k \in 1..m : f[k] = One("join", f[k - 1], s[k])
  BY FoldStages
<1>2. PICK g : /\ g[0] = none /\ g[n] = Fold("join", none, t)
               /\ \A k \in 1..n : g[k] = One("join", g[k - 1], t[k])
  BY FoldStages
<1> DEFINE T == {k \in 0..m : f[k] = g[k]}
<1>4. 0 \in T
  BY <1>1, <1>2, <1>3
<1>5. ASSUME NEW k \in 1..m, k - 1 \in T PROVE k \in T
  <2>1. k \in 1..n /\ s[k] = t[k] /\ f[k - 1] = g[k - 1]
    BY <1>3, <1>5
  <2>2. f[k] = g[k]
    BY <2>1, <1>1, <1>2 DEF One
  <2> QED BY <2>2, <1>3
<1>6. f[m] = g[m]
  <2> HIDE DEF T
  <2>1. \A k \in 0..m : k \in T
    BY <1>3, <1>4, <1>5, Upward
  <2> QED BY <2>1, <1>3 DEF T
<1> DEFINE U == {k \in 0..n : g[k] \in Seq(S) /\ (k >= m => Begins(g[m], g[k]))}
<1>7. 0 \in U
  <2>1. g[0] \in Seq(S)
    BY <1>00, <1>2
  <2>2. 0 >= m => m = 0
    BY <1>3
  <2> QED BY <2>1, <2>2, <1>3 DEF Begins
<1>8. ASSUME NEW k \in 1..n, k - 1 \in U PROVE k \in U
  <2>1. g[k] = g[k - 1] \o t[k]
    BY <1>2 DEF One
  <2>2. g[k - 1] \in Seq(S) /\ t[k] \in Seq(S) /\ (k - 1 >= m => Begins(g[m], g[k - 1]))
    BY <1>8
  <2>3. g[k] \in Seq(S) /\ Begins(g[k - 1], g[k])
    <3> DEFINE a == g[k - 1]
               b == t[k]
    <3>1. a \in Seq(S) /\ b \in Seq(S) /\ g[k] = a \o b
      BY <2>1, <2>2
    <3> HIDE DEF a, b
    <3>2. a \o b \in Seq(S) /\ Len(a) =< Len(a \o b) /\ \A j \in 1..Len(a) : (a \o b)[j] = a[j]
      BY <3>1
    <3>3. g[k] \in Seq(S) /\ Begins(a, g[k])
      BY <3>1, <3>2 DEF Begins
    <3> QED BY <3>3 DEF a
  <2>4. k >= m => Begins(g[m], g[k])
    <3>1. CASE k = m
      BY <3>1, <2>3 DEF Begins
    <3>2. CASE k - 1 >= m
      <4>1. Begins(g[m], g[k - 1])
        BY <3>2, <2>2
      <4>2. f[m] \in Seq(S)
        BY <1>0, <1>1
      <4>3. Len(g[m]) \in Nat /\ Len(g[k - 1]) \in Nat /\ Len(g[k]) \in Nat
        BY <4>2, <1>6, <2>2, <2>3
      <4> QED BY <4>1, <4>3, <2>3 DEF Begins
    <3>3. k >= m => k = m \/ k - 1 >= m
      BY <1>3
    <3> QED BY <3>1, <3>2, <3>3
  <2> HIDE DEF Begins
  <2> QED BY <2>3, <2>4, <1>3
<1>9. Begins(g[m], g[n])
  <2> HIDE DEF U
  <2>1. \A k \in 0..n : k \in U
    BY <1>3, <1>7, <1>8, Upward
  <2> QED BY <2>1, <1>3 DEF U
<1> QED BY <1>0, <1>1, <1>2, <1>6, <1>9

----------------------------------------------------------------------------
(* The symbol table that is written. *)

Carries == [s_cnt : Nat, s_sn_sz : Nat]

ObjectsIn(objs) == IsSequence(objs) /\ \A i \in 1..Len(objs) : GoodObject(objs[i])

\* The entries of one member.
EntriesOf(syms, off) == [k \in 1..Len(syms) |-> [sym |-> syms[k], off |-> off]]

\* They are moved as their member is.
LEMMA EntriesOfIs ==
    ASSUME NEW syms \in Seq(DOMAIN NameLen), NEW off \in Nat, NEW c \in Nat
    PROVE  /\ EntriesOf(syms, off) \in Seq(Entries)
           /\ Shifted(EntriesOf(syms, off), EntriesOf(syms, off + c), c)
<1>1. ASSUME NEW o \in Nat
      PROVE  /\ EntriesOf(syms, o) \in Seq(Entries) /\ Len(EntriesOf(syms, o)) = Len(syms)
             /\ \A k \in 1..Len(syms) : EntriesOf(syms, o)[k] = [sym |-> syms[k], off |-> o]
  <2>1. \A k \in 1..Len(syms) : [sym |-> syms[k], off |-> o] \in Entries
    BY DEF Entries
  <2>2. EntriesOf(syms, o) \in [1..Len(syms) -> Entries]
    BY <2>1 DEF EntriesOf
  <2>3. Len(syms) \in Nat
    OBVIOUS
  <2>4. EntriesOf(syms, o) \in Seq(Entries) /\ Len(EntriesOf(syms, o)) = Len(syms)
    BY <2>2, <2>3
  <2> QED BY <2>4 DEF EntriesOf
<1>2. off + c \in Nat
  OBVIOUS
<1>3. /\ EntriesOf(syms, off) \in Seq(Entries) /\ Len(EntriesOf(syms, off)) = Len(syms)
      /\ \A k \in 1..Len(syms) : EntriesOf(syms, off)[k] = [sym |-> syms[k], off |-> off]
  BY <1>1
<1>4. /\ EntriesOf(syms, off + c) \in Seq(Entries) /\ Len(EntriesOf(syms, off + c)) = Len(syms)
      /\ \A k \in 1..Len(syms) : EntriesOf(syms, off + c)[k] = [sym |-> syms[k], off |-> off + c]
  BY <1>1, <1>2
<1>5. ASSUME NEW k \in 1..Len(syms)
      PROVE  EntriesOf(syms, off + c)[k] = [sym |-> EntriesOf(syms, off)[k].sym,
                                            off |-> EntriesOf(syms, off)[k].off + c]
  <2>3. EntriesOf(syms, off)[k] = [sym |-> syms[k], off |-> off]
    BY <1>3
  <2>1. EntriesOf(syms, off)[k].sym = syms[k] /\ EntriesOf(syms, off)[k].off = off
    BY <2>3
  <2>2. EntriesOf(syms, off + c)[k] = [sym |-> syms[k], off |-> off + c]
    BY <1>4
  <2> QED BY <2>1, <2>2
<1> QED BY <1>3, <1>4, <1>5 DEF Shifted

\* Where a member begins, from the end of the tables, is a number.
LEMMA PlacesAre ==
    ASSUME NEW ms, IsSequence(ms), \A i \in 1..Len(ms) : Stands(ms[i]), NEW bsd \in BOOLEAN,
           NEW i \in 1..Len(ms)
    PROVE  TotalSpace(SubSeq(ms, 1, i - 1), bsd) \in Nat
<1>1. i - 1 \in 0..Len(ms) /\ \A j \in 1..i - 1 : j \in 1..Len(ms)
  BY DEF IsSequence
<1>2. /\ IsSequence(SubSeq(ms, 1, i - 1)) /\ Len(SubSeq(ms, 1, i - 1)) = i - 1
      /\ \A j \in 1..i - 1 : SubSeq(ms, 1, i - 1)[j] = ms[j]
  BY <1>1, FrontIs
<1>3. \A j \in 1..Len(SubSeq(ms, 1, i - 1)) : Stands(SubSeq(ms, 1, i - 1)[j])
  BY <1>1, <1>2
<1> QED BY <1>2, <1>3, TotalIs

LEMMA ObjectStands ==
    ASSUME NEW o, o \in Objects \/ o \in Members
    PROVE  Stands(o) /\ o.syms \in Seq(DOMAIN NameLen)
BY DEF Objects, Members, Stands

\* The entries relative to the end of the tables are those of each object.
LEMMA RelativeIs ==
    ASSUME NEW objs, ObjectsIn(objs), NEW bsd \in BOOLEAN
    PROVE  LET lists == [i \in 1..Len(objs) |->
                             EntriesOf(objs[i].syms, TotalSpace(SubSeq(objs, 1, i - 1), bsd))]
           IN  /\ IsSequence(lists) /\ Len(lists) = Len(objs)
               /\ \A i \in 1..Len(objs) : lists[i] \in Seq(Entries)
               /\ RelativeEntries(objs, bsd) = FlattenSeq(lists)
               /\ RelativeEntries(objs, bsd) \in Seq(Entries)
<1> DEFINE off(i) == TotalSpace(SubSeq(objs, 1, i - 1), bsd)
           lists == [i \in 1..Len(objs) |-> EntriesOf(objs[i].syms, off(i))]
<1>1. IsSequence(objs) /\ Len(objs) \in Nat /\ \A i \in 1..Len(objs) : objs[i] \in Objects
  BY DEF ObjectsIn, IsSequence, GoodObject
<1>2. \A i \in 1..Len(objs) : off(i) \in Nat /\ objs[i].syms \in Seq(DOMAIN NameLen)
  BY <1>1, ObjectStands, PlacesAre
<1>3. \A i \in 1..Len(objs) : EntriesOf(objs[i].syms, off(i)) \in Seq(Entries)
  <2> HIDE DEF off
  <2>1. 0 \in Nat
    OBVIOUS
  <2> QED BY <1>2, <2>1, EntriesOfIs
<1>4. RelativeEntries(objs, bsd) = FlattenSeq(lists)
  BY DEF RelativeEntries, EntriesOf
<1> HIDE DEF off
<1>5. IsSequence(lists) /\ Len(lists) = Len(objs)
  <2>1. lists = [i \in 1..Len(objs) |-> lists[i]]
    OBVIOUS
  <2> HIDE DEF lists
  <2> QED BY <1>1, <2>1, Listing
<1>6. \A i \in 1..Len(objs) : lists[i] \in Seq(Entries)
  BY <1>3
<1> HIDE DEF lists
<1>7. FlattenSeq(lists) \in Seq(Entries)
  BY <1>5, <1>6, FlattenIn
<1> QED BY <1>4, <1>5, <1>6, <1>7 DEF lists, off

LEMMA TablesSizeIs ==
    ASSUME NEW symsz \in Nat, NEW strsz \in Nat
    PROVE  TablesSize(symsz, strsz) \in Nat
BY DEF TablesSize, MagicLen, HdrLen

LEMMA SymtabSizeIs ==
    ASSUME NEW cnt \in Nat, NEW snsz \in Nat, NEW bsd \in BOOLEAN
    PROVE  SymtabSize(cnt, snsz, bsd) \in Nat
BY DEF SymtabSize


\* Everything in front of a member.
LEMMA OffsetIs ==
    ASSUME NEW img, GoodImage(img), NEW i \in 1..Len(img.members)
    PROVE  MemberOffset(img, i) \in Nat /\ img.members[i].syms \in Seq(DOMAIN NameLen)
<1>1. /\ img.bsd \in BOOLEAN /\ img.table \in BOOLEAN /\ img.tablesz \in Nat /\ img.strsz \in Nat
  BY DEF GoodImage, Images
<1>2. IsSequence(img.members) /\ \A j \in 1..Len(img.members) : img.members[j] \in Members
  BY MembersAre DEF GoodMember
<1>3. /\ img.members[i].syms \in Seq(DOMAIN NameLen)
      /\ \A j \in 1..Len(img.members) : Stands(img.members[j])
  BY <1>2, ObjectStands
<1>4. TotalSpace(SubSeq(img.members, 1, i - 1), img.bsd) \in Nat
  BY <1>1, <1>2, <1>3, PlacesAre
<1>5. MemberOffset(img, i) \in Nat
  <2> DEFINE a == IF img.table THEN 60 + img.tablesz ELSE 0
             b == IF img.strsz > 0 THEN 60 + img.strsz ELSE 0
             c == TotalSpace(SubSeq(img.members, 1, i - 1), img.bsd)
  <2>1. a \in Nat /\ b \in Nat
    BY <1>1
  <2>2. c \in Nat /\ MemberOffset(img, i) = 8 + a + b + c
    BY <1>4 DEF MemberOffset, MagicLen, HdrLen
  <2> HIDE DEF a, b, c
  <2> QED BY <2>1, <2>2
<1> QED BY <1>3, <1>5

\* What a reader needs is the list of each member's entries.
LEMMA NeededIs ==
    ASSUME NEW img, GoodImage(img)
    PROVE  LET lists == [i \in 1..Len(img.members) |->
                             EntriesOf(img.members[i].syms, MemberOffset(img, i))]
           IN  /\ IsSequence(lists) /\ Len(lists) = Len(img.members)
               /\ \A i \in 1..Len(img.members) : lists[i] \in Seq(Entries)
               /\ NeededEntries(img) = FlattenSeq(lists)
               /\ NeededEntries(img) \in Seq(Entries)
<1> DEFINE n == Len(img.members)
           off(i) == MemberOffset(img, i)
           lists == [i \in 1..n |-> EntriesOf(img.members[i].syms, off(i))]
<1>1. n \in Nat
  BY MembersAre
<1>2. \A i \in 1..n : off(i) \in Nat /\ img.members[i].syms \in Seq(DOMAIN NameLen)
  BY OffsetIs
<1>3. NeededEntries(img) = FlattenSeq(lists)
  BY DEF NeededEntries, EntriesOf
<1> HIDE DEF off, n
<1>4. \A i \in 1..n : EntriesOf(img.members[i].syms, off(i)) \in Seq(Entries)
  <2>1. 0 \in Nat
    OBVIOUS
  <2> QED BY <1>2, <2>1, EntriesOfIs
<1>5. IsSequence(lists) /\ Len(lists) = n
  <2>1. lists = [i \in 1..n |-> lists[i]]
    OBVIOUS
  <2> HIDE DEF lists
  <2> QED BY <1>1, <2>1, Listing
<1>6. \A i \in 1..n : lists[i] \in Seq(Entries)
  BY <1>4
<1> HIDE DEF lists
<1>7. FlattenSeq(lists) \in Seq(Entries)
  BY <1>5, <1>6, FlattenIn
<1> QED BY <1>3, <1>5, <1>6, <1>7 DEF lists, off, n

\* The entries written: those relative to the end of the tables, each moved behind them.
Moved(entries, c) == [i \in 1..Len(entries) |-> [entries[i] EXCEPT !.off = @ + c]]

LEMMA MovedIs ==
    ASSUME NEW entries \in Seq(Entries), NEW c \in Nat
    PROVE  Moved(entries, c) \in Seq(Entries) /\ Shifted(entries, Moved(entries, c), c)
<1> DEFINE n == Len(entries)
           moved == Moved(entries, c)
<1>1. n \in Nat /\ \A i \in 1..n : entries[i] \in Entries
  OBVIOUS
<1>2. \A i \in 1..n : /\ [entries[i] EXCEPT !.off = @ + c] \in Entries
                      /\ [entries[i] EXCEPT !.off = @ + c]
                           = [sym |-> entries[i].sym, off |-> entries[i].off + c]
  BY <1>1 DEF Entries
<1>3. moved \in [1..n -> Entries] /\ \A i \in 1..n : moved[i] = [entries[i] EXCEPT !.off = @ + c]
  BY <1>2 DEF Moved
<1> HIDE DEF moved
<1>4. moved \in Seq(Entries) /\ Len(moved) = n
  BY <1>1, <1>3
<1>5. \A i \in 1..n : moved[i] = [sym |-> entries[i].sym, off |-> entries[i].off + c]
  BY <1>2, <1>3
<1> QED BY <1>4, <1>5 DEF Shifted, moved

\* What write_objs makes of a list.
LEMMA WriteIs ==
    ASSUME NEW objs, ObjectsIn(objs), NEW opts, NEW carry \in Carries
    PROVE  LET w == WriteObjs(objs, opts, carry)
               bsd == "F" \in opts
               entries == IF "S" \in opts THEN <<>> ELSE RelativeEntries(objs, bsd)
           IN  \E strsz \in Nat, symsz \in Nat :
                   /\ entries \in Seq(Entries)
                   /\ w.carry \in Carries /\ (w.crashes <=> entries = <<>> /\ w.carry.s_cnt # 0)
                   /\ w.image = [bsd |-> bsd, table |-> w.carry.s_cnt # 0 \/ "s" \in opts,
                                 tablesz |-> IF w.carry.s_cnt # 0 \/ "s" \in opts THEN symsz ELSE 0,
                                 entries |-> Moved(entries, TablesSize(symsz, strsz)),
                                 strsz |-> strsz, members |-> WrittenMembers(objs)]
<1> DEFINE bsd     == "F" \in opts
           entries == IF "S" \in opts THEN <<>> ELSE RelativeEntries(objs, bsd)
           counted == CountSymbols(entries, carry)
           snsz    == IF counted.s_cnt # 0 THEN RoundUp2(counted.s_sn_sz) ELSE counted.s_sn_sz
           strsz   == StringTableSize(objs, bsd)
           symsz   == SymtabSize(counted.s_cnt, snsz, bsd)
           table   == counted.s_cnt # 0 \/ "s" \in opts
           w == WriteObjs(objs, opts, carry)
<1>1. bsd \in BOOLEAN
  OBVIOUS
<1>2. w = [carry   |-> [s_cnt |-> counted.s_cnt, s_sn_sz |-> snsz],
           crashes |-> entries = <<>> /\ counted.s_cnt # 0,
           image   |-> [bsd |-> bsd, table |-> table, tablesz |-> IF table THEN symsz ELSE 0,
                        entries |-> Moved(entries, TablesSize(symsz, strsz)),
                        strsz |-> strsz, members |-> WrittenMembers(objs)]]
  BY DEF WriteObjs, Moved
<1> HIDE DEF bsd, w
<1>3. entries \in Seq(Entries)
  <2>1. RelativeEntries(objs, bsd) \in Seq(Entries)
    BY <1>1, RelativeIs
  <2>2. <<>> \in Seq(Entries)
    OBVIOUS
  <2> QED BY <2>1, <2>2
<1> HIDE DEF entries
<1>4. counted.s_cnt \in Nat /\ counted.s_sn_sz \in Nat
  <2>1. CASE entries = <<>>
    BY <2>1 DEF CountSymbols, Carries
  <2>2. CASE entries # <<>>
    <3>1. NamesSize(entries) \in Nat /\ Len(entries) \in Nat
      BY <1>3, NamesSizeIs
    <3> QED BY <2>2, <3>1 DEF CountSymbols
  <2> QED BY <2>1, <2>2
<1> HIDE DEF counted
<1>5. snsz \in Nat
  BY <1>4, RoundIs
<1> HIDE DEF snsz
<1>6. symsz \in Nat
  BY <1>1, <1>4, <1>5, SymtabSizeIs
<1>7. strsz \in Nat
  <2>1. IsSequence(objs) /\ \A i \in 1..Len(objs) : Stands(objs[i])
    BY ObjectStands DEF ObjectsIn, GoodObject
  <2> QED BY <1>1, <2>1, StringTableIs
<1> HIDE DEF symsz, strsz
<1>8. /\ w.carry = [s_cnt |-> counted.s_cnt, s_sn_sz |-> snsz]
      /\ w.crashes <=> entries = <<>> /\ counted.s_cnt # 0
      /\ w.image = [bsd |-> bsd, table |-> table, tablesz |-> IF table THEN symsz ELSE 0,
                    entries |-> Moved(entries, TablesSize(symsz, strsz)),
                    strsz |-> strsz, members |-> WrittenMembers(objs)]
  BY <1>2
<1>9. w.carry \in Carries /\ w.carry.s_cnt = counted.s_cnt
  BY <1>4, <1>5, <1>8 DEF Carries
<1>10. \E str \in Nat, sym \in Nat :
          /\ entries \in Seq(Entries)
          /\ w.carry \in Carries /\ (w.crashes <=> entries = <<>> /\ w.carry.s_cnt # 0)
          /\ w.image = [bsd |-> bsd, table |-> w.carry.s_cnt # 0 \/ "s" \in opts,
                        tablesz |-> IF w.carry.s_cnt # 0 \/ "s" \in opts THEN sym ELSE 0,
                        entries |-> Moved(entries, TablesSize(sym, str)),
                        strsz |-> str, members |-> WrittenMembers(objs)]
  BY <1>3, <1>6, <1>7, <1>8, <1>9
<1> QED BY <1>10 DEF w, entries, bsd

\* It is an archive.
LEMMA ImageIs ==
    ASSUME NEW objs, ObjectsIn(objs), NEW opts, NEW carry \in Carries
    PROVE  LET w == WriteObjs(objs, opts, carry) IN GoodImage(w.image) /\ w.carry \in Carries
<1> DEFINE w == WriteObjs(objs, opts, carry)
           bsd == "F" \in opts
           entries == IF "S" \in opts THEN <<>> ELSE RelativeEntries(objs, bsd)
           table == w.carry.s_cnt # 0 \/ "s" \in opts
<1>1. PICK strsz \in Nat, symsz \in Nat :
          /\ entries \in Seq(Entries) /\ w.carry \in Carries
          /\ w.image = [bsd |-> bsd, table |-> table, tablesz |-> IF table THEN symsz ELSE 0,
                        entries |-> Moved(entries, TablesSize(symsz, strsz)),
                        strsz |-> strsz, members |-> WrittenMembers(objs)]
  BY WriteIs
<1>2. bsd \in BOOLEAN /\ table \in BOOLEAN
  OBVIOUS
<1> HIDE DEF w, bsd, entries, table
<1>3. Moved(entries, TablesSize(symsz, strsz)) \in Seq(Entries)
  BY <1>1, TablesSizeIs, MovedIs
<1>4. GoodList(WrittenMembers(objs))
  BY WrittenIs DEF ObjectsIn, GoodObject
<1>5. WrittenMembers(objs) \in Seq(Members)
  BY <1>4, AsSeq DEF GoodList, GoodMember
<1>6. w.image \in Images /\ w.image.members = WrittenMembers(objs)
  BY <1>1, <1>2, <1>3, <1>5 DEF Images
<1>7. GoodImage(w.image)
  BY <1>4, <1>6 DEF GoodImage, GoodList
<1> QED BY <1>1, <1>7 DEF w


\* A symbol table that is right, or of an archive that was torn.
TableRight(img) ==
    img.table => IF WriteFails \/ CopyFails THEN IsPrefix(NeededEntries(img), img.entries)
                 ELSE img.entries = NeededEntries(img)

\* The members written begin where their objects do, behind the tables.
LEMMA SamePlaces ==
    ASSUME NEW s, NEW t, IsSequence(s), IsSequence(t), NEW m \in Nat, m =< Len(s), m =< Len(t),
           \A i \in 1..m : s[i].name = t[i].name /\ s[i].size = t[i].size,
           NEW bsd \in BOOLEAN, NEW i \in 1..m
    PROVE  TotalSpace(SubSeq(s, 1, i - 1), bsd) = TotalSpace(SubSeq(t, 1, i - 1), bsd)
<1>1. /\ i - 1 \in 0..Len(s) /\ i - 1 \in 0..Len(t)
      /\ \A j \in 1..i - 1 : j \in 1..m
  BY DEF IsSequence
<1>2. /\ IsSequence(SubSeq(s, 1, i - 1)) /\ Len(SubSeq(s, 1, i - 1)) = i - 1
      /\ \A j \in 1..i - 1 : SubSeq(s, 1, i - 1)[j] = s[j]
  BY <1>1, FrontIs
<1>3. /\ IsSequence(SubSeq(t, 1, i - 1)) /\ Len(SubSeq(t, 1, i - 1)) = i - 1
      /\ \A j \in 1..i - 1 : SubSeq(t, 1, i - 1)[j] = t[j]
  BY <1>1, FrontIs
<1>4. \A j \in 1..i - 1 : /\ SubSeq(s, 1, i - 1)[j].name = SubSeq(t, 1, i - 1)[j].name
                          /\ SubSeq(s, 1, i - 1)[j].size = SubSeq(t, 1, i - 1)[j].size
  BY <1>1, <1>2, <1>3
<1> DEFINE a == SubSeq(s, 1, i - 1)
           b == SubSeq(t, 1, i - 1)
<1>5. IsSequence(a) /\ IsSequence(b) /\ Len(a) = Len(b)
      /\ \A j \in 1..Len(a) : a[j].name = b[j].name /\ a[j].size = b[j].size
  BY <1>2, <1>3, <1>4
<1> HIDE DEF a, b
<1>6. TotalSpace(a, bsd) = TotalSpace(b, bsd)
  BY <1>5, SameTotal
<1> QED BY <1>6 DEF a, b

\* The table of an archive that was written has what a reader needs: every offset, worked
\* out before anything was written, is where the member then begins.
LEMMA WrittenRight ==
    ASSUME NEW objs, ObjectsIn(objs), NoneEmpty, NEW opts, ~({"s", "S"} \subseteq opts),
           NEW carry \in Carries, ~WriteObjs(objs, opts, carry).crashes,
           WriteObjs(objs, opts, carry).image.table
    PROVE  LET img == WriteObjs(objs, opts, carry).image IN img.entries = NeededEntries(img)
<1> DEFINE w == WriteObjs(objs, opts, carry)
           img == w.image
           bsd == "F" \in opts
           entries == IF "S" \in opts THEN <<>> ELSE RelativeEntries(objs, bsd)
           table == w.carry.s_cnt # 0 \/ "s" \in opts
           n == Len(objs)
           off(i) == TotalSpace(SubSeq(objs, 1, i - 1), bsd)
           relative == [i \in 1..n |-> EntriesOf(objs[i].syms, off(i))]
           needed == [i \in 1..Len(img.members) |->
                          EntriesOf(img.members[i].syms, MemberOffset(img, i))]
<1>1. PICK strsz \in Nat, symsz \in Nat :
          /\ entries \in Seq(Entries) /\ w.carry \in Carries
          /\ w.crashes <=> entries = <<>> /\ w.carry.s_cnt # 0
          /\ w.image = [bsd |-> bsd, table |-> table, tablesz |-> IF table THEN symsz ELSE 0,
                        entries |-> Moved(entries, TablesSize(symsz, strsz)),
                        strsz |-> strsz, members |-> WrittenMembers(objs)]
  BY WriteIs
<1>3. table
  <2>1. img.table /\ img.table = table
    <3> HIDE DEF w, bsd, entries, table
    <3>1. img.table = table
      BY <1>1
    <3> QED BY <3>1 DEF w
  <2> QED BY <2>1
<1>2. "S" \notin opts
  <2>1. "S" \in opts => entries = <<>>
    OBVIOUS
  <2> HIDE DEF entries, w
  <2> QED BY <2>1, <1>1, <1>3 DEF w
<1>4. entries = RelativeEntries(objs, bsd) /\ bsd \in BOOLEAN
  BY <1>2
<1>5. GoodImage(img)
  BY ImageIs
<1>6. /\ IsSequence(relative) /\ Len(relative) = n
      /\ RelativeEntries(objs, bsd) = FlattenSeq(relative)
  BY <1>4, RelativeIs
<1>7. /\ IsSequence(needed) /\ Len(needed) = Len(img.members)
      /\ NeededEntries(img) = FlattenSeq(needed) /\ NeededEntries(img) \in Seq(Entries)
  BY <1>5, NeededIs
<1>8. IsSequence(objs) /\ n \in Nat /\ \A i \in 1..n : GoodObject(objs[i]) /\ objs[i] \in Objects
  BY DEF ObjectsIn, IsSequence, GoodObject
<1>9. /\ Len(img.members) = n /\ IsSequence(img.members)
      /\ \A i \in 1..n : img.members[i] = Stored(objs[i])
  <2>1. img.members = WrittenMembers(objs)
    BY <1>1
  <2> HIDE DEF img
  <2> QED BY <2>1, <1>8, WrittenIs DEF GoodObject, GoodList
<1>10. \A i \in 1..n : /\ img.members[i].name = objs[i].name /\ img.members[i].size = objs[i].size
                       /\ img.members[i].syms = objs[i].syms
  <2> DEFINE ms == img.members
  <2>1. \A i \in 1..n : ms[i] = Stored(objs[i])
    BY <1>9
  <2> HIDE DEF ms, n
  <2>2. \A i \in 1..n : ms[i].name = objs[i].name /\ ms[i].size = objs[i].size /\ ms[i].syms = objs[i].syms
    <3> SUFFICES ASSUME NEW i \in 1..n
                 PROVE  ms[i].name = objs[i].name /\ ms[i].size = objs[i].size /\ ms[i].syms = objs[i].syms
      OBVIOUS
    <3>1. ms[i] = Stored(objs[i])
      BY <2>1
    <3> QED BY <3>1 DEF Stored
  <2> QED BY <2>2 DEF ms
<1> DEFINE c == TablesSize(symsz, strsz)
<1>11. c \in Nat
  BY TablesSizeIs
<1>12. \A i \in 1..n : MemberOffset(img, i) = off(i) + c /\ off(i) \in Nat
  <2> SUFFICES ASSUME NEW i \in 1..n PROVE MemberOffset(img, i) = off(i) + c /\ off(i) \in Nat
    OBVIOUS
  <2>1. off(i) \in Nat
    <3>1. \A j \in 1..n : Stands(objs[j])
      BY <1>8, ObjectStands
    <3> QED BY <3>1, <1>4, <1>8, PlacesAre
  <2>2. TotalSpace(SubSeq(img.members, 1, i - 1), bsd) = off(i)
    <3>1. n =< Len(objs) /\ n =< Len(img.members)
      BY <1>8, <1>9
    <3> DEFINE ms == img.members
    <3>2. IsSequence(ms) /\ n =< Len(ms) /\ \A j \in 1..n : ms[j].name = objs[j].name /\ ms[j].size = objs[j].size
      BY <1>9, <1>10, <3>1
    <3> HIDE DEF ms, bsd
    <3>3. TotalSpace(SubSeq(ms, 1, i - 1), bsd) = TotalSpace(SubSeq(objs, 1, i - 1), bsd)
      BY <1>4, <1>8, <3>1, <3>2, SamePlaces
    <3> QED BY <3>3 DEF ms
  <2>3. img.table = TRUE /\ img.tablesz = symsz /\ img.strsz = strsz /\ img.bsd = bsd
    BY <1>1, <1>3
  <2> HIDE DEF img, bsd, off
  <2> DEFINE b == IF strsz > 0 THEN 60 + strsz ELSE 0
  <2>4. b \in Nat /\ c = 68 + symsz + b
    BY DEF TablesSize, MagicLen, HdrLen
  <2>5. MemberOffset(img, i) = 68 + symsz + b + off(i)
    <3>1. MemberOffset(img, i) = 8 + (60 + symsz) + b + off(i)
      BY <2>2, <2>3 DEF MemberOffset, MagicLen, HdrLen
    <3> HIDE DEF b
    <3> QED BY <3>1, <2>1, <2>4
  <2> HIDE DEF b, c
  <2> QED BY <2>1, <2>4, <2>5
<1>13. \A i \in 1..n : Shifted(relative[i], needed[i], c)
  <2> SUFFICES ASSUME NEW i \in 1..n PROVE Shifted(relative[i], needed[i], c)
    OBVIOUS
  <2>1. relative[i] = EntriesOf(objs[i].syms, off(i))
    OBVIOUS
  <2>2. needed[i] = EntriesOf(objs[i].syms, off(i) + c)
    <3> HIDE DEF img, off, c
    <3> QED BY <1>9, <1>10, <1>12
  <2>3. objs[i].syms \in Seq(DOMAIN NameLen) /\ off(i) \in Nat
    BY <1>8, <1>12, ObjectStands
  <2> HIDE DEF relative, needed, off, c
  <2> QED BY <2>1, <2>2, <2>3, <1>11, EntriesOfIs
<1>14. Shifted(FlattenSeq(relative), FlattenSeq(needed), c)
  <2> HIDE DEF relative, needed, c, img
  <2> QED BY <1>6, <1>7, <1>9, <1>13, FlattenShift
<1>15. Shifted(entries, img.entries, c)
  <2>1. img.entries = Moved(entries, c)
    BY <1>1
  <2> HIDE DEF entries, c, img
  <2> QED BY <1>1, <1>11, <2>1, MovedIs
<1>16. Shifted(entries, NeededEntries(img), c)
  BY <1>4, <1>6, <1>7, <1>14
<1> HIDE DEF entries, img, c
<1>17. img.entries = NeededEntries(img)
  <2> DEFINE a == img.entries
             b == NeededEntries(img)
  <2>1. Shifted(entries, a, c) /\ Shifted(entries, b, c)
    BY <1>15, <1>16
  <2> HIDE DEF a, b
  <2>2. a \in Seq(Entries) /\ b \in Seq(Entries) /\ Len(a) = Len(b) /\ \A j \in 1..Len(a) : a[j] = b[j]
    BY <2>1 DEF Shifted
  <2>3. a = b
    BY <2>2, SeqEqual
  <2> QED BY <2>3 DEF a, b
<1> QED BY <1>17 DEF img, w

\* An archive of which only some members were written, or copied, has at least the entries
\* of those.
LEMMA TornIs ==
    ASSUME NEW img, GoodImage(img), NEW n \in Nat, n < Len(img.members)
    PROVE  LET torn == [img EXCEPT !.members = SubSeq(img.members, 1, n)] IN
           /\ GoodImage(torn) /\ torn.table = img.table /\ torn.entries = img.entries
           /\ Begins(NeededEntries(torn), NeededEntries(img))
<1> DEFINE front == SubSeq(img.members, 1, n)
           torn == [img EXCEPT !.members = front]
           ListOf(i) == EntriesOf(img.members[i].syms, MemberOffset(img, i))
           all == [i \in 1..Len(img.members) |-> ListOf(i)]
           some == [i \in 1..Len(torn.members) |->
                        EntriesOf(torn.members[i].syms, MemberOffset(torn, i))]
<1>1. /\ IsSequence(img.members) /\ Len(img.members) \in Nat /\ n \in 0..Len(img.members)
      /\ \A i \in 1..Len(img.members) : GoodMember(img.members[i])
  BY MembersAre
<1>2. IsSequence(front) /\ Len(front) = n /\ \A i \in 1..n : front[i] = img.members[i]
  BY <1>1, FrontIs
<1> HIDE DEF front
<1>3. \A i \in 1..n : i \in 1..Len(img.members) /\ GoodMember(front[i])
  BY <1>1, <1>2
<1>4. front \in Seq(Members)
  BY <1>2, <1>3, AsSeq DEF GoodMember
<1>5. /\ torn \in Images /\ torn.members = front /\ torn.table = img.table /\ torn.entries = img.entries
      /\ torn.tablesz = img.tablesz /\ torn.strsz = img.strsz /\ torn.bsd = img.bsd
  BY <1>4 DEF GoodImage, Images
<1> HIDE DEF torn
<1>6. GoodImage(torn)
  BY <1>2, <1>3, <1>5 DEF GoodImage
<1>7. \A i \in 1..n : MemberOffset(torn, i) = MemberOffset(img, i)
  <2> SUFFICES ASSUME NEW i \in 1..n PROVE MemberOffset(torn, i) = MemberOffset(img, i)
    OBVIOUS
  <2>1. img.bsd \in BOOLEAN
    BY DEF GoodImage, Images
  <2>2. TotalSpace(SubSeq(front, 1, i - 1), img.bsd) = TotalSpace(SubSeq(img.members, 1, i - 1), img.bsd)
    <3>1. \A j \in 1..n : front[j].name = img.members[j].name /\ front[j].size = img.members[j].size
      BY <1>2
    <3>2. n =< Len(front) /\ n =< Len(img.members)
      BY <1>1, <1>2
    <3> QED BY <1>1, <1>2, <2>1, <3>1, <3>2, SamePlaces
  <2> QED BY <2>2, <1>5 DEF MemberOffset
<1>8. /\ IsSequence(some) /\ Len(some) = n /\ NeededEntries(torn) = FlattenSeq(some)
  BY <1>2, <1>5, <1>6, NeededIs
<1>9. /\ IsSequence(all) /\ Len(all) = Len(img.members) /\ NeededEntries(img) = FlattenSeq(all)
      /\ \A i \in 1..Len(img.members) : all[i] \in Seq(Entries)
  BY NeededIs
<1>10. \A i \in 1..n : some[i] = all[i]
  BY <1>2, <1>3, <1>5, <1>7
<1> HIDE DEF some, all
<1>11. Begins(FlattenSeq(some), FlattenSeq(all))
  <2>1. /\ IsSequence(some) /\ IsSequence(all) /\ Len(some) =< Len(all)
        /\ \A i \in 1..Len(all) : all[i] \in Seq(Entries)
        /\ \A i \in 1..Len(some) : some[i] = all[i]
    BY <1>1, <1>8, <1>9, <1>10
  <2> QED BY <2>1, FlattenBegins
<1>12. GoodImage(torn) /\ torn.table = img.table /\ torn.entries = img.entries
       /\ Begins(NeededEntries(torn), NeededEntries(img))
  BY <1>5, <1>6, <1>8, <1>9, <1>11
<1> QED BY <1>12 DEF torn, front

\* So its table stays right.
LEMMA TornRight ==
    ASSUME NEW img, GoodImage(img), TableRight(img), WriteFails \/ CopyFails,
           NEW n \in Nat, n < Len(img.members)
    PROVE  TableRight([img EXCEPT !.members = SubSeq(img.members, 1, n)])
<1> DEFINE torn == [img EXCEPT !.members = SubSeq(img.members, 1, n)]
<1>1. /\ GoodImage(torn) /\ torn.table = img.table /\ torn.entries = img.entries
      /\ Begins(NeededEntries(torn), NeededEntries(img))
  BY TornIs
<1> HIDE DEF torn
<1>2. /\ NeededEntries(torn) \in Seq(Entries) /\ NeededEntries(img) \in Seq(Entries)
      /\ img.entries \in Seq(Entries)
  BY <1>1, NeededIs DEF GoodImage, Images
<1>3. img.table => IsPrefix(NeededEntries(img), img.entries)
  BY DEF TableRight
<1>4. img.table => Begins(NeededEntries(img), img.entries)
  BY <1>2, <1>3, BeginsIs
<1>5. img.table => Begins(NeededEntries(torn), img.entries)
  <2>1. \A s \in Seq(Entries) : Len(s) \in Nat
    OBVIOUS
  <2> QED BY <1>1, <1>2, <1>4, <2>1 DEF Begins
<1>6. img.table => IsPrefix(NeededEntries(torn), torn.entries)
  BY <1>1, <1>2, <1>5, BeginsIs
<1>7. TableRight(torn)
  BY <1>1, <1>6 DEF TableRight
<1> QED BY <1>7 DEF torn

\* A table that has exactly what is needed has at least that.
LEMMA ExactIsRight ==
    ASSUME NEW img, GoodImage(img), img.table => img.entries = NeededEntries(img)
    PROVE  TableRight(img)
<1>1. NeededEntries(img) \in Seq(Entries)
  BY NeededIs
<1>2. Begins(NeededEntries(img), NeededEntries(img))
  BY <1>1 DEF Begins
<1>3. IsPrefix(NeededEntries(img), NeededEntries(img))
  BY <1>1, <1>2, BeginsIs
<1> QED BY <1>3 DEF TableRight

----------------------------------------------------------------------------
(* The invariant. *)

Programs == {"ar", "ranlib"}

\* Every file is missing or an archive.
DiskSound ==
    /\ disk = [f \in Archives \cup {Tmp} |-> disk[f]]
    /\ \A f \in Archives \cup {Tmp} : Exists(f) => GoodImage(disk[f])

\* The options a program can have, and what write_objs leaves behind.
SomeOpts == {{}, {"s"}} \cup ScriptOpts \cup {line.opts : line \in Lines}
BsdarIs(b) ==
    /\ b = [filename |-> b.filename, opts |-> b.opts, carry |-> b.carry]
    /\ b.opts \in SomeOpts /\ b.carry \in Carries

\* What the next write goes to.
WritesKnown ==
    /\ BsdarIs(bsdar)
    /\ writing /\ running \in Programs => bsdar.filename \in Archives
    /\ writing /\ running = "script" => bsdar.filename = Tmp /\ target # None
    /\ running = "ranlib" => rest \in Seq(Archives)

ScriptInv == ArType /\ DiskSound /\ WritesKnown

\* The list that will be written has everything of the archive the edit has no
\* business with.
EditKnown == writing => EditKeeps(v_obj, Contents(bsdar.filename).members)

\* Only the file name is changed, or the counts write_objs leaves.
LEMMA BsdarKept ==
    ASSUME NEW b, BsdarIs(b)
    PROVE  /\ \A name : BsdarIs([b EXCEPT !.filename = name])
           /\ \A carry \in Carries : BsdarIs([b EXCEPT !.carry = carry])
<1>1. \A name : [b EXCEPT !.filename = name] = [filename |-> name, opts |-> b.opts, carry |-> b.carry]
  BY DEF BsdarIs
<1>2. \A carry : [b EXCEPT !.carry = carry] = [filename |-> b.filename, opts |-> b.opts, carry |-> carry]
  BY DEF BsdarIs
<1> QED BY <1>1, <1>2 DEF BsdarIs

\* What a program has at first.
LEMMA IdleIs ==
    ASSUME NEW name, NEW opts \in SomeOpts
    PROVE  BsdarIs(Idle) /\ BsdarIs([Idle EXCEPT !.filename = name, !.opts = opts])
           /\ BsdarIs([Idle EXCEPT !.opts = opts])
<1>1. NoCarry \in Carries /\ {} \in SomeOpts
  BY DEF NoCarry, Carries, SomeOpts
<1>4. Idle = [filename |-> None, opts |-> {}, carry |-> NoCarry]
  BY DEF Idle
<1>5. [Idle EXCEPT !.opts = opts] = [filename |-> None, opts |-> opts, carry |-> NoCarry]
  BY <1>4
<1>6. ASSUME NEW b, b = [Idle EXCEPT !.filename = name, !.opts = opts]
      PROVE  b = [filename |-> name, opts |-> opts, carry |-> NoCarry]
  BY <1>6 DEF Idle
<1>3. \A n : \A o \in SomeOpts : BsdarIs([filename |-> n, opts |-> o, carry |-> NoCarry])
  BY <1>1 DEF BsdarIs
<1> QED BY <1>1, <1>3, <1>4, <1>5, <1>6

----------------------------------------------------------------------------
(* Archives that are written, whole or in part. *)

LEMMA EmptyIsArchive == GoodImage(EmptyImage) /\ EmptyImage # NoArchive
<1>1. /\ EmptyImage \in Images /\ EmptyImage.members = <<>> /\ Len(<<>>) = 0
  BY DEF Images, EmptyImage
<1>2. EmptyImage.tablesz = 0 /\ NoArchive.tablesz = -1
  BY DEF NoArchive, EmptyImage
<1> QED BY <1>1, <1>2 DEF GoodImage

LEMMA ArchiveIsThere ==
    ASSUME NEW img, GoodImage(img)
    PROVE  img # NoArchive
<1>1. NoArchive.tablesz = -1
  BY DEF NoArchive, EmptyImage
<1>2. img.tablesz \in Nat
  BY DEF GoodImage, Images
<1> QED BY <1>1, <1>2

\* The list to be written is one of objects.
LEMMA ListIs ==
    ASSUME EditKnown, writing
    PROVE  ObjectsIn(v_obj.objs)
BY DEF EditKnown, EditKeeps, IsEdit, OthersIn, ObjectsIn

LEMMA WrittenIsArchive ==
    ASSUME EditKnown, WritesKnown, writing
    PROVE  GoodImage(Written.image) /\ Written.carry \in Carries
<1>1. bsdar.carry \in Carries
  BY DEF WritesKnown, BsdarIs
<1> QED BY <1>1, ListIs, ImageIs DEF Written

\* ar_write_archive reads and edits, and changes no file.
LEMMA StartWriteIs ==
    ASSUME NEW f, NEW mode, NEW argv, NEW posarg, NEW opts, NEW lib,
           StartWrite(f, mode, argv, posarg, opts, lib)
    PROVE  writing' = TRUE /\ disk' = disk
BY DEF StartWrite

\* Writing one file, or one and the temporary one, leaves the others alone.
LEMMA DiskWritten ==
    ASSUME DiskSound, NEW f \in Archives \cup {Tmp}, NEW img, img = NoArchive \/ GoodImage(img),
           disk' = [disk EXCEPT ![f] = img]
    PROVE  /\ DOMAIN disk' = Archives \cup {Tmp}
           /\ disk'[f] = img /\ \A g \in (Archives \cup {Tmp}) \ {f} : disk'[g] = disk[g]
           /\ DiskSound'
<1>1. /\ disk' = [g \in Archives \cup {Tmp} |-> disk'[g]]
      /\ disk'[f] = img /\ \A g \in (Archives \cup {Tmp}) \ {f} : disk'[g] = disk[g]
  BY DEF DiskSound
<1>2. \A g \in Archives \cup {Tmp} : disk'[g] # NoArchive => GoodImage(disk'[g])
  BY <1>1 DEF DiskSound, Exists
<1> QED BY <1>1, <1>2 DEF DiskSound, Exists

----------------------------------------------------------------------------
(* The invariant: each action keeps it. *)

\* It holds at first.
LEMMA InitInv == Init => ScriptInv
<1> SUFFICES ASSUME Init PROVE ScriptInv
  OBVIOUS
<1>1. /\ disk = [f \in Archives \cup {Tmp} |-> IF f = Tmp THEN NoArchive ELSE StartDisk[f]]
      /\ running = None /\ writing = FALSE /\ target = None /\ tmpac = FALSE
  BY DEF Init
<1>2. DiskSound
  <2>1. ASSUME NEW f \in Archives \cup {Tmp}, disk[f] # NoArchive
        PROVE  GoodImage(disk[f])
    <3>1. f \in Archives /\ disk[f] = StartDisk[f]
      BY <1>1, <2>1
    <3>2. StartDisk[f] \in Images
      BY <2>1, <3>1, DiskAssumption
    <3>3. StartDisk[f].members \in Seq(Members)
      BY <3>2 DEF Images
    <3>4. \A i \in 1..Len(StartDisk[f].members) : GoodMember(StartDisk[f].members[i])
      BY <3>1, <3>3, SeqIs DEF GoodMember, NoneEmpty
    <3> QED BY <3>1, <3>2, <3>4 DEF GoodImage
  <2> QED BY <1>1, <2>1 DEF DiskSound, Exists
<1>3. ArType
  BY <1>1 DEF ArType
<1>4. WritesKnown
  <2>1. BsdarIs(bsdar)
    <3>1. {} \in SomeOpts
      BY DEF SomeOpts
    <3> QED BY <3>1, IdleIs DEF Init
  <2> QED BY <1>1, <2>1 DEF WritesKnown, Programs, None
<1> QED BY <1>2, <1>3, <1>4 DEF ScriptInv

\* A program that ends leaves nothing but the files.
LEMMA ExitInv ==
    ASSUME ScriptInv, Exit, DiskSound'
    PROVE  ScriptInv'
<1>1. running' = None /\ writing' = FALSE /\ target' = None /\ tmpac' = FALSE
  BY DEF Exit
<1>2. ArType'
  BY <1>1 DEF ArType, DiskSound
<1>3. WritesKnown'
  <2>1. BsdarIs(bsdar')
    <3>1. {} \in SomeOpts
      BY DEF SomeOpts
    <3> QED BY <3>1, IdleIs DEF Exit
  <2> QED BY <1>1, <2>1 DEF WritesKnown, Programs, None
<1> QED BY <1>2, <1>3 DEF ScriptInv

LEMMA RunInv ==
    ASSUME ScriptInv,
           \/ \E f \in Archives, line \in Lines : RunAr(f, line)
           \/ \E fs \in RanlibArgs : RunRanlib(fs)
           \/ \E opts \in ScriptOpts : RunScript(opts)
    PROVE  ScriptInv'
<1>1. running = None /\ ~writing /\ target = None
  BY DEF RunAr, RunRanlib, RunScript, Start, ScriptInv, ArType, None
<1>2. disk' = disk /\ target' = target /\ tmpac' = tmpac
  BY DEF RunAr, RunRanlib, RunScript, StartWrite, script
<1>3. DiskSound'
  BY <1>2 DEF ScriptInv, DiskSound, Exists
<1>4. CASE \E f \in Archives, line \in Lines : RunAr(f, line)
  <2>1. running' = "ar" /\ bsdar'.filename \in Archives
    BY <1>4 DEF RunAr, Start, Idle
  <2>2. BsdarIs(bsdar')
    <3>1. PICK f \in Archives, line \in Lines : RunAr(f, line)
      BY <1>4
    <3>2. line.opts \in SomeOpts
      BY DEF SomeOpts
    <3> QED BY <3>1, <3>2, IdleIs DEF RunAr
  <2> QED BY <1>1, <1>2, <1>3, <2>1, <2>2 DEF ScriptInv, ArType, Exists, WritesKnown, Programs, None
<1>5. CASE \E fs \in RanlibArgs : RunRanlib(fs)
  <2>1. running' = "ranlib" /\ rest' \in Seq(Archives) /\ ~writing'
    BY <1>1, <1>5, DiskAssumption DEF RunRanlib, Start
  <2>2. BsdarIs(bsdar')
    BY <1>5, IdleIs DEF RunRanlib, SomeOpts
  <2> QED BY <1>1, <1>2, <1>3, <2>1, <2>2 DEF ScriptInv, ArType, Exists, WritesKnown, Programs, None
<1>6. CASE \E opts \in ScriptOpts : RunScript(opts)
  <2>1. running' = "script" /\ ~writing'
    BY <1>1, <1>6 DEF RunScript, Start
  <2>2. BsdarIs(bsdar')
    BY <1>6, IdleIs DEF RunScript, SomeOpts
  <2> QED BY <1>1, <1>2, <1>3, <2>1, <2>2 DEF ScriptInv, ArType, Exists, WritesKnown, Programs, None
<1> QED BY <1>4, <1>5, <1>6

LEMMA RanlibInv ==
    ASSUME ScriptInv, NextRanlib
    PROVE  ScriptInv'
<1>1. rest \in Seq(Archives) /\ rest # <<>> /\ running = "ranlib" /\ ~writing
  BY DEF NextRanlib, ScriptInv, WritesKnown
<1>2. Head(rest) \in Archives /\ Tail(rest) \in Seq(Archives)
  BY <1>1
<1>3. /\ disk' = disk /\ running' = running /\ target' = target /\ tmpac' = tmpac
      /\ rest' = Tail(rest) /\ bsdar' = [bsdar EXCEPT !.filename = Head(rest)]
  BY DEF NextRanlib, StartWrite, script
<1>4. target = None
  BY <1>1 DEF ScriptInv, ArType
<1>5. bsdar'.filename \in Archives /\ BsdarIs(bsdar')
  <2>1. bsdar'.filename = Head(rest)
    BY <1>3 DEF ScriptInv, WritesKnown, BsdarIs
  <2> QED BY <1>2, <1>3, <2>1, BsdarKept DEF ScriptInv, WritesKnown
<1>6. DiskSound'
  BY <1>3 DEF ScriptInv, DiskSound, Exists
<1>7. ArType'
  BY <1>1, <1>3, <1>4, <1>5, <1>6 DEF ScriptInv, ArType, Exists, DiskSound, None
<1>8. WritesKnown'
  BY <1>1, <1>2, <1>3, <1>5 DEF WritesKnown, Programs
<1> QED BY <1>6, <1>7, <1>8 DEF ScriptInv

\* The archive written is there, and so is the temporary one while it has a target.
LEMMA WriteInv ==
    ASSUME ScriptInv, EditKnown, Write \/ \E n \in 0..3 : WriteFailsAfter(n)
    PROVE  /\ ScriptInv'
           /\ bsdar.filename \in Archives \cup {Tmp}
           /\ \A g \in (Archives \cup {Tmp}) \ {bsdar.filename} : disk'[g] = disk[g]
           /\ disk'[bsdar.filename] # NoArchive
<1> DEFINE f == bsdar.filename
<1>1. writing /\ running # None /\ f \in Archives \cup {Tmp} /\ WritesKnown
  BY DEF Write, WriteFailsAfter, ScriptInv, ArType
<1>2. PICK img : GoodImage(img) /\ disk' = [disk EXCEPT ![f] = img]
  <2>1. CASE Write
    BY <1>1, <2>1, WrittenIsArchive DEF Write
  <2>2. ASSUME NEW n \in 0..3, WriteFailsAfter(n)
        PROVE  \E img : GoodImage(img) /\ disk' = [disk EXCEPT ![f] = img]
    <3> DEFINE torn == [Written.image EXCEPT !.members = SubSeq(Written.image.members, 1, n)]
    <3>1. disk' = [disk EXCEPT ![f] = torn] /\ n < Len(Written.image.members)
      BY <2>2 DEF WriteFailsAfter
    <3>2. GoodImage(Written.image) /\ n \in Nat
      BY <1>1, WrittenIsArchive
    <3>3. GoodImage(torn)
      BY <3>1, <3>2, TornIs
    <3> QED BY <3>1, <3>3
  <2> QED BY <2>1, <2>2
<1>3. /\ DiskSound' /\ DOMAIN disk' = Archives \cup {Tmp} /\ disk'[f] = img
      /\ \A g \in (Archives \cup {Tmp}) \ {f} : disk'[g] = disk[g]
  BY <1>1, <1>2, DiskWritten DEF ScriptInv
<1>4. disk'[f] # NoArchive
  BY <1>2, <1>3, ArchiveIsThere
<1>5. CASE Exit
  BY <1>1, <1>3, <1>4, <1>5, ExitInv
<1>6. CASE /\ bsdar' = [bsdar EXCEPT !.carry = Written.carry] /\ writing' = FALSE
           /\ UNCHANGED <<running, rest, script>>
  <2>1. disk[Tmp] # NoArchive => disk'[Tmp] # NoArchive
    BY <1>3, <1>4
  <2>2. ArType'
    BY <1>1, <1>3, <1>6, <2>1 DEF ScriptInv, ArType, Exists, script
  <2>3. BsdarIs(bsdar') /\ bsdar'.filename = bsdar.filename
    <3>1. bsdar'.filename = bsdar.filename
      BY <1>6 DEF ScriptInv, WritesKnown, BsdarIs
    <3> QED BY <1>1, <1>6, <3>1, WrittenIsArchive, BsdarKept DEF ScriptInv, WritesKnown
  <2>4. WritesKnown'
    BY <1>6, <2>3 DEF ScriptInv, WritesKnown
  <2> QED BY <1>1, <1>3, <1>4, <2>2, <2>4 DEF ScriptInv
<1> QED BY <1>5, <1>6 DEF Write, WriteFailsAfter

LEMMA CrashInv ==
    ASSUME ScriptInv, Crash \/ RanlibDone \/ \E f \in Archives : OpenMissing(f)
    PROVE  ScriptInv'
<1>1. disk' = disk /\ Exit
  BY DEF Crash, RanlibDone, OpenMissing
<1>2. DiskSound'
  BY <1>1 DEF ScriptInv, DiskSound, Exists
<1> QED BY <1>1, <1>2, ExitInv

LEMMA EndInv ==
    ASSUME ScriptInv, EndCmd
    PROVE  ScriptInv' /\ \A f \in Archives : disk'[f] = disk[f]
<1>1. DiskSound' /\ \A f \in (Archives \cup {Tmp}) \ {Tmp} : disk'[f] = disk[f]
  BY DiskWritten DEF EndCmd, ScriptInv
<1>2. ScriptInv'
  BY <1>1, ExitInv DEF EndCmd
<1> QED BY <1>1, <1>2, DiskAssumption

\* What a command finds and leaves alone.
LEMMA CommandIs ==
    ASSUME ScriptInv, Command
    PROVE  /\ running = "script" /\ running' = "script" /\ ~writing /\ rest' = rest
           /\ bsdar = [filename |-> bsdar.filename, opts |-> bsdar.opts, carry |-> bsdar.carry]
           /\ \A name : BsdarIs([bsdar EXCEPT !.filename = name])
BY BsdarKept DEF Command, ScriptInv, WritesKnown, BsdarIs

\* arscp_create: the temporary archive is the current one, and holds the content.
LEMMA CreateInv ==
    ASSUME ScriptInv, Command, NEW content, GoodImage(content), NEW out \in Archives,
           Create(content, out), UNCHANGED <<v_obj, writing>>
    PROVE  ScriptInv' /\ disk'[Tmp] = content /\ \A f \in Archives : disk'[f] = disk[f]
<1>1. /\ DiskSound' /\ disk'[Tmp] = content
      /\ \A f \in (Archives \cup {Tmp}) \ {Tmp} : disk'[f] = disk[f]
  BY DiskWritten DEF Create, ScriptInv
<1>2. /\ running' = "script" /\ ~writing' /\ target' = out /\ tmpac' = TRUE
      /\ disk'[Tmp] # NoArchive
  BY <1>1, CommandIs, ArchiveIsThere DEF Create
<1>3. ArType'
  BY <1>1, <1>2 DEF ArType, DiskSound, Exists
<1>4. BsdarIs(bsdar')
  BY CommandIs DEF Create
<1>5. WritesKnown'
  BY <1>2, <1>4 DEF WritesKnown, Programs
<1> QED BY <1>1, <1>3, <1>5, DiskAssumption DEF ScriptInv

\* A copy that fails leaves the target and what is left of the copy.
LEMMA OpenFailsInv ==
    ASSUME ScriptInv, NEW f \in Archives, NEW n \in 0..3, OpenFails(f, n)
    PROVE  ScriptInv' /\ disk'[Tmp] # NoArchive /\ \A g \in Archives : disk'[g] = disk[g]
<1> DEFINE torn == [disk[f] EXCEPT !.members = SubSeq(disk[f].members, 1, n)]
<1>1. GoodImage(disk[f])
  BY DEF OpenFails, ScriptInv, DiskSound
<1>2. GoodImage(torn) /\ disk' = [disk EXCEPT ![Tmp] = torn]
  <2>1. n \in Nat /\ n < Len(disk[f].members)
    BY DEF OpenFails
  <2> QED BY <1>1, <2>1, TornIs DEF OpenFails
<1> HIDE DEF torn
<1>3. /\ DiskSound' /\ disk'[Tmp] = torn
      /\ \A g \in (Archives \cup {Tmp}) \ {Tmp} : disk'[g] = disk[g]
  BY <1>2, DiskWritten DEF ScriptInv
<1>4. /\ running' = "script" /\ ~writing' /\ target' = target /\ tmpac' = TRUE
      /\ disk'[Tmp] # NoArchive
  BY <1>2, <1>3, CommandIs, ArchiveIsThere DEF OpenFails
<1>5. ArType'
  BY <1>3, <1>4 DEF ArType, DiskSound, Exists, ScriptInv
<1>6. BsdarIs(bsdar')
  BY CommandIs DEF OpenFails
<1>7. WritesKnown'
  BY <1>4, <1>6 DEF WritesKnown, Programs
<1> QED BY <1>3, <1>4, <1>5, <1>7, DiskAssumption DEF ScriptInv

\* A command that leaves the files and the target alone.  An edit waits for the
\* temporary archive only.
LEMMA QuietInv ==
    ASSUME ScriptInv, Command, UNCHANGED <<disk, target, tmpac>>,
           bsdar' = [bsdar EXCEPT !.filename = bsdar'.filename],
           writing' => bsdar'.filename = Tmp /\ target # None
    PROVE  ScriptInv'
<1>1. running' = "script" /\ DiskSound'
  BY CommandIs DEF ScriptInv, DiskSound, Exists
<1>2. ArType'
  BY <1>1, CommandIs DEF ScriptInv, ArType, Exists, None
<1>3. BsdarIs(bsdar')
  BY CommandIs
<1>4. WritesKnown'
  BY <1>1, <1>3 DEF WritesKnown, Programs
<1> QED BY <1>1, <1>2, <1>4 DEF ScriptInv

LEMMA DirectoryIsQuiet ==
    ASSUME ScriptInv, NEW f \in Archives, DirectoryCmd(f)
    PROVE  ScriptInv' /\ UNCHANGED <<disk, target>> /\ running' = running
<1>1. Command /\ UNCHANGED <<disk, target, tmpac>> /\ ~writing'
  BY CommandIs DEF DirectoryCmd
<1>2. bsdar' = [bsdar EXCEPT !.filename = bsdar'.filename]
  BY <1>1, CommandIs DEF DirectoryCmd
<1> QED BY <1>1, <1>2, QuietInv, CommandIs

LEMMA EditIsQuiet ==
    ASSUME ScriptInv, NEW mode, NEW argv, NEW lib, EditCmd(mode, argv, lib)
    PROVE  ScriptInv' /\ UNCHANGED <<disk, target>> /\ running' = running
<1>1. Command /\ UNCHANGED <<disk, target, tmpac, bsdar>> /\ target # None /\ bsdar.filename = Tmp
  BY StartWriteIs DEF EditCmd
<1>2. bsdar' = [bsdar EXCEPT !.filename = bsdar'.filename]
  BY <1>1, CommandIs
<1> QED BY <1>1, <1>2, QuietInv, CommandIs

\* SAVE: the copy takes the place of its target and is gone.
LEMMA SaveInv ==
    ASSUME ScriptInv, SaveCmd
    PROVE  /\ ScriptInv'
           /\ target \in Archives /\ target' = None
           /\ disk'[target] = disk[Tmp]
           /\ \A f \in Archives \ {target} : disk'[f] = disk[f]
<1>1. target \in Archives /\ GoodImage(disk[Tmp]) /\ Tmp \notin Archives
  BY DiskAssumption DEF SaveCmd, ScriptInv, ArType, DiskSound
<1>2. /\ disk' = [g \in Archives \cup {Tmp} |-> disk'[g]]
      /\ disk'[target] = disk[Tmp] /\ disk'[Tmp] = NoArchive
      /\ \A g \in Archives \ {target} : disk'[g] = disk[g]
  BY <1>1 DEF SaveCmd, ScriptInv, DiskSound
<1>3. DiskSound'
  BY <1>1, <1>2 DEF ScriptInv, DiskSound, Exists
<1>4. running' = "script" /\ ~writing' /\ target' = None /\ tmpac' = FALSE
  BY CommandIs DEF SaveCmd
<1>5. ArType'
  BY <1>2, <1>4 DEF ArType
<1>6. BsdarIs(bsdar')
  BY CommandIs DEF SaveCmd
<1>7. WritesKnown'
  BY <1>4, <1>6 DEF WritesKnown, Programs
<1> QED BY <1>1, <1>2, <1>3, <1>4, <1>5, <1>7 DEF ScriptInv

----------------------------------------------------------------------------
(* Each action changes archives in a way ArEditor allows. *)

\* What ArEditor sees of the program.
Saved == [f \in Archives |-> disk[f]]
Work == IF target = None THEN NoArchive ELSE disk[Tmp]
Scripted == running = "script"
EditorStep == [Editor!Next]_<<Saved, Work, target, Scripted>>

\* An action that changes nothing ArEditor sees.
LEMMA Unseen ==
    ASSUME \A f \in Archives : disk'[f] = disk[f], target' = target,
           target # None => disk'[Tmp] = disk[Tmp], Scripted' = Scripted
    PROVE  EditorStep
BY DEF EditorStep, Saved, Work

\* Outside a script one file is written.
LEMMA WriteDirect ==
    ASSUME running # "script", target = None, NEW f \in Archives,
           \A g \in Archives \ {f} : disk'[g] = disk[g], target' = None, running' # "script"
    PROVE  EditorStep
<1>1. Saved' = [Saved EXCEPT ![f] = Saved'[f]]
  BY DEF Saved
<1>2. UNCHANGED <<Work, target, Scripted>> /\ ~Scripted
  BY DEF Work, Scripted
<1>3. Editor!Direct(f)
  BY <1>1, <1>2 DEF Editor!Direct, Saved, Work, Scripted
<1> QED BY <1>3 DEF EditorStep, Editor!Next

\* The script ends, and the archives are left.
LEMMA ScriptQuits ==
    ASSUME running = "script", running' = None, target' = None,
           \A f \in Archives : disk'[f] = disk[f]
    PROVE  EditorStep
<1>1. Editor!Quit
  BY DEF Editor!Quit, None
<1> QED BY <1>1 DEF EditorStep, Editor!Next

\* The working copy is changed.
LEMMA CopyEdited ==
    ASSUME running = "script", running' = "script", target # None, target' = target,
           disk'[Tmp] # NoArchive, \A f \in Archives : disk'[f] = disk[f]
    PROVE  EditorStep
<1>1. Editor!Edit
  BY DEF Editor!Edit
<1> QED BY <1>1 DEF EditorStep, Editor!Next

\* The script has chosen an archive, and has a copy of it or an empty one.
LEMMA ArchiveChosen ==
    ASSUME running = "script", running' = "script", NEW f \in Archives, target' = f,
           disk'[Tmp] \in {disk[f], EmptyImage}, \A g \in Archives : disk'[g] = disk[g]
    PROVE  EditorStep
<1>1. f # None
  BY DiskAssumption
<1>2. CASE disk'[Tmp] = EmptyImage
  <2>1. Editor!Choose(f, EmptyImage)
    BY <1>1, <1>2 DEF Editor!Choose
  <2> QED BY <2>1 DEF EditorStep, Editor!Next
<1>3. CASE disk'[Tmp] = disk[f]
  <2>1. Editor!Choose(f, Saved[f])
    BY <1>1, <1>3 DEF Editor!Choose, Saved
  <2> QED BY <2>1 DEF EditorStep, Editor!Next, Saved
<1> QED BY <1>2, <1>3

LEMMA CopySaved ==
    ASSUME running = "script", running' = "script", target \in Archives, target' = None,
           disk'[target] = disk[Tmp], \A f \in Archives \ {target} : disk'[f] = disk[f]
    PROVE  EditorStep
<1>1. target # None
  BY DiskAssumption
<1>2. Saved' = [Saved EXCEPT ![target] = Work]
  BY <1>1 DEF Saved, Work
<1>3. Editor!Save
  BY <1>1, <1>2 DEF Editor!Save, Saved, Work
<1> QED BY <1>3 DEF EditorStep, Editor!Next

----------------------------------------------------------------------------
(* Every step keeps the invariant and is one of ArEditor or a stutter. *)

LEMMA RunStep ==
    ASSUME ScriptInv,
           \/ \E f \in Archives, line \in Lines : RunAr(f, line)
           \/ \E fs \in RanlibArgs : RunRanlib(fs)
           \/ \E opts \in ScriptOpts : RunScript(opts)
    PROVE  EditorStep
<1>1. running = None /\ disk' = disk /\ target' = target
  BY DEF RunAr, RunRanlib, RunScript, Start, StartWrite, script
<1>2. CASE running' # "script"
  BY <1>1, <1>2, Unseen DEF Scripted, None
<1>3. CASE running' = "script"
  <2>1. Editor!Begin
    BY <1>1, <1>3 DEF Editor!Begin, None
  <2> QED BY <2>1 DEF EditorStep, Editor!Next
<1> QED BY <1>2, <1>3

LEMMA WriteStep ==
    ASSUME ScriptInv, EditKnown, Write \/ \E n \in 0..3 : WriteFailsAfter(n)
    PROVE  EditorStep
<1>1. writing /\ running \in Programs \cup {"script"}
  BY DEF Write, WriteFailsAfter, ScriptInv, ArType, Programs
<1>2. CASE running \in Programs
  <2>1. bsdar.filename \in Archives /\ target = None /\ running # "script"
    BY <1>1, <1>2 DEF ScriptInv, ArType, WritesKnown, Programs
  <2>2. target' = None /\ running' # "script"
    BY <2>1 DEF Write, WriteFailsAfter, Exit, script, None
  <2>3. \A g \in Archives \ {bsdar.filename} : disk'[g] = disk[g]
    BY WriteInv
  <2> QED BY <2>1, <2>2, <2>3, WriteDirect
<1>3. CASE running = "script"
  <2>1. bsdar.filename = Tmp /\ target # None
    BY <1>1, <1>3 DEF ScriptInv, WritesKnown
  <2>2. disk'[Tmp] # NoArchive /\ \A g \in Archives : disk'[g] = disk[g]
    BY <2>1, WriteInv, DiskAssumption
  <2>3. CASE Write
    <3>1. running' = "script" /\ target' = target
      BY <1>3, <2>3 DEF Write, script
    <3> QED BY <1>3, <2>1, <2>2, <3>1, CopyEdited
  <2>4. CASE \E n \in 0..3 : WriteFailsAfter(n)
    BY <1>3, <2>2, <2>4, ScriptQuits DEF WriteFailsAfter, Exit
  <2> QED BY <2>3, <2>4
<1> QED BY <1>1, <1>2, <1>3

\* A program that stops before it writes.
LEMMA StopStep ==
    ASSUME ScriptInv, Crash \/ RanlibDone \/ EndCmd \/ \E f \in Archives : OpenMissing(f)
    PROVE  EditorStep
<1>1. running' = None /\ target' = None /\ \A f \in Archives : disk'[f] = disk[f]
  BY EndInv DEF Crash, RanlibDone, OpenMissing, EndCmd, Exit
<1>2. CASE running = "script"
  BY <1>1, <1>2, ScriptQuits
<1>3. CASE running # "script"
  <2>1. target = None
    BY <1>3 DEF ScriptInv, ArType
  <2> QED BY <1>1, <1>3, <2>1, Unseen DEF Scripted, None
<1> QED BY <1>2, <1>3

\* The commands that make a new temporary archive.
LEMMA CopyStep ==
    ASSUME ScriptInv, ClearCmd \/ \E f \in Archives : CreateCmd(f) \/ OpenCmd(f)
    PROVE  ScriptInv' /\ EditorStep
<1>1. running = "script" /\ running' = "script" /\ Command
  BY CommandIs DEF ClearCmd, CreateCmd, OpenCmd
<1>2. ASSUME NEW f \in Archives, NEW content \in {disk[f], EmptyImage}, GoodImage(content),
             Create(content, f), UNCHANGED <<v_obj, writing>>
      PROVE  ScriptInv' /\ EditorStep
  <2>1. ScriptInv' /\ disk'[Tmp] = content /\ \A g \in Archives : disk'[g] = disk[g]
    BY <1>1, <1>2, CreateInv
  <2>2. target' = f
    BY <1>2 DEF Create
  <2> QED BY <1>1, <1>2, <2>1, <2>2, ArchiveChosen
<1>3. CASE ClearCmd
  <2>1. target \in Archives
    BY <1>3 DEF ClearCmd, ScriptInv, ArType
  <2> QED BY <1>2, <1>3, <2>1, EmptyIsArchive DEF ClearCmd
<1>4. ASSUME NEW f \in Archives, CreateCmd(f)
      PROVE  ScriptInv' /\ EditorStep
  BY <1>2, <1>4, EmptyIsArchive DEF CreateCmd
<1>5. ASSUME NEW f \in Archives, OpenCmd(f)
      PROVE  ScriptInv' /\ EditorStep
  <2>1. GoodImage(disk[f])
    BY <1>5 DEF OpenCmd, ScriptInv, DiskSound
  <2>2. CASE HasHeader(disk[f])
    BY <1>2, <1>5, <2>1, <2>2 DEF OpenCmd
  <2>3. CASE ~HasHeader(disk[f])
    <3>1. UNCHANGED <<disk, target, tmpac, bsdar, writing>>
      BY <1>5, <2>3 DEF OpenCmd
    <3>2. bsdar' = [bsdar EXCEPT !.filename = bsdar'.filename]
      BY <1>1, <3>1, CommandIs
    <3>3. ScriptInv'
      BY <1>1, <3>1, <3>2, CommandIs, QuietInv
    <3>4. EditorStep
      BY <1>1, <3>1, Unseen DEF Scripted
    <3> QED BY <3>3, <3>4
  <2> QED BY <2>2, <2>3
<1> QED BY <1>3, <1>4, <1>5

LEMMA OpenFailsStep ==
    ASSUME ScriptInv, NEW f \in Archives, NEW n \in 0..3, OpenFails(f, n)
    PROVE  EditorStep
<1>1. /\ running = "script" /\ running' = "script" /\ target' = target
      /\ disk'[Tmp] # NoArchive /\ \A g \in Archives : disk'[g] = disk[g]
  BY CommandIs, OpenFailsInv DEF OpenFails
<1>2. CASE target = None
  BY <1>1, <1>2, Unseen DEF Scripted
<1>3. CASE target # None
  BY <1>1, <1>3, CopyEdited
<1> QED BY <1>2, <1>3

LEMMA ScriptCommand ==
    ASSUME ScriptInv, ScriptStep
    PROVE  ScriptInv' /\ EditorStep
<1>1. CASE \E f \in Archives : CreateCmd(f) \/ OpenCmd(f) \/ OpenMissing(f) \/ DirectoryCmd(f)
  <2>1. ASSUME NEW f \in Archives, DirectoryCmd(f)
        PROVE  ScriptInv' /\ EditorStep
    BY <2>1, DirectoryIsQuiet, Unseen DEF Scripted
  <2> QED BY <1>1, <2>1, CopyStep, CrashInv, StopStep
<1>2. CASE \E f \in Archives, n \in 0..3 : OpenFails(f, n)
  BY <1>2, OpenFailsInv, OpenFailsStep
<1>3. ASSUME NEW mode, NEW argv, NEW lib, EditCmd(mode, argv, lib)
      PROVE  ScriptInv' /\ EditorStep
  BY <1>3, EditIsQuiet, Unseen DEF Scripted
<1>4. CASE \E argv \in ScriptArgs : AddmodCmd(argv) \/ DeleteCmd(argv) \/ ReplaceCmd(argv)
  BY <1>3, <1>4 DEF AddmodCmd, DeleteCmd, ReplaceCmd
<1>5. CASE \E f \in Archives, argv \in ScriptArgs \cup {<<>>} : AddlibCmd(f, argv)
  BY <1>3, <1>5 DEF AddlibCmd
<1>6. CASE SaveCmd
  <2>1. running = "script" /\ running' = "script"
    BY <1>6, CommandIs DEF SaveCmd
  <2> QED BY <1>6, <2>1, SaveInv, CopySaved
<1> QED BY <1>1, <1>2, <1>4, <1>5, <1>6, CopyStep, EndInv, StopStep DEF ScriptStep

LEMMA EveryStep ==
    ASSUME ScriptInv, EditKnown, [Next]_vars
    PROVE  ScriptInv' /\ EditorStep
<1>1. CASE UNCHANGED vars
  <2>1. EditorStep
    BY <1>1, Unseen DEF vars, Scripted
  <2>2. ScriptInv'
    BY <1>1 DEF vars, ScriptInv, ArType, DiskSound, WritesKnown, Exists
  <2> QED BY <2>1, <2>2
<1>2. CASE NextRanlib
  <2>1. running' = running /\ disk' = disk /\ target' = target
    BY <1>2 DEF NextRanlib, StartWrite, script
  <2> QED BY <1>2, <2>1, RanlibInv, Unseen DEF Scripted
<1>3. CASE ScriptStep
  BY <1>3, ScriptCommand
<1>4. CASE Write \/ \E n \in 0..3 : WriteFailsAfter(n)
  BY <1>4, WriteInv, WriteStep
<1>5. CASE Crash \/ RanlibDone
  BY <1>5, CrashInv, StopStep
<1>6. CASE \/ \E f \in Archives, line \in Lines : RunAr(f, line)
           \/ \E fs \in RanlibArgs : RunRanlib(fs)
           \/ \E opts \in ScriptOpts : RunScript(opts)
  BY <1>6, RunInv, RunStep
<1> QED BY <1>1, <1>2, <1>3, <1>4, <1>5, <1>6 DEF Next

----------------------------------------------------------------------------
(* What is known of the pending edit. *)

\* An edit that was started is known: the members it read are those of the file.
LEMMA StartKnown ==
    ASSUME DiskSound, NEW f \in Archives \cup {Tmp},
           NEW mode \in {"d", "m", "q", "r", "s", "A"}, NEW argv \in Seq(Names),
           NEW posarg, NEW opts, NEW lib, GoodImage(lib),
           StartWrite(f, mode, argv, posarg, opts, lib), bsdar'.filename = f
    PROVE  EditKnown'
<1>1. GoodImage(Contents(f)) /\ disk' = disk
  BY EmptyIsArchive DEF StartWrite, Contents, DiskSound, Exists
<1>2. v_obj' = EditArchive(Contents(f), mode, argv, posarg, opts, lib)
  BY DEF StartWrite
<1>3. EditKeeps(v_obj', Contents(f).members)
  BY <1>1, <1>2, EditArchiveKeeps
<1>4. Contents(bsdar.filename)' = Contents(f)
  BY <1>1 DEF Contents, Exists
<1> QED BY <1>3, <1>4 DEF EditKnown

\* A command of a script starts an edit of the temporary archive, or none.
LEMMA ScriptKnown ==
    ASSUME ScriptInv, ScriptStep
    PROVE  EditKnown'
<1>1. CASE \E f \in Archives : CreateCmd(f) \/ OpenCmd(f) \/ OpenMissing(f) \/ DirectoryCmd(f)
  <2>1. ~writing'
    BY <1>1, CommandIs DEF CreateCmd, OpenCmd, OpenMissing, DirectoryCmd, Exit
  <2> QED BY <2>1 DEF EditKnown
<1>2. CASE ClearCmd \/ SaveCmd \/ EndCmd \/ \E f \in Archives, n \in 0..3 : OpenFails(f, n)
  <2>1. ~writing'
    BY <1>2, CommandIs DEF ClearCmd, SaveCmd, EndCmd, OpenFails, Exit
  <2> QED BY <2>1 DEF EditKnown
<1>3. ASSUME NEW mode \in {"d", "q", "r", "A"}, NEW argv \in Seq(Names),
             NEW lib, GoodImage(lib), EditCmd(mode, argv, lib)
      PROVE  EditKnown'
  <2>1. StartWrite(Tmp, mode, argv, None, bsdar.opts, lib) /\ bsdar'.filename = Tmp
    BY <1>3 DEF EditCmd
  <2> QED BY <1>3, <2>1, StartKnown DEF ScriptInv
<1>4. CASE \E argv \in ScriptArgs : AddmodCmd(argv) \/ DeleteCmd(argv) \/ ReplaceCmd(argv)
  BY <1>3, <1>4, LinesAssumption, EmptyIsArchive DEF AddmodCmd, DeleteCmd, ReplaceCmd
<1>5. CASE \E f \in Archives, argv \in ScriptArgs \cup {<<>>} : AddlibCmd(f, argv)
  <2>1. PICK f \in Archives, argv \in ScriptArgs \cup {<<>>} : AddlibCmd(f, argv)
    BY <1>5
  <2>2. GoodImage(disk[f])
    BY <2>1 DEF AddlibCmd, ScriptInv, DiskSound
  <2>3. argv \in Seq(Names)
    <3>1. <<>> \in Seq(Names)
      OBVIOUS
    <3> QED BY <3>1, LinesAssumption
  <2> QED BY <1>3, <2>1, <2>2, <2>3 DEF AddlibCmd
<1> QED BY <1>1, <1>2, <1>4, <1>5 DEF ScriptStep

\* Every step either ends what was pending, or starts an edit.
LEMMA EveryEdit ==
    ASSUME ScriptInv, EditKnown, [Next]_vars
    PROVE  EditKnown'
<1>1. CASE UNCHANGED vars
  BY <1>1 DEF vars, EditKnown, Contents, Exists
<1>2. CASE \E f \in Archives, line \in Lines : RunAr(f, line)
  <2>1. PICK f \in Archives, line \in Lines : RunAr(f, line)
    BY <1>2
  <2>2. /\ StartWrite(f, line.mode, line.argv, line.posarg, line.opts, EmptyImage)
        /\ bsdar'.filename = f
    BY <2>1 DEF RunAr, Idle
  <2>3. line.mode \in {"d", "m", "q", "r", "s"} /\ line.argv \in Seq(Names)
    BY LinesAssumption
  <2> QED BY <2>2, <2>3, EmptyIsArchive, StartKnown DEF ScriptInv
<1>3. CASE \/ \E fs \in RanlibArgs : RunRanlib(fs)
           \/ \E opts \in ScriptOpts : RunScript(opts)
  <2>1. ~writing'
    BY <1>3 DEF RunRanlib, RunScript, Start, ScriptInv, ArType
  <2> QED BY <2>1 DEF EditKnown
<1>4. CASE NextRanlib
  <2>1. rest \in Seq(Archives) /\ rest # <<>> /\ ~writing
    BY <1>4 DEF NextRanlib, ScriptInv, WritesKnown
  <2>2. Head(rest) \in Archives /\ bsdar'.filename = Head(rest)
    BY <1>4, <2>1 DEF NextRanlib, ScriptInv, WritesKnown
  <2>3. CASE StartWrite(Head(rest), "s", <<>>, None, bsdar.opts, EmptyImage)
    <3>1. <<>> \in Seq(Names)
      OBVIOUS
    <3> QED BY <2>2, <2>3, <3>1, EmptyIsArchive, StartKnown DEF ScriptInv
  <2>4. CASE UNCHANGED writing
    BY <2>1, <2>4 DEF EditKnown
  <2> QED BY <1>4, <2>3, <2>4 DEF NextRanlib
<1>5. CASE RanlibDone \/ Crash \/ Write \/ \E n \in 0..3 : WriteFailsAfter(n)
  <2>1. ~writing'
    BY <1>5 DEF RanlibDone, Crash, Write, WriteFailsAfter, Exit
  <2> QED BY <2>1 DEF EditKnown
<1>6. CASE ScriptStep
  BY <1>6, ScriptKnown
<1> QED BY <1>1, <1>2, <1>3, <1>4, <1>5, <1>6 DEF Next

----------------------------------------------------------------------------
(* Symbol tables. *)

\* No program is told both to write a symbol table and to write none.
NotBoth ==
    /\ \A line \in Lines : ~({"s", "S"} \subseteq line.opts)
    /\ \A opts \in ScriptOpts : ~({"s", "S"} \subseteq opts)

TablesRight == \A f \in Archives \cup {Tmp} : TableRight(disk[f])

\* Not even ranlib, or a program with no options.
LEMMA OptionsAre ==
    ASSUME NotBoth, NEW opts \in SomeOpts
    PROVE  ~({"s", "S"} \subseteq opts)
<1>1. opts = {} \/ opts = {"s"} \/ opts \in ScriptOpts \/ \E line \in Lines : opts = line.opts
  BY DEF SomeOpts
<1>2. opts = {} \/ opts = {"s"} => "S" \notin opts
  OBVIOUS
<1> QED BY <1>1, <1>2 DEF NotBoth

\* An archive without a table, or none.
LEMMA NoTable == TableRight(NoArchive) /\ TableRight(EmptyImage)
<1>1. NoArchive.table = FALSE /\ EmptyImage.table = FALSE
  BY DEF NoArchive, EmptyImage
<1> QED BY <1>1 DEF TableRight

\* One file, or two, are written with right tables.
LEMMA RightWritten ==
    ASSUME DiskSound, TablesRight, NEW f \in Archives \cup {Tmp}, NEW img, TableRight(img),
           disk' = [disk EXCEPT ![f] = img]
    PROVE  TablesRight'
<1>1. \A g \in Archives \cup {Tmp} : disk'[g] \in {img, disk[g]}
  BY DEF DiskSound
<1> HIDE DEF TableRight
<1>2. \A g \in Archives \cup {Tmp} : TableRight(disk'[g])
  BY <1>1 DEF TablesRight
<1> QED BY <1>2 DEF TablesRight, TableRight

\* What write_objs writes.
LEMMA WriteIsRight ==
    ASSUME ScriptInv, EditKnown, NoneEmpty, NotBoth, writing, ~Corrupt(Written)
    PROVE  GoodImage(Written.image) /\ TableRight(Written.image)
<1>1. ObjectsIn(v_obj.objs)
  BY ListIs
<1>2. bsdar.carry \in Carries /\ ~({"s", "S"} \subseteq bsdar.opts)
  BY OptionsAre DEF ScriptInv, WritesKnown, BsdarIs
<1>3. ~Written.crashes
  BY DEF Corrupt
<1>4. GoodImage(Written.image)
  BY WrittenIsArchive DEF ScriptInv
<1>5. Written.image.table => Written.image.entries = NeededEntries(Written.image)
  BY <1>1, <1>2, <1>3, WrittenRight DEF Written
<1> QED BY <1>4, <1>5, ExactIsRight

\* Written whole or in part, an archive has a right table.
LEMMA WriteKeepsRight ==
    ASSUME ScriptInv, EditKnown, NoneEmpty, NotBoth, TablesRight,
           Write \/ \E n \in 0..3 : WriteFailsAfter(n)
    PROVE  TablesRight'
<1>1. writing /\ ~Corrupt(Written) /\ bsdar.filename \in Archives \cup {Tmp} /\ DiskSound
  BY DEF Write, WriteFailsAfter, ScriptInv, ArType
<1>2. GoodImage(Written.image) /\ TableRight(Written.image)
  BY <1>1, WriteIsRight
<1>3. CASE Write
  <2>1. disk' = [disk EXCEPT ![bsdar.filename] = Written.image]
    BY <1>3 DEF Write
  <2> QED BY <1>1, <1>2, <2>1, RightWritten
<1>4. ASSUME NEW n \in 0..3, WriteFailsAfter(n)
      PROVE  TablesRight'
  <2> DEFINE torn == [Written.image EXCEPT !.members = SubSeq(Written.image.members, 1, n)]
  <2>1. /\ WriteFails /\ n < Len(Written.image.members)
        /\ disk' = [disk EXCEPT ![bsdar.filename] = torn]
    BY <1>4 DEF WriteFailsAfter
  <2>2. TableRight(torn)
    <3>1. n \in Nat
      OBVIOUS
    <3> QED BY <1>2, <2>1, <3>1, TornRight
  <2> HIDE DEF torn
  <2> QED BY <1>1, <2>1, <2>2, RightWritten
<1> QED BY <1>3, <1>4

\* A script makes, copies and moves archives.
LEMMA ScriptKeepsRight ==
    ASSUME ScriptInv, TablesRight, ScriptStep
    PROVE  TablesRight'
<1>1. DiskSound /\ Tmp \in Archives \cup {Tmp} /\ \A f \in Archives : TableRight(disk[f])
  BY DEF ScriptInv, TablesRight
<1>2. ASSUME UNCHANGED disk PROVE TablesRight'
  BY <1>2 DEF TablesRight, TableRight
<1>3. ASSUME NEW content, TableRight(content), NEW out, Create(content, out)
      PROVE  TablesRight'
  <2>1. disk' = [disk EXCEPT ![Tmp] = content]
    BY <1>3 DEF Create
  <2> QED BY <1>1, <1>3, <2>1, RightWritten
<1>4. CASE \E f \in Archives : CreateCmd(f) \/ OpenCmd(f) \/ OpenMissing(f) \/ DirectoryCmd(f)
  <2>1. ASSUME NEW f \in Archives, OpenCmd(f) PROVE TablesRight'
    BY <1>1, <1>2, <1>3, <2>1 DEF OpenCmd
  <2>2. ASSUME NEW f \in Archives, CreateCmd(f) PROVE TablesRight'
    BY <1>3, <2>2, NoTable DEF CreateCmd
  <2>3. ASSUME NEW f \in Archives, OpenMissing(f) \/ DirectoryCmd(f) PROVE TablesRight'
    BY <1>2, <2>3 DEF OpenMissing, DirectoryCmd
  <2> QED BY <1>4, <2>1, <2>2, <2>3
<1>5. ASSUME NEW f \in Archives, NEW n \in 0..3, OpenFails(f, n)
      PROVE  TablesRight'
  <2> DEFINE torn == [disk[f] EXCEPT !.members = SubSeq(disk[f].members, 1, n)]
  <2>1. /\ CopyFails /\ Exists(f) /\ n < Len(disk[f].members)
        /\ disk' = [disk EXCEPT ![Tmp] = torn]
    BY <1>5 DEF OpenFails
  <2>2. GoodImage(disk[f])
    BY <1>1, <2>1 DEF DiskSound
  <2>3. TableRight(torn)
    <3>1. n \in Nat
      OBVIOUS
    <3> QED BY <1>1, <2>1, <2>2, <3>1, TornRight
  <2> HIDE DEF torn
  <2> QED BY <1>1, <2>1, <2>3, RightWritten
<1>6. ASSUME NEW mode, NEW argv, NEW lib, EditCmd(mode, argv, lib)
      PROVE  TablesRight'
  BY <1>2, <1>6, StartWriteIs DEF EditCmd
<1>7. CASE \E argv \in ScriptArgs : AddmodCmd(argv) \/ DeleteCmd(argv) \/ ReplaceCmd(argv)
  BY <1>6, <1>7 DEF AddmodCmd, DeleteCmd, ReplaceCmd
<1>8. CASE \E f \in Archives, argv \in ScriptArgs \cup {<<>>} : AddlibCmd(f, argv)
  BY <1>6, <1>8 DEF AddlibCmd
<1>9. CASE ClearCmd
  BY <1>3, <1>9, NoTable DEF ClearCmd
<1>10. CASE SaveCmd
  <2>1. \A g \in Archives \cup {Tmp} : disk'[g] \in {NoArchive, disk[Tmp], disk[g]}
    BY <1>10 DEF SaveCmd, ScriptInv, DiskSound
  <2>2. \A g \in Archives \cup {Tmp} : TableRight(disk'[g])
    BY <2>1, NoTable DEF TablesRight
  <2> QED BY <2>2 DEF TablesRight, TableRight
<1>11. CASE EndCmd
  <2>1. disk' = [disk EXCEPT ![Tmp] = NoArchive]
    BY <1>11 DEF EndCmd
  <2> QED BY <1>1, <2>1, NoTable, RightWritten
<1> QED BY <1>4, <1>5, <1>7, <1>8, <1>9, <1>10, <1>11 DEF ScriptStep

\* Every step leaves right tables right.
LEMMA StepKeepsRight ==
    ASSUME ScriptInv, EditKnown, NoneEmpty, NotBoth, TablesRight, [Next]_vars
    PROVE  TablesRight'
<1>1. ASSUME UNCHANGED disk PROVE TablesRight'
  BY <1>1 DEF TablesRight, TableRight
<1>2. CASE UNCHANGED vars
  BY <1>1, <1>2 DEF vars
<1>3. CASE \/ \E f \in Archives, line \in Lines : RunAr(f, line)
           \/ \E fs \in RanlibArgs : RunRanlib(fs)
           \/ \E opts \in ScriptOpts : RunScript(opts)
  BY <1>1, <1>3, StartWriteIs DEF RunAr, RunRanlib, RunScript
<1>4. CASE NextRanlib \/ RanlibDone \/ Crash
  BY <1>1, <1>4, StartWriteIs DEF NextRanlib, RanlibDone, Crash
<1>5. CASE Write \/ \E n \in 0..3 : WriteFailsAfter(n)
  BY <1>5, WriteKeepsRight
<1>6. CASE ScriptStep
  BY <1>6, ScriptKeepsRight
<1> QED BY <1>2, <1>3, <1>4, <1>5, <1>6 DEF Next

----------------------------------------------------------------------------
\* The type invariant, and where the next write goes, for any archives, command
\* lines, scripts and failures (ar.c, write.c, acpyacc.y).
THEOREM ScriptInvariant == Spec => [](ScriptInv /\ EditKnown)
<1>1. Init => ScriptInv /\ EditKnown
  BY InitInv DEF Init, EditKnown
<1>2. ScriptInv /\ EditKnown /\ [Next]_vars => (ScriptInv /\ EditKnown)'
  BY EveryStep, EveryEdit
<1> QED BY <1>1, <1>2, PTL DEF Spec

\* Members that no argument names, and those whose file is not there or not newer,
\* are all kept, unchanged and in their order, in every edit of every command line,
\* script and run of ranlib, for any archive (ar_write_archive, write.c:460-504).
THEOREM OthersAlwaysKept == Spec => []OthersKept
<1>1. ScriptInv /\ EditKnown => OthersKept
  <2> SUFFICES ASSUME ScriptInv, EditKnown, writing PROVE OthersKept
    BY DEF OthersKept
  <2>1. GoodImage(Contents(bsdar.filename))
    BY EmptyIsArchive DEF ScriptInv, ArType, DiskSound, Contents, Exists
  <2>2. EditKeeps(v_obj, Contents(bsdar.filename).members)
    BY DEF EditKnown
  <2> QED BY <2>1, <2>2, KeptIsSaid DEF OthersKept
<1> QED BY <1>1, ScriptInvariant, PTL

\* A symbol table lists exactly the symbols of the members, and each offset, worked out
\* before anything is written, is where the member then begins, in every archive that
\* any command lines, scripts and runs of ranlib make, in both flavours and with any
\* names; one torn while it was written or copied has at least the entries of what it
\* holds.  This is so when the first archives are right, no file is empty and no program
\* has both -s and -S (write.c:728-735, ar.1:150).
THEOREM SymtabAlwaysRight == NoneEmpty /\ NotBoth /\ SymtabRight /\ Spec => []SymtabRight
<1> DEFINE Inv == NoneEmpty /\ NotBoth /\ TablesRight
<1>1. NoneEmpty /\ NotBoth /\ SymtabRight /\ Init => Inv
  <2> SUFFICES ASSUME SymtabRight, Init PROVE TablesRight
    OBVIOUS
  <2>1. disk[Tmp] = NoArchive
    BY DEF Init
  <2>2. \A f \in Archives : TableRight(disk[f])
    <3>1. ASSUME NEW f \in Archives, disk[f].table, disk[f] # NoArchive PROVE TableRight(disk[f])
      BY <3>1 DEF SymtabRight, Exists, TableRight
    <3>2. ASSUME NEW f \in Archives, ~disk[f].table PROVE TableRight(disk[f])
      BY <3>2 DEF TableRight
    <3> QED BY <3>1, <3>2, NoTable
  <2> QED BY <2>1, <2>2, NoTable DEF TablesRight
<1>2. ScriptInv /\ EditKnown /\ Inv /\ [Next]_vars => Inv'
  BY StepKeepsRight
<1>3. Inv => SymtabRight
  BY DEF SymtabRight, TablesRight, TableRight
<1> HIDE DEF Inv
<1> QED BY <1>1, <1>2, <1>3, ScriptInvariant, PTL DEF Spec

\* A script changes its current archive only by SAVE, and every other archive never,
\* whatever stops half way; a command line and ranlib change one archive at a time
\* (acpyacc.y:273-326, 467-491, 514-527).
THEOREM ScriptsAlwaysEditCopies == Spec => ScriptsEditCopies
<1>1. Init => Editor!Init
  <2> SUFFICES ASSUME Init PROVE Editor!Init
    OBVIOUS
  <2>1. [f \in Archives |-> disk[f]] = StartDisk
    BY DiskAssumption DEF Init
  <2>2. target = None /\ running # "script"
    BY DEF Init, None
  <2> QED BY <2>1, <2>2 DEF Editor!Init
<1>2. ScriptInv /\ EditKnown /\ [Next]_vars => [Editor!Next]_Editor!vars
  BY EveryStep DEF EditorStep, Editor!vars, Saved, Work, Scripted
<1> QED BY <1>1, <1>2, ScriptInvariant, PTL DEF Spec, ScriptsEditCopies, Editor!Spec

==============================================================================
