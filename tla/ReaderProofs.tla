---------------------------- MODULE ReaderProofs -----------------------------
(***************************************************************************)
(* Theorems about what a program reads through libelf.  About ArWalk and   *)
(* its loop, for any set of archives of any number of members of any       *)
(* sizes: the archive cursor is always on a header or past the last,       *)
(* elf_begin opens what the last elf_next or elf_rand asked for, and the   *)
(* documented loop implements the traversal of ArScan.  About ElfObject,   *)
(* for any file, any bounds and any sequence of calls and failures: the    *)
(* sections of a descriptor have distinct indices, its program header      *)
(* table has the size it says, no table is read from a mapping that was    *)
(* undone, and the first file written is complete.                         *)
(***************************************************************************)
EXTENDS ArWalk, ElfObject, SequenceTheorems, WellFoundedInduction, TLAPS

(***************************************************************************)
(* Archives.  The offsets Start(a) are defined by recursion; what they are *)
(* is proved here from the least number at which it would fail.            *)
(***************************************************************************)

\* Every nonempty set of natural numbers has a least element.
LEMMA Least ==
    ASSUME NEW T \in SUBSET Nat, T # {}
    PROVE  \E m \in T : \A k \in T : m <= k
<1> DEFINE R == OpToRel(<, Nat)
<1>1. IsWellFoundedOn(R, Nat)
  BY NatLessThanWellFounded
<1>2. PICK m \in T : \A k \in T : ~ (<<k, m>> \in R)
  <2> HIDE DEF R
  <2> QED BY <1>1, WFMin
<1>3. \A k \in T : ~ (k < m)
  BY <1>2 DEF OpToRel
<1> QED BY <1>3

\* The recursive function in Start(a) exists: each item adds to the offset of the
\* one before.
LEMMA StartExists ==
    ASSUME NEW a, NEW n \in Nat
    PROVE  \E s : s = [k \in 1..n + 1 |->
                         IF k = 1 THEN Magic ELSE s[k - 1] + HdrSize + Adjust(a.items[k - 1].sz)]
<1> DEFINE Step(s, k) == IF k = 1 THEN Magic ELSE s[k - 1] + HdrSize + Adjust(a.items[k - 1].sz)
           Def(s, m) == s = [k \in 1..m + 1 |-> Step(s, k)]
           Bad == {m \in Nat : ~ \E s : Def(s, m)}
<1> SUFFICES ASSUME Bad # {} PROVE FALSE
  BY ZenonT(60)
<1>1. PICK m \in Bad : \A k \in Bad : m <= k
  <2> HIDE DEF Bad
  <2>1. Bad \subseteq Nat BY DEF Bad
  <2> QED BY <2>1, Least
<1>2. m \in Nat
  OBVIOUS
<1>3. CASE m = 0
  <2> DEFINE s == [k \in 1..1 |-> Magic]
  <2>1. Def(s, 0)
    OBVIOUS
  <2> QED BY <2>1, <1>3
<1>4. CASE m # 0
  <2>1. m - 1 \in Nat /\ m - 1 < m
    BY <1>2, <1>4
  <2>2. m - 1 \notin Bad
    <3> HIDE DEF Bad
    <3> QED BY <2>1, <1>1, <1>2
  <2>3. PICK g : Def(g, m - 1)
    BY <2>1, <2>2
  <2> DEFINE s == [k \in 1..m + 1 |-> IF k = m + 1 THEN Step(g, m + 1) ELSE g[k]]
  <2>4. DOMAIN g = 1..m /\ \A k \in 1..m : g[k] = Step(g, k)
    BY <2>3, <2>1
  <2>5. \A k \in 1..m + 1 : s[k] = Step(s, k)
    BY <2>4, <1>2, <1>4
  <2>6. Def(s, m)
    BY <2>5
  <2> QED BY <2>6
<1> QED BY <1>3, <1>4

\* What an archive in Archives is.
LEMMA ItemTypes ==
    ASSUME NEW a \in Archives
    PROVE  /\ a.items \in Seq(Item) /\ a.padded \in BOOLEAN /\ a.cut \in Nat
           /\ Len(a.items) \in Nat /\ DOMAIN a.items = 1..Len(a.items)
           /\ \A k \in 1..Len(a.items) :
                 a.items[k] \in Item /\ a.items[k].sz \in Nat /\ a.items[k].nsz \in Nat
<1>1. a \in Archive
  BY ArchivesAssumption
<1>2. a.items \in Seq(Item) /\ a.padded \in BOOLEAN /\ a.cut \in Nat
  BY <1>1 DEF Archive
<1>3. Len(a.items) \in Nat /\ DOMAIN a.items = 1..Len(a.items)
  BY <1>2
<1>4. ASSUME NEW k \in 1..Len(a.items)
      PROVE  a.items[k] \in Item /\ a.items[k].sz \in Nat /\ a.items[k].nsz \in Nat
  <2>1. a.items[k] \in Item
    BY <1>2, <1>3, <1>4
  <2> QED BY <2>1 DEF Item
<1> QED BY <1>2, <1>3, <1>4

\* Padding makes a number even and adds at most one.
LEMMA AdjustEven ==
    ASSUME NEW n \in Nat
    PROVE  Adjust(n) \in Nat /\ Adjust(n) % 2 = 0 /\ Adjust(n) \in {n, n + 1}
           /\ (n % 2 = 0 => Adjust(n) = n)
BY DEF Adjust

\* The offsets themselves: the first is after the magic string, and each of the
\* others after the header and the padded contents of the item before.
LEMMA StartDef ==
    ASSUME NEW a \in Archives
    PROVE  LET n == Len(a.items)
           IN  /\ DOMAIN Start(a) = 1..n + 1
               /\ Start(a)[1] = Magic
               /\ \A k \in 1..n : Start(a)[k + 1] = Start(a)[k] + HdrSize + Adjust(a.items[k].sz)
<1> DEFINE n == Len(a.items)
           Def(s) == s = [k \in 1..n + 1 |->
                         IF k = 1 THEN Magic ELSE s[k - 1] + HdrSize + Adjust(a.items[k - 1].sz)]
<1>1. n \in Nat
  BY ItemTypes
<1>2. \E s : Def(s)
  BY <1>1, StartExists
<1>3. Start(a) = CHOOSE s : Def(s)
  BY DEF Start
<1>4. Def(Start(a))
  <2> HIDE DEF Def
  <2> QED BY <1>2, <1>3
<1> QED BY <1>1, <1>4

\* Even numbers add up to even ones.
LEMMA EvenSum ==
    ASSUME NEW x \in Nat, NEW y \in Nat, NEW z \in Nat, x % 2 = 0, y % 2 = 0, z % 2 = 0
    PROVE  x + y + z \in Nat /\ (x + y + z) % 2 = 0
OBVIOUS

\* Offsets of headers are even and not before the end of the magic string.
LEMMA StartEven ==
    ASSUME NEW a \in Archives, NEW k \in 1..Len(a.items) + 1
    PROVE  Start(a)[k] \in Nat /\ Start(a)[k] % 2 = 0 /\ Start(a)[k] >= Magic
<1> DEFINE n == Len(a.items)
           Good(j) == Start(a)[j] \in Nat /\ Start(a)[j] % 2 = 0 /\ Start(a)[j] >= Magic
           Bad == {j \in 1..n + 1 : ~ Good(j)}
<1>0. n \in Nat
  BY ItemTypes
<1> SUFFICES ASSUME Bad # {} PROVE FALSE
  OBVIOUS
<1>1. PICK m \in Bad : \A j \in Bad : m <= j
  <2>1. Bad \in SUBSET Nat
    BY <1>0
  <2> HIDE DEF Bad
  <2> QED BY <2>1, Least
<1>2. m \in 1..n + 1 /\ ~ Good(m)
  OBVIOUS
<1>3. CASE m = 1
  BY <1>2, <1>3, StartDef, EvenAssumption
<1>4. CASE m # 1
  <2> DEFINE l == m - 1
  <2>1. l \in 1..n /\ l \in 1..n + 1 /\ m = l + 1 /\ l < m
    BY <1>0, <1>2, <1>4
  <2>2. Good(l)
    <3>1. l \notin Bad
      <4> HIDE DEF Bad, l
      <4> QED BY <2>1, <1>1, <1>2, <1>0
    <3> QED BY <3>1, <2>1
  <2>3. Start(a)[m] = Start(a)[l] + HdrSize + Adjust(a.items[l].sz)
    <3> HIDE DEF l
    <3> QED BY <2>1, StartDef
  <2>4. Adjust(a.items[l].sz) \in Nat /\ Adjust(a.items[l].sz) % 2 = 0
    <3> HIDE DEF l
    <3> QED BY <2>1, ItemTypes, AdjustEven
  <2>5. Good(m)
    <3> HIDE DEF l
    <3> DEFINE d == Adjust(a.items[l].sz)
    <3> HIDE DEF l, d
    <3>1. Start(a)[l] + HdrSize + d \in Nat /\ (Start(a)[l] + HdrSize + d) % 2 = 0
      BY <2>2, <2>4, EvenSum, EvenAssumption DEF d
    <3>2. Start(a)[l] + HdrSize + d >= Magic
      BY <2>2, <2>4, EvenAssumption DEF d
    <3> QED BY <2>3, <3>1, <3>2 DEF d
  <2> QED BY <2>5, <1>2
<1> QED BY <1>3, <1>4

\* Headers are in the order of the items, at least a header apart.
LEMMA StartIncreases ==
    ASSUME NEW a \in Archives, NEW k \in 1..Len(a.items) + 1, NEW j \in 1..Len(a.items) + 1, k < j
    PROVE  Start(a)[k] + HdrSize <= Start(a)[j]
<1> DEFINE n == Len(a.items)
           S(i) == Start(a)[i]
           Bad == {i \in k + 1..n + 1 : ~ S(k) + HdrSize <= S(i)}
<1>0. n \in Nat /\ k \in Nat /\ \A i \in 1..n + 1 : S(i) \in Nat
  BY ItemTypes, StartEven
<1> SUFFICES ASSUME Bad # {} PROVE FALSE
  BY <1>0
<1>1. PICK m \in Bad : \A i \in Bad : m <= i
  <2>1. Bad \in SUBSET Nat
    BY <1>0
  <2> HIDE DEF Bad
  <2> QED BY <2>1, Least
<1>2. m \in k + 1..n + 1 /\ ~ S(k) + HdrSize <= S(m)
  OBVIOUS
<1>3. PICK l \in 1..n : m = l + 1
  BY <1>0, <1>2
<1>4. S(m) = S(l) + HdrSize + Adjust(a.items[l].sz) /\ Adjust(a.items[l].sz) \in Nat
  BY <1>3, StartDef, ItemTypes, AdjustEven
<1>5. S(k) <= S(l)
  <2>1. CASE l = k
    BY <2>1, <1>0
  <2>2. CASE l # k
    <3>1. l \in k + 1..n + 1 /\ l < m
      BY <2>2, <1>2, <1>3, <1>0
    <3>2. l \notin Bad
      <4> HIDE DEF Bad
      <4> QED BY <3>1, <1>1, <1>2, <1>0
    <3> QED BY <3>1, <3>2, <1>0, EvenAssumption
  <2> QED BY <2>1, <2>2
<1>6. S(k) \in Nat /\ S(l) \in Nat
  BY <1>0, <1>3
<1> QED BY <1>2, <1>4, <1>5, <1>6, EvenAssumption

\* An offset is that of one header at most.
LEMMA StartInjective ==
    ASSUME NEW a \in Archives, NEW k \in 1..Len(a.items) + 1, NEW j \in 1..Len(a.items) + 1,
           Start(a)[k] = Start(a)[j]
    PROVE  k = j
<1>1. Start(a)[k] \in Nat /\ Start(a)[j] \in Nat /\ Len(a.items) \in Nat
  BY StartEven, ItemTypes
<1>2. ~ k < j
  BY <1>1, StartIncreases, EvenAssumption
<1>3. ~ j < k
  BY <1>1, StartIncreases, EvenAssumption
<1> QED BY <1>1, <1>2, <1>3

\* e_rawsize is a number not beyond the end of the last item.
LEMMA RawSizeBound ==
    ASSUME NEW a \in Archives
    PROVE  RawSize(a) \in Int /\ RawSize(a) <= Start(a)[Len(a.items) + 1]
<1> DEFINE n == Len(a.items)
           odd == IF n = 0 \/ a.padded THEN 0 ELSE a.items[n].sz % 2
<1>1. n \in Nat /\ n + 1 \in 1..n + 1 /\ a.cut \in Nat
  BY ItemTypes
<1>2. Start(a)[n + 1] \in Nat
  BY <1>1, StartEven
<1>3. odd \in Nat
  BY <1>1, ItemTypes
<1>4. RawSize(a) = Start(a)[n + 1] - odd - a.cut
  BY DEF RawSize
<1> HIDE DEF odd, n
<1> QED BY <1>1, <1>2, <1>3, <1>4 DEF n

----------------------------------------------------------------------------
\* The invariant: what ArWalk states of every step.
WalkInv == TypeOK /\ CursorOnHeader /\ OpensWhatWasAsked /\ ZeroOnlyAtEnd

\* The first member is one of the items or the end.
LEMMA FirstItemInRange ==
    ASSUME NEW a \in Archives, a.items # <<>>, FirstItem(a) > 0
    PROVE  FirstItem(a) \in 1..Len(a.items) + 1
<1>1. Len(a.items) \in Nat /\ Len(a.items) >= 1
  BY ItemTypes
<1>2. CASE FirstItem(a) = 3
  <2>1. HasHeader(a, 2)
    BY <1>2 DEF FirstItem
  <2> QED BY <1>1, <1>2, <2>1 DEF HasHeader
<1>3. FirstItem(a) \in {0, 1, 2, 3}
  BY DEF FirstItem
<1> QED BY <1>1, <1>2, <1>3

\* _libelf_open_object leaves the cursor on the first member.
LEMMA InitWalk == Init => WalkInv
<1> SUFFICES ASSUME Init PROVE WalkInv
  OBVIOUS
<1>1. ar \in Archives /\ ar.items # <<>> /\ FirstItem(ar) > 0
  BY DEF Init
<1>2. want \in 1..Len(ar.items) + 1 /\ next = Start(ar)[want]
  BY <1>1, FirstItemInRange DEF Init
<1>3. next \in Nat /\ next % 2 = 0 /\ next # 0
  BY <1>1, <1>2, StartEven, EvenAssumption
<1> QED BY <1>1, <1>2, <1>3 DEF Init, WalkInv, TypeOK, CursorOnHeader, OpensWhatWasAsked, ZeroOnlyAtEnd

\* What elf_next computes is the offset of the next header: padding is counted
\* and the bytes of a BSD name, which the descriptor does not have, are too.
LEMMA NextIsStart ==
    ASSUME TypeOK, NEW k \in DOMAIN ar.items
    PROVE  Adjust(NextOffset(k)) = Start(ar)[k + 1]
<1>1. ar \in Archives /\ k \in 1..Len(ar.items) /\ Len(ar.items) \in Nat
  BY ItemTypes DEF TypeOK
<1> DEFINE o == Start(ar)[k]
           sz == ar.items[k].sz
           nsz == ar.items[k].nsz
<1>2. o \in Nat /\ o % 2 = 0 /\ sz \in Nat /\ nsz \in Nat
  BY <1>1, StartEven, ItemTypes
<1>3. NextOffset(k) = o + HdrSize + nsz + (sz - nsz)
  BY DEF NextOffset, Raw, RawLen
<1>4. Start(ar)[k + 1] = o + HdrSize + Adjust(sz)
  BY <1>1, StartDef
<1> HIDE DEF o, sz, nsz
<1> QED BY <1>2, <1>3, <1>4, EvenAssumption DEF Adjust

\* elf_begin opens nothing but the item whose header the cursor is at.
LEMMA FoundIsWanted ==
    ASSUME TypeOK, CursorOnHeader, Found[1] = "item"
    PROVE  Found = <<"item", want>> /\ want \in DOMAIN ar.items
<1> DEFINE at == ItemAt(next)
           k == CHOOSE k \in at : TRUE
<1>1. next # 0 /\ at # {} /\ Found = <<"item", k>>
  BY DEF Found
<1>2. k \in DOMAIN ar.items /\ Start(ar)[k] = next
  BY <1>1 DEF ItemAt
<1>3. next = Start(ar)[want]
  BY <1>1 DEF CursorOnHeader
<1>4. ar \in Archives /\ want \in 1..Len(ar.items) + 1 /\ k \in 1..Len(ar.items) + 1
  <2> HIDE DEF k
  <2> QED BY <1>2, ItemTypes DEF TypeOK
<1>5. k = want
  <2> HIDE DEF k
  <2> QED BY <1>2, <1>3, <1>4, StartInjective
<1> QED BY <1>1, <1>2, <1>5

\* Every call keeps the invariant, whichever members are open.
LEMMA StepWalk == WalkInv /\ [Next]_vars => WalkInv'
<1> SUFFICES ASSUME WalkInv, [Next]_vars PROVE WalkInv'
  OBVIOUS
<1> USE DEF WalkInv
<1>0. ar \in Archives /\ Len(ar.items) \in Nat /\ DOMAIN ar.items = 1..Len(ar.items)
  BY ItemTypes DEF TypeOK
<1>1. CASE Begin
  <2>1. Found \in {<<"end">>} \cup ({"error"} \X {"ARCHIVE", "ARGUMENT", "HEADER"})
                  \cup ({"item"} \X DOMAIN ar.items)
    <3>1. CASE Found[1] = "item"
      BY <3>1, FoundIsWanted
    <3>2. CASE Found[1] # "item"
      BY <3>2 DEF Found
    <3> QED BY <3>1, <3>2
  <2>2. TypeOK'
    <3>1. Found[1] = "item" => Found[2] \in DOMAIN ar.items
      BY FoundIsWanted
    <3> QED BY <1>1, <2>1, <3>1 DEF Begin, TypeOK
  <2>3. OpensWhatWasAsked'
    BY <1>1, FoundIsWanted DEF Begin, OpensWhatWasAsked
  <2> QED BY <1>1, <2>2, <2>3 DEF Begin, CursorOnHeader, ZeroOnlyAtEnd
<1>2. ASSUME NEW k \in DOMAIN ar.items, NextOf(k) PROVE WalkInv'
  <2> DEFINE o == Adjust(NextOffset(k))
  <2>1. ar' = ar /\ want' = k + 1 /\ want' \in 1..Len(ar.items) + 1 /\ open' = open /\ last' = <<"none">>
    BY <1>0, <1>2 DEF NextOf
  <2>2. o = Start(ar)[want']
    BY <2>1, NextIsStart
  <2>3. o \in Nat /\ o % 2 = 0
    BY <1>0, <2>1, <2>2, StartEven
  <2>4. next' = IF IsLast(o) THEN 0 ELSE o
    BY <1>2 DEF NextOf
  <2>5. next' = 0 => want' = Len(ar.items) + 1 \/ ~ HasHeader(ar, want')
    <3> SUFFICES ASSUME next' = 0 PROVE ~ HasHeader(ar, want')
      OBVIOUS
    <3>1. o >= RawSize(ar) \/ o = 0
      BY <2>4 DEF IsLast
    <3>2. o >= Magic
      BY <1>0, <2>1, <2>2, StartEven
    <3>3. o >= RawSize(ar) /\ RawSize(ar) \in Int
      <4> HIDE DEF o
      <4> QED BY <1>0, <3>1, <3>2, <2>3, RawSizeBound, EvenAssumption
    <3> HIDE DEF o
    <3>4. ~ Start(ar)[want'] + HdrSize <= RawSize(ar)
      BY <2>2, <2>3, <3>3, EvenAssumption
    <3> QED BY <3>4 DEF HasHeader
  <2> HIDE DEF o
  <2>6. TypeOK'
    BY <2>1, <2>3, <2>4 DEF TypeOK
  <2>7. CursorOnHeader'
    BY <2>1, <2>2, <2>3, <2>4 DEF CursorOnHeader
  <2> QED BY <2>1, <2>5, <2>6, <2>7 DEF OpensWhatWasAsked, ZeroOnlyAtEnd
<1>3. ASSUME NEW k \in DOMAIN ar.items, End(k) PROVE WalkInv'
  BY <1>3 DEF End, TypeOK, CursorOnHeader, OpensWhatWasAsked, ZeroOnlyAtEnd
<1>4. ASSUME NEW k \in DOMAIN ar.items, Rand(Start(ar)[k]) PROVE WalkInv'
  <2>1. ar' = ar /\ open' = open /\ last' = <<"none">> /\ next' = Start(ar)[k]
    BY <1>4 DEF Rand
  <2>2. want' \in ItemAt(next')
    BY <1>4 DEF Rand, RandOk
  <2>3. want' \in DOMAIN ar.items /\ Start(ar)[want'] = next'
    BY <2>1, <2>2 DEF ItemAt
  <2>4. next' \in Nat /\ next' % 2 = 0 /\ next' # 0
    BY <1>0, <2>3, StartEven, EvenAssumption
  <2> QED BY <1>0, <2>1, <2>3, <2>4 DEF TypeOK, CursorOnHeader, OpensWhatWasAsked, ZeroOnlyAtEnd
<1>5. CASE UNCHANGED vars
  BY <1>5 DEF vars, TypeOK, CursorOnHeader, OpensWhatWasAsked, ZeroOnlyAtEnd, HasHeader
<1> QED BY <1>1, <1>2, <1>3, <1>4, <1>5 DEF Next

\* Whatever an application calls in whatever order, the cursor and the descriptors
\* that are open keep what WalkInv says of them.
THEOREM WalkInvariant == Spec => []WalkInv
<1> QED BY InitWalk, StepWalk, PTL DEF Spec

\* elf_begin gives what the last elf_next or elf_rand asked for, or nothing, in
\* whatever order an application uses the members it has open.
THEOREM OpensAlwaysWhatWasAsked == Spec => []OpensWhatWasAsked
<1>1. WalkInv => OpensWhatWasAsked
  BY DEF WalkInv
<1> QED BY <1>1, WalkInvariant, PTL

\* The cursor is always at the header of an item, or 0 past the last.
THEOREM CursorAlwaysOnHeader == Spec => [](CursorOnHeader /\ ZeroOnlyAtEnd)
<1>1. WalkInv => CursorOnHeader /\ ZeroOnlyAtEnd
  BY DEF WalkInv
<1> QED BY <1>1, WalkInvariant, PTL

----------------------------------------------------------------------------
\* The invariant of the loop: it has processed the members from the first on
\* without a gap, the descriptor it is at is the last of them and open, and the
\* cursor is behind them; at 0, and when the loop is done, none is left.
LoopNum == Len(ar.items) + 1 - FirstItem(ar)
LoopInv ==
    /\ WalkInv
    /\ pc \in {"free", "begin", "next", "end", "done"}
    /\ FirstItem(ar) \in 1..Len(ar.items) + 1
    /\ pc # "free" =>
          /\ IsSound(ar)
          /\ seen \in Seq(Nat) /\ Len(seen) <= LoopNum
          /\ \A k \in 1..Len(seen) : seen[k] = FirstItem(ar) + k - 1
    /\ pc \in {"next", "end"} => /\ cur \in open
                                 /\ Len(seen) > 0 /\ cur = FirstItem(ar) + Len(seen) - 1
    /\ pc \in {"begin", "end"} =>
          /\ next # 0 => want = FirstItem(ar) + Len(seen)
          /\ next = 0 => Len(seen) = LoopNum
    /\ pc = "done" => Len(seen) = LoopNum

\* The loop starts on the first member.
LEMMA InitLoop == LoopInit => LoopInv
<1> SUFFICES ASSUME LoopInit PROVE LoopInv
  OBVIOUS
<1>1. WalkInv
  BY InitWalk DEF LoopInit
<1>2. ar \in Archives /\ FirstItem(ar) \in 1..Len(ar.items) + 1
  BY FirstItemInRange DEF LoopInit, Init
<1>3. next # 0
  BY <1>2, StartEven, EvenAssumption DEF LoopInit, Init
<1>4. Len(ar.items) \in Nat
  BY <1>2, ItemTypes
<1>5. want = FirstItem(ar) + 0
  BY <1>2, <1>4 DEF LoopInit, Init
<1> QED BY <1>1, <1>2, <1>3, <1>4, <1>5 DEF LoopInit, LoopInv, LoopNum

\* A sound archive holds every member to its last byte.
LEMMA SoundHolds ==
    ASSUME NEW a \in Archives, a.cut = 0, NEW k \in 1..Len(a.items)
    PROVE  Start(a)[k] + HdrSize + a.items[k].sz <= RawSize(a)
<1> DEFINE n == Len(a.items)
           s == Start(a)[k]
           after == Start(a)[k + 1]
           end == Start(a)[n + 1]
           sz == a.items[k].sz
           odd == IF n = 0 \/ a.padded THEN 0 ELSE a.items[n].sz % 2
<1> SUFFICES s + HdrSize + sz <= RawSize(a)
  OBVIOUS
<1>1. n \in Nat /\ k \in 1..n + 1 /\ k + 1 \in 1..n + 1 /\ n + 1 \in 1..n + 1
  BY ItemTypes
<1>2. s \in Nat /\ after \in Nat /\ end \in Nat /\ sz \in Nat
  BY <1>1, StartEven, ItemTypes
<1>3. after = s + HdrSize + Adjust(sz)
  BY StartDef
<1>4. odd \in {0, 1} /\ (k = n => odd \in {0, sz % 2})
  <2>1. a.items[n].sz \in Nat
    BY <1>1, ItemTypes
  <2> QED BY <1>2, <2>1
<1>5. RawSize(a) = end - odd
  <2>1. RawSize(a) = end - odd - 0
    BY DEF RawSize
  <2> HIDE DEF odd, end
  <2> QED BY <2>1, <1>2, <1>4
<1>6. CASE k = n
  <2>1. end = after
    BY <1>6
  <2> HIDE DEF odd, after, s, end, sz
  <2> QED BY <1>2, <1>3, <1>4, <1>5, <1>6, <2>1, EvenAssumption DEF Adjust
<1>7. CASE k # n
  <2>1. after + HdrSize <= end
    BY <1>1, <1>7, StartIncreases
  <2> HIDE DEF odd, after, s, end, sz
  <2>2. sz <= Adjust(sz) /\ Adjust(sz) \in Nat /\ HdrSize >= 1
    <3>1. HdrSize \in Nat /\ HdrSize >= 1
      BY EvenAssumption
    <3>2. Adjust(sz) \in Nat /\ Adjust(sz) \in {sz, sz + 1}
      BY <1>2, AdjustEven
    <3> QED BY <1>2, <3>1, <3>2
  <2> QED BY <1>2, <1>3, <1>4, <1>5, <2>1, <2>2, EvenAssumption
<1> QED BY <1>6, <1>7

\* In a sound archive there is a header wherever the cursor is.
LEMMA SoundHasHeader ==
    ASSUME NEW a \in Archives, a.cut = 0, NEW k \in 1..Len(a.items)
    PROVE  HasHeader(a, k)
<1>1. Start(a)[k] \in Nat /\ a.items[k].sz \in Nat /\ RawSize(a) \in Int /\ Len(a.items) \in Nat
  BY StartEven, ItemTypes, RawSizeBound
<1>2. Start(a)[k] + HdrSize <= RawSize(a)
  BY <1>1, SoundHolds, EvenAssumption
<1> QED BY <1>1, <1>2 DEF HasHeader

\* In a sound archive everything behind the items _libelf_ar_open skips is a member,
\* and nothing before.
LEMMA SoundMembers ==
    ASSUME NEW a \in Archives, IsSound(a), FirstItem(a) \in 1..Len(a.items) + 1
    PROVE  \A k \in 1..Len(a.items) : a.items[k].name = "file" <=> k > FirstItem(a) - 1
<1> DEFINE n == Len(a.items)
           f == FirstItem(a)
           name(k) == a.items[k].name
<1>1. n \in Nat /\ DOMAIN a.items = 1..n /\ \A k \in 1..n : name(k) \in {"sym", "str", "bsdsym", "file"}
  BY ItemTypes DEF Item
<1>2. \A k \in 1..n : name(k) # "file" => k = 1 \/ (k = 2 /\ name(2) = "str" /\ name(1) = "sym")
  BY <1>1 DEF IsSound
<1>3. f \in {1, 2, 3} /\ HasHeader(a, 1)
  BY <1>1 DEF FirstItem
<1>4. 1 \in 1..n
  BY <1>1, <1>3 DEF HasHeader
<1>5. /\ f = 1 => name(1) = "file"
      /\ f = 2 => name(1) # "file" /\ (2 \in 1..n => name(2) = "file")
      /\ f = 3 => name(1) = "sym" /\ name(2) = "str"
  <2>1. CASE name(1) = "sym"
    <3>1. HasHeader(a, 2)
      BY <1>3, <2>1 DEF FirstItem
    <3>2. f = IF name(2) = "str" THEN 3 ELSE 2
      BY <1>3, <2>1, <3>1 DEF FirstItem
    <3>3. 2 \in 1..n => name(2) = "str" \/ name(2) = "file"
      BY <1>2
    <3> QED BY <2>1, <3>2, <3>3
  <2>2. CASE name(1) \in {"str", "bsdsym"}
    <3>1. f = 2
      BY <1>3, <2>2 DEF FirstItem
    <3>2. 2 \in 1..n => name(2) = "file"
      BY <1>2, <2>2
    <3> QED BY <2>2, <3>1, <3>2
  <2>3. CASE name(1) = "file"
    <3>1. f = 1
      BY <1>3, <2>3 DEF FirstItem
    <3> QED BY <2>3, <3>1
  <2> QED BY <1>1, <1>4, <2>1, <2>2, <2>3
<1>6. ASSUME NEW k \in 1..n PROVE name(k) = "file" <=> k > f - 1
  <2>1. k \in Nat /\ k >= 1 /\ f \in Nat
    BY <1>1, <1>3
  <2>2. CASE k = 1
    BY <1>3, <1>5, <2>2
  <2>3. CASE k = 2
    BY <1>2, <1>3, <1>5, <1>6, <2>3
  <2>4. CASE k > 2
    <3>1. name(k) = "file"
      BY <1>2, <2>1, <2>4
    <3> QED BY <1>3, <2>1, <2>4, <3>1
  <2> HIDE DEF f, name, n
  <2> QED BY <2>1, <2>2, <2>3, <2>4
<1> QED BY <1>6

\* In a sound archive elf_begin opens the member the cursor is at: an error can
\* only mean that there is none.
LEMMA SoundIsFound ==
    ASSUME WalkInv, IsSound(ar), next # 0, want \in FirstItem(ar)..Len(ar.items),
           FirstItem(ar) \in 1..Len(ar.items) + 1
    PROVE  Found = <<"item", want>>
<1> DEFINE n == Len(ar.items)
           at == ItemAt(next)
           k == CHOOSE k \in at : TRUE
           sz == ar.items[want].sz
<1>1. /\ ar \in Archives /\ n \in Nat /\ want \in 1..n /\ want \in 1..n + 1 /\ DOMAIN ar.items = 1..n
      /\ ar.cut = 0
  BY ItemTypes DEF WalkInv, TypeOK, IsSound
<1>2. next = Start(ar)[want]
  BY DEF WalkInv, CursorOnHeader
<1>3. want \in at
  BY <1>1, <1>2 DEF ItemAt
<1>4. k \in at
  BY <1>3
<1>5. k = want
  <2>1. k \in 1..n + 1 /\ Start(ar)[k] = Start(ar)[want]
    BY <1>1, <1>2, <1>4 DEF ItemAt
  <2> HIDE DEF k
  <2> QED BY <1>1, <2>1, StartInjective
<1>6. sz \in Nat /\ next \in Nat /\ RawSize(ar) \in Int
  BY <1>1, <1>2, ItemTypes, StartEven, RawSizeBound
<1>7. ~ next + HdrSize + sz > RawSize(ar)
  <2>1. next + HdrSize + sz <= RawSize(ar)
    BY <1>1, <1>2, SoundHolds
  <2> HIDE DEF sz
  <2> QED BY <1>6, <2>1, EvenAssumption
<1>8. HasHeader(ar, want)
  BY <1>1, SoundHasHeader
<1>9. RawLen(ar, want) # 0 /\ ar.items[want].ok
  <2>1. ar.items[want].nsz < sz /\ ar.items[want].ok
    <3>1. FirstItem(ar) \in Nat
      BY <1>1
    <3>2. ar.items[want].name = "file"
      BY <1>1, <3>1, SoundMembers
    <3> QED BY <1>1, <3>2 DEF IsSound
  <2>2. ar.items[want].nsz \in Nat
    BY <1>1, ItemTypes
  <2> QED BY <2>1, <2>2, <1>6 DEF RawLen
<1> QED BY <1>3, <1>5, <1>7, <1>8, <1>9 DEF Found

\* No step of the loop, and no call of an application that calls as it likes,
\* breaks the invariant.
LEMMA StepLoop == LoopInv /\ [FreeCall \/ LoopBegin \/ LoopNext \/ LoopEnd]_loopvars => LoopInv'
<1> SUFFICES ASSUME LoopInv, [FreeCall \/ LoopBegin \/ LoopNext \/ LoopEnd]_loopvars
             PROVE  LoopInv'
  OBVIOUS
<1> DEFINE n == Len(ar.items)
           f == FirstItem(ar)
<1>0. /\ WalkInv /\ ar \in Archives /\ n \in Nat /\ f \in 1..n + 1 /\ LoopNum \in Nat
      /\ DOMAIN ar.items = 1..n /\ TypeOK
  BY ItemTypes DEF LoopInv, LoopNum, WalkInv, TypeOK
<1>1. CASE FreeCall
  <2>1. WalkInv'
    BY <1>0, <1>1, StepWalk DEF FreeCall
  <2>2. ar' = ar
    BY <1>1 DEF FreeCall, Next, Begin, NextOf, End, Rand
  <2> QED BY <1>1, <2>1, <2>2 DEF FreeCall, LoopInv
<1>2. CASE LoopBegin
  <2>1. WalkInv'
    BY <1>0, <1>2, StepWalk DEF LoopBegin, Next
  <2>2. ar' = ar /\ next' = next /\ want' = want /\ pc = "begin" /\ last' = Found
    BY <1>2 DEF LoopBegin, Begin
  <2>3. CASE Found[1] = "item"
    <3>1. Found = <<"item", want>> /\ want \in 1..n /\ next # 0
      BY <2>3, <1>0, FoundIsWanted DEF WalkInv, Found
    <3>2. pc' = "next" /\ cur' = want /\ seen' = Append(seen, want) /\ cur' \in open'
      BY <1>2, <2>2, <3>1 DEF LoopBegin, Begin
    <3>3. want = f + Len(seen) /\ seen \in Seq(Nat) /\ IsSound(ar)
      BY <2>2, <3>1 DEF LoopInv
    <3>4. seen' \in Seq(Nat) /\ Len(seen') = Len(seen) + 1 /\ Len(seen) \in Nat
      BY <3>2, <3>3, <3>1, <1>0
    <3>5. Len(seen') <= LoopNum
      BY <3>1, <3>3, <3>4, <1>0 DEF LoopNum
    <3>6. \A k \in 1..Len(seen') : seen'[k] = f + k - 1
      <4> SUFFICES ASSUME NEW k \in 1..Len(seen') PROVE seen'[k] = f + k - 1
        OBVIOUS
      <4>1. CASE k = Len(seen) + 1
        BY <4>1, <3>2, <3>3, <3>4, <1>0
      <4>2. CASE k \in 1..Len(seen)
        <5>1. seen[k] = f + k - 1
          BY <4>2, <2>2 DEF LoopInv
        <5> QED BY <5>1, <4>2, <3>2, <3>3, <3>4
      <4> QED BY <4>1, <4>2, <3>4
    <3>7. cur' = f + Len(seen') - 1 /\ Len(seen') > 0
      BY <3>2, <3>3, <3>4, <1>0
    <3> QED BY <2>1, <2>2, <3>2, <3>3, <3>4, <3>5, <3>6, <3>7, <1>0 DEF LoopInv, LoopNum
  <2>4. CASE Found[1] # "item"
    <3>1. pc' = "done" /\ cur' = cur /\ seen' = seen
      BY <1>2, <2>2, <2>4 DEF LoopBegin
    <3>2. IsSound(ar) /\ Len(seen) <= LoopNum /\ Len(seen) \in Nat
      BY <2>2 DEF LoopInv
    <3>3. Len(seen) = LoopNum
      <4>1. CASE next = 0
        BY <4>1, <2>2 DEF LoopInv
      <4>2. CASE next # 0
        <5>1. want = f + Len(seen) /\ want \in 1..n + 1
          BY <4>2, <2>2, <1>0 DEF LoopInv, TypeOK
        <5>2. want \notin f..n
          BY <4>2, <2>4, <3>2, <1>0, SoundIsFound
        <5> QED BY <5>1, <5>2, <3>2, <1>0 DEF LoopNum
      <4> QED BY <4>1, <4>2
    <3> QED BY <2>1, <2>2, <3>1, <3>3, <1>0 DEF LoopInv, LoopNum
  <2> QED BY <2>3, <2>4
<1>3. CASE LoopNext
  <2>1. pc = "next" /\ pc' = "end" /\ NextOf(cur) /\ UNCHANGED <<cur, seen, ar, open>> /\ cur \in open
    BY <1>3 DEF LoopNext, NextOf
  <2>2. cur \in DOMAIN ar.items
    BY <2>1, <1>0 DEF TypeOK
  <2>3. WalkInv'
    BY <1>0, <2>1, <2>2, StepWalk DEF Next
  <2>4. cur = f + Len(seen) - 1 /\ Len(seen) \in Nat /\ want' = cur + 1
    BY <2>1 DEF LoopInv, NextOf
  <2>5. next' = 0 => Len(seen) = LoopNum
    <3>1. SUFFICES ASSUME next' = 0 PROVE cur = n
      BY <2>4, <1>0 DEF LoopNum
    <3>2. SUFFICES ASSUME cur # n PROVE FALSE
      OBVIOUS
    <3>3. want' \in f..n
      BY <3>2, <2>4, <2>2, <1>0
    <3>4. ~ HasHeader(ar, want')
      BY <3>1, <3>3, <2>3, <2>1, <1>0 DEF WalkInv, ZeroOnlyAtEnd
    <3>5. HasHeader(ar, want')
      <4>1. want' \in 1..n /\ ar.cut = 0
        BY <3>3, <2>1, <1>0 DEF LoopInv, IsSound
      <4> QED BY <4>1, <1>0, SoundHasHeader
    <3> QED BY <3>4, <3>5
  <2>6. want' = f + Len(seen)
    BY <2>4, <1>0
  <2> QED BY <2>1, <2>3, <2>4, <2>5, <2>6 DEF LoopInv, LoopNum
<1>4. CASE LoopEnd
  <2>1. cur \in DOMAIN ar.items
    BY <1>4, <1>0 DEF LoopEnd, End, TypeOK
  <2>2. WalkInv'
    BY <1>0, <1>4, <2>1, StepWalk DEF LoopEnd, Next
  <2> QED BY <1>4, <2>2 DEF LoopEnd, End, LoopInv, LoopNum
<1>5. CASE UNCHANGED loopvars
  <2>1. WalkInv'
    BY <1>0, <1>5, StepWalk DEF loopvars
  <2> QED BY <1>5, <2>1 DEF loopvars, vars, LoopInv, LoopNum
<1> QED BY <1>1, <1>2, <1>3, <1>4, <1>5

\* At each step of the documented loop the members seen so far are the first of the
\* archive, in their order, and the cursor is on the one after them.
THEOREM LoopInvariant == LoopSpec => []LoopInv
<1> QED BY InitLoop, StepLoop, PTL DEF LoopSpec

----------------------------------------------------------------------------
\* The members of ArScan are the items from the first member on.
LEMMA MembersAre ==
    ASSUME ar \in Archives, IsSound(ar), FirstItem(ar) \in 1..Len(ar.items) + 1
    PROVE  /\ Members \in Seq(Nat) /\ Len(Members) = LoopNum /\ LoopNum \in Nat
           /\ \A k \in 1..LoopNum : Members[k] = FirstItem(ar) + k - 1
<1> DEFINE n == Len(ar.items)
           f == FirstItem(ar) - 1
           IsHead(h) == \A k \in 1..n : ar.items[k].name = "file" <=> k > h
           head == CHOOSE h \in 0..n : IsHead(h)
<1>1. n \in Nat /\ LoopNum \in Nat /\ f \in 0..n /\ LoopNum = n - f
  BY ItemTypes DEF LoopNum
<1>2. IsHead(f)
  BY SoundMembers
<1>3. head \in 0..n /\ IsHead(head)
  BY <1>1, <1>2
<1>4. head = f
  <2> HIDE DEF head, f
  <2>1. head < f => FALSE
    <3> SUFFICES ASSUME head < f PROVE FALSE
      OBVIOUS
    <3>1. f \in 1..n
      BY <1>1, <1>3
    <3> QED BY <3>1, <1>1, <1>2, <1>3
  <2>2. f < head => FALSE
    <3> SUFFICES ASSUME f < head PROVE FALSE
      OBVIOUS
    <3>1. head \in 1..n
      BY <1>1, <1>3
    <3> QED BY <3>1, <1>1, <1>2, <1>3
  <2> QED BY <1>1, <1>3, <2>1, <2>2
<1>5. Members = [k \in 1..n - head |-> head + k]
  BY DEF Members
<1>6. Members = [k \in 1..LoopNum |-> f + k]
  <2> HIDE DEF head, f, n
  <2> QED BY <1>1, <1>4, <1>5
<1>7. \A k \in 1..LoopNum : f + k \in Nat /\ f + k = FirstItem(ar) + k - 1
  BY <1>1
<1> HIDE DEF LoopNum, Members, f
<1>8. Members \in Seq(Nat) /\ Len(Members) = LoopNum
  BY <1>1, <1>6, <1>7
<1> QED BY <1>1, <1>6, <1>7, <1>8

\* The part of ArScan's state that the loop has as its own variables is seen; the
\* rest of the members are what it has still to do.
Todo == IF pc = "free" THEN <<>> ELSE SubSeq(Members, Len(seen) + 1, Len(Members))
Done == pc \in {"done", "free"}

\* The documented loop over an archive visits its members in the order of the
\* file, each once, and is done only when none is left.
THEOREM LoopVisitsInOrder == LoopSpec => Scan!Walk
<1>1. LoopInit => Scan!Init
  <2> SUFFICES ASSUME LoopInit PROVE Scan!Init
    OBVIOUS
  <2>1. LoopInv /\ ar \in Archives
    BY InitLoop DEF LoopInit, Init
  <2>3. seen = <<>> /\ pc \in {"free", "begin"}
    BY DEF LoopInit
  <2>2. pc # "free" => Members \in Seq(Nat) /\ Len(Members) \in Nat
    BY <2>1, MembersAre DEF LoopInv
  <2>4. Todo \in Seq(Nat)
    BY <2>2, <2>3 DEF Todo
  <2> QED BY <2>3, <2>4 DEF Scan!Init, Todo
<1>2. LoopInv /\ [FreeCall \/ LoopBegin \/ LoopNext \/ LoopEnd]_loopvars
      => [Scan!Visit \/ Scan!Finish]_<<Todo, seen, Done>>
  <2> SUFFICES ASSUME LoopInv, [FreeCall \/ LoopBegin \/ LoopNext \/ LoopEnd]_loopvars
               PROVE  [Scan!Visit \/ Scan!Finish]_<<Todo, seen, Done>>
    OBVIOUS
  <2>0. pc # "free" =>
           /\ ar \in Archives /\ Members \in Seq(Nat) /\ Len(Members) = LoopNum /\ LoopNum \in Nat
           /\ \A k \in 1..LoopNum : Members[k] = FirstItem(ar) + k - 1
    BY MembersAre DEF LoopInv, WalkInv, TypeOK
  <2>1. CASE UNCHANGED <<ar, seen, pc>>
    BY <2>1 DEF Todo, Done, Members, FirstItem, HasHeader, RawSize, Start, Adjust
  <2>2. CASE LoopBegin
    <3>0. /\ ar \in Archives /\ Members \in Seq(Nat) /\ Len(Members) = LoopNum /\ LoopNum \in Nat
          /\ \A k \in 1..LoopNum : Members[k] = FirstItem(ar) + k - 1
      BY <2>0, <2>2 DEF LoopBegin
    <3>1. ar' = ar /\ pc = "begin" /\ Members' = Members
      BY <2>2 DEF LoopBegin, Begin, Members, FirstItem, HasHeader, RawSize, Start, Adjust
    <3>2. Len(seen) \in Nat /\ Len(seen) <= LoopNum /\ seen \in Seq(Nat)
      BY <3>1 DEF LoopInv
    <3>3. CASE Found[1] = "item"
      <4>1. Found = <<"item", want>> /\ want \in DOMAIN ar.items /\ next # 0
        BY <3>3, FoundIsWanted DEF LoopInv, WalkInv, Found
      <4>2. want = FirstItem(ar) + Len(seen) /\ want <= Len(ar.items)
        BY <4>1, <3>1, <3>0, ItemTypes DEF LoopInv
      <4>3. pc' = "next" /\ seen' = Append(seen, want)
        BY <2>2, <4>1 DEF LoopBegin, Begin
      <4>4. Len(seen) + 1 \in 1..LoopNum /\ Len(seen') = Len(seen) + 1
        BY <4>2, <4>3, <3>2, <3>0, ItemTypes DEF LoopInv, LoopNum
      <4>5. Todo # <<>> /\ Head(Todo) = want /\ Tail(Todo) = SubSeq(Members, Len(seen) + 2, Len(Members))
        <5>1. Todo = SubSeq(Members, Len(seen) + 1, Len(Members))
          BY <3>1 DEF Todo
        <5>2. Len(seen) + 1 \in 1..Len(Members) /\ Len(Members) \in Len(seen) + 1..Len(Members)
          BY <4>4, <3>0
        <5>3. Head(Todo) = Members[Len(seen) + 1] /\ Tail(Todo) = SubSeq(Members, Len(seen) + 2, Len(Members))
          <6> DEFINE m == Len(seen) + 1
                     l == Len(Members)
          <6>1. m \in 1..Len(Members) /\ l \in m..Len(Members) /\ Members \in Seq(Nat) /\ Todo = SubSeq(Members, m, l)
            BY <5>1, <5>2, <3>0
          <6>2. m + 1 = Len(seen) + 2
            BY <3>2
          <6> HIDE DEF m, l
          <6>3. Head(Todo) = Members[m] /\ Tail(Todo) = SubSeq(Members, m + 1, l)
            BY <6>1, HeadTailOfSubSeq
          <6> QED BY <6>2, <6>3 DEF m, l
        <5>4. Len(Todo) > 0
          BY <5>1, <5>2, <3>2, <3>0
        <5>5. Members[Len(seen) + 1] = want
          BY <4>2, <4>4, <3>2, <3>0, ItemTypes DEF LoopInv
        <5> QED BY <5>3, <5>4, <5>5
      <4>6. Todo' = Tail(Todo)
        BY <4>3, <4>4, <4>5, <3>1, <3>2, SMTT(60) DEF Todo
      <4>7. Done' = Done
        BY <3>1, <4>3 DEF Done
      <4> QED BY <4>3, <4>5, <4>6, <4>7 DEF Scan!Visit, Todo, Done
    <3>4. CASE Found[1] # "item"
      <4>1. pc' = "done" /\ seen' = seen
        BY <2>2, <3>4 DEF LoopBegin, Begin
      <4>2. Len(seen) = LoopNum
        <5>1. LoopInv'
          BY StepLoop
        <5>2. LoopNum' = LoopNum
          BY <3>1 DEF LoopNum, FirstItem, HasHeader, RawSize, Start, Adjust
        <5> QED BY <4>1, <5>1, <5>2 DEF LoopInv
      <4>3. Todo = <<>> /\ Todo' = <<>>
        BY <4>1, <4>2, <3>1, <3>0 DEF Todo
      <4>4. ~ Done /\ Done'
        BY <3>1, <4>1 DEF Done
      <4> QED BY <4>1, <4>3, <4>4 DEF Scan!Finish, Todo, Done
    <3> QED BY <3>3, <3>4
  <2>3. CASE LoopNext \/ LoopEnd
    <3>1. ar' = ar /\ seen' = seen /\ pc \in {"next", "end"} /\ pc' \in {"begin", "end"}
      BY <2>3 DEF LoopNext, NextOf, LoopEnd, End
    <3>2. Members' = Members
      BY <3>1 DEF Members, FirstItem, HasHeader, RawSize, Start, Adjust
    <3> QED BY <3>1, <3>2 DEF Todo, Done
  <2>4. CASE FreeCall
    <3>1. ar' = ar /\ UNCHANGED <<seen, pc>>
      BY <2>4 DEF FreeCall, Next, Begin, NextOf, End, Rand
    <3> QED BY <3>1, <2>1
  <2>5. CASE UNCHANGED loopvars
    BY <2>1, <2>5 DEF loopvars, vars
  <2> QED BY <2>2, <2>3, <2>4, <2>5
<1> QED BY <1>1, <1>2, LoopInvariant, PTL DEF LoopSpec, Scan!Walk, Todo, Done

----------------------------------------------------------------------------
(* Objects. *)

\* A descriptor without a header in memory has read nothing else.
HeaderFirst(d) == ~d.hdr => d.scns = <<>> /\ d.ph = NoTab

\* The list of sections starts with section 0 and goes up; the others are counted.
Ascending(d) ==
    /\ d.scns # <<>> => d.scns[1] = 0
    /\ \A j, k \in DOMAIN d.scns : j < k => d.scns[j] < d.scns[k]
    /\ \A j \in DOMAIN d.scns : j > 1 => d.scns[j] < d.nscn

TableFits(d) == d.ph # NoTab => d.ph = d.nphdr

\* What the mapping, once undone, will not be needed for.
AllInMemory(d) == d.hdr /\ (d.ph = NoTab => d.nphdr = 0)

RawKnown(d) ==
    /\ d.raw = "none" <=> d.cmd = "WRITE"
    /\ d.raw \in {"unmapped", "failed"} => AllInMemory(d) /\ d.loaded

DescOK(d) ==
    d \in Descriptor /\ HeaderFirst(d) /\ Ascending(d) /\ TableFits(d) /\ RawKnown(d)

\* Every section that is counted is in the list.
Ready(d) == d.loaded \/ d.cmd = "WRITE"
FullList(d) == Len(d.scns) = d.nscn /\ \A j \in DOMAIN d.scns : d.scns[j] = j - 1

CountsKnown == img.fault \in {"none", "phtab"} /\ ~Extended(img)

\* Until a commit has forgotten what was read.
Unforgotten(d) ==
    /\ d.loaded => d.hdr
    /\ Ready(d) /\ d.nscn > 0 => FullList(d)
    /\ d.hdr /\ d.cmd # "WRITE" /\ CountsKnown => d.nscn >= img.nsh
    /\ d.cmd = "WRITE" => img.fault = "empty"

Good(d) == DescOK(d) /\ (commits = 0 => Unforgotten(d))

\* What the commit works on is in memory, and what it wrote is on the disk.
Committing ==
    step # "idle" =>
        /\ stop = "no" /\ e.cmd # "READ" /\ AllInMemory(e) /\ Ready(e)
        /\ step = "unmapped" => e.raw = "unmapped"
        /\ step = "written" => disk = Written(e) /\ e.raw \in {"unmapped", "copy", "none"}

ObjectInv == ObjectTypeOK /\ Good(e) /\ Committing /\ stop # "listed"

\* A call that starts from a descriptor leaves it in order, and what it works on
\* the same.
Stops == {"no", "single", "nophdr", "counted", "uncounted", "stray"}
Result(d, r) ==
    /\ Good(r.d) /\ r.d.cmd = d.cmd /\ r.d.raw = d.raw
    /\ r = [d |-> r.d, ok |-> r.ok, stop |-> r.stop] /\ r.stop \in Stops /\ r.ok \in BOOLEAN
    /\ r.ok => r.stop = "no"

----------------------------------------------------------------------------
(* The helpers. *)

\* The fields of a descriptor.
LEMMA Fields ==
  ASSUME NEW d \in Descriptor
  PROVE  /\ d.cmd \in {"READ", "RDWR", "WRITE"} /\ d.class \in BOOLEAN /\ d.hdr \in BOOLEAN
         /\ d.shnum \in Nat /\ d.xstr \in BOOLEAN /\ d.ph \in Nat \cup {NoTab} /\ d.nscn \in Nat
         /\ d.nphdr \in Nat /\ d.scns \in Seq(Nat) /\ d.loaded \in BOOLEAN
         /\ d.raw \in {"mapped", "copy", "unmapped", "failed", "none"}
  BY DEF Descriptor

\* A descriptor with other sections, counts or tables is a descriptor.
LEMMA Rebuilt ==
  ASSUME NEW d \in Descriptor, NEW c \in BOOLEAN, NEW h \in BOOLEAN, NEW sh \in Nat,
         NEW x \in BOOLEAN, NEW p \in Nat \cup {NoTab}, NEW n \in Nat, NEW m \in Nat,
         NEW s \in Seq(Nat), NEW l \in BOOLEAN
  PROVE  [d EXCEPT !.class = c, !.hdr = h, !.shnum = sh, !.xstr = x, !.ph = p, !.nscn = n,
                   !.nphdr = m, !.scns = s, !.loaded = l] \in Descriptor
  BY DEF Descriptor

\* What a file holds.
LEMMA ImageFields ==
  ASSUME NEW i \in Image
  PROVE  i.nsh \in Nat /\ i.nph \in Nat /\ i.xstr \in BOOLEAN /\ i.rows \in SUBSET Nat
  BY DEF Image

\* The class, the section count of the header and its string table index matter to
\* nothing else.
LEMMA SameTables ==
  ASSUME NEW d, Good(d), NEW f \in Descriptor, f.cmd = d.cmd, f.raw = d.raw, f.hdr = d.hdr,
         f.loaded = d.loaded, f.scns = d.scns, f.nscn = d.nscn, f.ph = d.ph, f.nphdr = d.nphdr
  PROVE  Good(f)
<1>1. HeaderFirst(f) /\ Ascending(f) /\ TableFits(f)
  BY DEF Good, DescOK, HeaderFirst, Ascending, TableFits
<1>2. RawKnown(f)
  BY DEF Good, DescOK, RawKnown, AllInMemory
<1>3. commits = 0 => Unforgotten(f)
  BY DEF Good, Unforgotten, Ready, FullList
<1> QED BY <1>1, <1>2, <1>3 DEF Good, DescOK

\* What follows a call that succeeded.
LEMMA OkIs == ASSUME NEW d PROVE Ok(d).d = d /\ Ok(d).ok = TRUE /\ Ok(d).stop = "no"
  BY DEF Ok

LEMMA FailIs == ASSUME NEW d PROVE Fail(d).d = d /\ Fail(d).ok = FALSE /\ Fail(d).stop = "no"
  BY DEF Fail

\* A call that returns a descriptor in order.
LEMMA Returns ==
  ASSUME NEW d, NEW f, Good(f), f.cmd = d.cmd, f.raw = d.raw
  PROVE  Result(d, Ok(f)) /\ Result(d, Fail(f))
<1>1. Ok(f) = [d |-> f, ok |-> TRUE, stop |-> "no"] /\ Fail(f) = [d |-> f, ok |-> FALSE, stop |-> "no"]
  BY DEF Ok, Fail
<1> QED BY <1>1 DEF Result, Stops

\* A call that stops at an assertion.
LEMMA Aborts ==
  ASSUME NEW d, Good(d), NEW why \in Stops PROVE Result(d, Abort(d, why))
  BY DEF Abort, Result

\* A descriptor with its header.
LEMMA ReturnsHeader ==
  ASSUME NEW d, NEW f, Good(f), f.cmd = d.cmd, f.raw = d.raw, f.loaded = d.loaded, f.hdr,
         NEW r \in {Ok(f), Fail(f)}
  PROVE  Result(d, r) /\ (r.ok => r.d.hdr) /\ (d.hdr => r.d.hdr) /\ r.d.loaded = d.loaded
<1>1. Result(d, r)
  BY Returns
<1>2. r.d = f
  BY OkIs, FailIs
<1> QED BY <1>1, <1>2

\* The class of a descriptor becomes known.
LEMMA ClassKnown ==
  ASSUME NEW d, Good(d)
  PROVE  LET c == [d EXCEPT !.class = TRUE]
         IN  Good(c) /\ c.hdr = d.hdr /\ c.cmd = d.cmd /\ c.raw = d.raw /\ c.loaded = d.loaded
<1> DEFINE c == [d EXCEPT !.class = TRUE]
<1>1. d \in Descriptor
  BY DEF Good, DescOK
<1>2. /\ c \in Descriptor /\ c.cmd = d.cmd /\ c.raw = d.raw /\ c.hdr = d.hdr
      /\ c.loaded = d.loaded /\ c.scns = d.scns /\ c.nscn = d.nscn /\ c.ph = d.ph
      /\ c.nphdr = d.nphdr
  BY <1>1 DEF Descriptor
<1> HIDE DEF c
<1>3. Good(c)
  BY <1>2, SameTables
<1> QED BY <1>2, <1>3 DEF c

\* The header comes into memory, perhaps with section 0, which holds its counts.
LEMMA HeaderComes ==
  ASSUME NEW d, Good(d), ~d.hdr, NEW f \in Descriptor, f.hdr, f.cmd = d.cmd, f.raw = d.raw,
         f.loaded = d.loaded, f.scns \in {<<>>, << 0 >>}, f.ph = d.ph,
         d.cmd = "WRITE" => f.scns = <<>> /\ f.nscn = d.nscn,
         d.cmd # "WRITE" /\ CountsKnown => f.nscn >= img.nsh
  PROVE  Good(f)
<1>1. d \in Descriptor /\ d.scns = <<>> /\ d.ph = NoTab
  BY DEF Good, DescOK, HeaderFirst
<1>2. HeaderFirst(f) /\ Ascending(f) /\ TableFits(f)
  BY <1>1 DEF HeaderFirst, Ascending, TableFits
<1>3. RawKnown(f)
  BY DEF Good, DescOK, RawKnown, AllInMemory
<1>4. ASSUME commits = 0 PROVE Unforgotten(f)
  <2>1. Unforgotten(d) /\ ~d.loaded
    BY <1>4 DEF Good, Unforgotten
  <2>2. Ready(f) /\ f.nscn > 0 => FullList(f)
    BY <2>1, <1>1, Fields DEF Unforgotten, Ready, FullList
  <2> QED BY <2>1, <2>2 DEF Unforgotten
<1> QED BY <1>2, <1>3, <1>4 DEF Good, DescOK

\* Section 0 of a file whose header does not hold its counts.
LEMMA LoadExtendedIs ==
  ASSUME NEW d, d.scns = <<>>, NEW r \in LoadExtended(d)
  PROVE  \/ r = Fail(d)
         \/ r = Fail([d EXCEPT !.scns = << 0 >>])
         \/ r = Ok([d EXCEPT !.scns = << 0 >>,
                             !.nscn = IF img.nsh >= LoReserve THEN img.nsh ELSE 0,
                             !.nphdr = img.nph])
  BY DEF LoadExtended

\* Reading the header.
LEMMA EhdrGood ==
  ASSUME img \in Image, NEW d, Good(d), NEW r \in Ehdr(d)
  PROVE  Result(d, r) /\ (r.ok => r.d.hdr) /\ (d.hdr => r.d.hdr) /\ r.d.loaded = d.loaded
<1> DEFINE c == [d EXCEPT !.class = TRUE]
           h == [c EXCEPT !.hdr = TRUE, !.xstr = img.xstr,
                          !.shnum = IF img.nsh < LoReserve THEN img.nsh ELSE 0]
           s == [h EXCEPT !.scns = << 0 >>]
           w == [c EXCEPT !.hdr = TRUE, !.shnum = 0, !.xstr = FALSE]
           z == IF img.nsh >= LoReserve THEN img.nsh ELSE 0
           x == [h EXCEPT !.scns = << 0 >>, !.nscn = z, !.nphdr = img.nph]
           n == [h EXCEPT !.nscn = img.nsh, !.nphdr = img.nph]
<1>1. Good(c) /\ c.hdr = d.hdr /\ c.cmd = d.cmd /\ c.raw = d.raw /\ c.loaded = d.loaded
  BY ClassKnown
<1>2. c \in Descriptor
  BY <1>1 DEF Good, DescOK
<1>3. \/ c.hdr /\ r = Ok(c)
      \/ r = Fail(c)
      \/ c.cmd = "WRITE" /\ ~c.hdr /\ r = Ok(w)
      \/ c.cmd # "WRITE" /\ ~c.hdr /\ r \in Translated(c)
  BY DEF Ehdr
<1>4. img.nsh \in Nat /\ img.nph \in Nat /\ img.xstr \in BOOLEAN
  BY ImageFields
<1> DEFINE k == IF img.nsh < LoReserve THEN img.nsh ELSE 0
<1>5. k \in Nat /\ z \in Nat
  BY <1>4
<1>6. <<>> \in Seq(Nat) /\ << 0 >> \in Seq(Nat)
  OBVIOUS
<1> HIDE DEF c, k
<1>7. CASE r \in {Ok(c), Fail(c)} /\ (r = Ok(c) => c.hdr)
  <2> HIDE DEF w, h, s, x, n
  <2>1. CASE r = Ok(c) /\ c.hdr
    BY <1>1, <2>1, ReturnsHeader
  <2>2. CASE r = Fail(c)
    <3>1. Result(d, r)
      BY <1>1, <2>2, Returns
    <3>2. r.d = c /\ r.ok = FALSE
      BY <2>2, FailIs
    <3> QED BY <1>1, <3>1, <3>2
  <2> QED BY <1>7, <2>1, <2>2
<1>8. /\ w \in Descriptor /\ h \in Descriptor /\ s \in Descriptor /\ x \in Descriptor
      /\ n \in Descriptor
      /\ w.hdr /\ h.hdr /\ s.hdr /\ x.hdr /\ n.hdr
      /\ \A f \in {w, h, s, x, n} :
            f.cmd = c.cmd /\ f.raw = c.raw /\ f.loaded = c.loaded /\ f.ph = c.ph
      /\ h.scns = c.scns /\ w.scns = c.scns /\ n.scns = c.scns /\ s.scns = << 0 >> /\ x.scns = << 0 >>
      /\ w.nscn = c.nscn /\ n.nscn = img.nsh
  <2> HIDE DEF z
  <2> QED BY <1>2, <1>4, <1>5, <1>6 DEF Descriptor, k
<1>9. CASE c.cmd = "WRITE" /\ ~c.hdr /\ r = Ok(w)
  <2> HIDE DEF w, h, s, x, n
  <2>1. c.scns = <<>>
    BY <1>1, <1>9 DEF Good, DescOK, HeaderFirst
  <2>2. Good(w)
    BY <1>1, <1>8, <1>9, <2>1, HeaderComes
  <2>3. w.cmd = d.cmd /\ w.raw = d.raw /\ w.loaded = d.loaded /\ w.hdr
    BY <1>1, <1>8
  <2> QED BY <1>9, <2>2, <2>3, ReturnsHeader
<1>10. CASE c.cmd # "WRITE" /\ ~c.hdr /\ r \in Translated(c)
  <2>1. \/ ~CountsKnown /\ r = Fail(h)
        \/ ~CountsKnown /\ r \in LoadExtended(h)
        \/ r = Ok(n)
    BY <1>10 DEF Translated, CountsKnown
  <2>2. c.scns = <<>>
    BY <1>1, <1>10 DEF Good, DescOK, HeaderFirst
  <2>3. \/ ~CountsKnown /\ r \in {Fail(h), Fail(s), Ok(x)}
        \/ r = Ok(n)
    BY <2>1, <2>2, <1>8, LoadExtendedIs
  <2> HIDE DEF h, s, x, n
  <2>4. Good(n)
    BY <1>1, <1>4, <1>8, <1>10, <2>2, HeaderComes
  <2>5. CASE r = Ok(n)
    BY <1>1, <1>8, <2>4, <2>5, ReturnsHeader
  <2>6. CASE ~CountsKnown /\ r \in {Fail(h), Fail(s), Ok(x)}
    <3>1. Good(h) /\ Good(s) /\ Good(x)
      BY <1>1, <1>8, <1>10, <2>2, <2>6, HeaderComes
    <3> QED BY <1>1, <1>8, <2>6, <3>1, ReturnsHeader
  <2> QED BY <2>3, <2>5, <2>6
<1>11. r = Fail(c) => Fail(c) # Ok(c)
  BY OkIs, FailIs
<1> QED BY <1>3, <1>7, <1>9, <1>10, <1>11

----------------------------------------------------------------------------
(* The tables. *)

\* Another program header table.
LEMMA OtherPhdrs ==
  ASSUME NEW d, Good(d), d.hdr, NEW f \in Descriptor, f.hdr, f.cmd = d.cmd, f.raw = d.raw,
         f.loaded = d.loaded, f.scns = d.scns, f.nscn = d.nscn, TableFits(f),
         f.ph = NoTab => f.nphdr = 0
  PROVE  Good(f)
<1>1. HeaderFirst(f) /\ Ascending(f)
  BY DEF Good, DescOK, HeaderFirst, Ascending
<1>2. RawKnown(f)
  BY DEF Good, DescOK, RawKnown, AllInMemory
<1>3. commits = 0 => Unforgotten(f)
  BY DEF Good, Unforgotten, Ready, FullList
<1> QED BY <1>1, <1>2, <1>3 DEF Good, DescOK

\* Other sections.
LEMMA OtherScns ==
  ASSUME img \in Image, NEW d, Good(d), d.hdr, NEW f \in Descriptor, f.hdr, f.cmd = d.cmd, f.raw = d.raw,
         d.loaded => f.loaded, f.ph = d.ph, f.nphdr = d.nphdr, f.nscn >= d.nscn, Ascending(f),
         commits = 0 /\ Ready(f) /\ f.nscn > 0 => FullList(f)
  PROVE  Good(f)
<1>1. HeaderFirst(f) /\ TableFits(f)
  BY DEF Good, DescOK, HeaderFirst, TableFits
<1>2. RawKnown(f)
  BY DEF Good, DescOK, RawKnown, AllInMemory
<1>3. d \in Descriptor
  BY DEF Good, DescOK
<1>4. ASSUME commits = 0 PROVE Unforgotten(f)
  <2>1. d.nscn \in Nat /\ f.nscn \in Nat /\ img.nsh \in Nat
    BY <1>3, Fields, ImageFields
  <2> QED BY <2>1, <1>4 DEF Good, Unforgotten
<1> QED BY <1>1, <1>2, <1>4 DEF Good, DescOK

\* Reading the program header table.
LEMMA PhdrsGood ==
  ASSUME img \in Image, NEW d, Good(d), NEW r \in Phdrs(d)
  PROVE  /\ Result(d, r) /\ (r.ok => r.d.hdr /\ r.d.ph # NoTab)
         /\ (d.hdr => r.d.hdr) /\ r.d.loaded = d.loaded
<1>1. d \in Descriptor /\ (d.ph # NoTab => d.hdr)
  BY DEF Good, DescOK, HeaderFirst
<1>2. CASE d.ph # NoTab
  <2>1. r = Ok(d)
    BY <1>2 DEF Phdrs
  <2> QED BY <2>1, <1>1, <1>2, ReturnsHeader, OkIs
<1>3. CASE d.ph = NoTab
  <2>1. \/ r \in Ehdr(d) /\ ~r.ok
        \/ \E q \in Ehdr(d) : q.ok /\ r \in ReadPhdrs(q.d)
    BY <1>3 DEF Phdrs, Then
  <2>2. CASE r \in Ehdr(d) /\ ~r.ok
    BY <2>2, EhdrGood
  <2>3. ASSUME NEW q \in Ehdr(d), q.ok, r \in ReadPhdrs(q.d)
        PROVE  /\ Result(d, r) /\ (r.ok => r.d.hdr /\ r.d.ph # NoTab)
               /\ r.d.hdr /\ r.d.loaded = d.loaded
    <3> DEFINE f == [q.d EXCEPT !.ph = q.d.nphdr]
    <3>1. Good(q.d) /\ q.d.cmd = d.cmd /\ q.d.raw = d.raw /\ q.d.hdr /\ q.d.loaded = d.loaded
      BY <2>3, EhdrGood DEF Result
    <3>2. q.d \in Descriptor
      BY <3>1 DEF Good, DescOK
    <3>3. q.d.nphdr \in Nat
      BY <3>2, Fields
    <3>4. \/ r = Abort(q.d, "nophdr")
          \/ r = Fail(q.d)
          \/ r = Ok(f)
      BY <2>3 DEF ReadPhdrs
    <3>5. /\ f \in Descriptor /\ f.hdr = q.d.hdr /\ f.cmd = q.d.cmd /\ f.raw = q.d.raw
          /\ f.loaded = q.d.loaded /\ f.scns = q.d.scns /\ f.nscn = q.d.nscn
          /\ f.ph = q.d.nphdr /\ f.nphdr = q.d.nphdr
      BY <3>2, <3>3 DEF Descriptor
    <3> HIDE DEF f
    <3>6. f.ph # NoTab
      BY <3>3, <3>5 DEF NoTab
    <3>7. Good(f)
      BY <3>1, <3>5, <3>6, OtherPhdrs DEF TableFits
    <3>8. CASE r = Abort(q.d, "nophdr")
      BY <3>1, <3>8 DEF Abort, Result, Stops
    <3>9. CASE r = Fail(q.d)
      BY <3>1, <3>9, ReturnsHeader, FailIs
    <3>10. CASE r = Ok(f)
      BY <3>1, <3>5, <3>6, <3>7, <3>10, ReturnsHeader, OkIs
    <3> QED BY <3>4, <3>8, <3>9, <3>10
  <2> QED BY <2>1, <2>2, <2>3
<1> QED BY <1>2, <1>3

\* elf_update reads the program headers if there are any, and goes on without.
LEMMA PhdrsIfAnyGood ==
  ASSUME img \in Image, NEW d, Good(d), d.hdr, NEW r \in PhdrsIfAny(d)
  PROVE  Result(d, r) /\ r.d.hdr /\ r.d.loaded = d.loaded /\ (r.ok => AllInMemory(r.d))
<1>1. CASE d.nphdr > 0
  <2>1. r \in Phdrs(d)
    BY <1>1 DEF PhdrsIfAny
  <2> QED BY <2>1, PhdrsGood DEF AllInMemory
<1>2. CASE ~(d.nphdr > 0)
  <2>1. r = Ok(d)
    BY <1>2 DEF PhdrsIfAny
  <2>2. d.nphdr = 0
    BY <1>2, Fields DEF Good, DescOK
  <2> QED BY <2>1, <2>2, ReturnsHeader, OkIs DEF AllInMemory
<1> QED BY <1>1, <1>2

\* What the list becomes when the table is read up to an entry.
LEMMA UptoIs ==
  ASSUME NEW s \in Seq(Nat), Len(s) <= 1, s # <<>> => s[1] = 0, NEW k \in Nat
  PROVE  LET t == s \o [j \in 1..k - Len(s) |-> Len(s) + j - 1]
         IN  /\ t \in Seq(Nat) /\ Len(t) = IF k >= Len(s) THEN k ELSE Len(s)
             /\ \A j \in 1..Len(t) : t[j] = j - 1
<1>1. Len(s) \in Nat /\ Len(s) \in {0, 1}
  <2>1. Len(s) \in Nat
    BY LenProperties
  <2>2. PICK l \in Nat : l = Len(s) /\ l <= 1
    BY <2>1
  <2>3. l \in {0, 1}
    BY <2>2
  <2> QED BY <2>1, <2>2, <2>3
<1> DEFINE n == IF k >= Len(s) THEN k - Len(s) ELSE 0
           u == [j \in 1..k - Len(s) |-> Len(s) + j - 1]
           t == s \o u
<1>2. n \in Nat /\ 1..k - Len(s) = 1..n
  BY <1>1
<1>3. u = [j \in 1..n |-> Len(s) + j - 1]
  BY <1>2
<1>4. \A j \in 1..n : Len(s) + j - 1 \in Nat
  BY <1>1, <1>2
<1>5. u \in Seq(Nat) /\ Len(u) = n /\ \A j \in 1..n : u[j] = Len(s) + j - 1
  <2> HIDE DEF n, u
  <2>1. u \in [1..n -> Nat]
    BY <1>3, <1>4
  <2>2. u \in Seq(Nat) /\ Len(u) = n
    BY <2>1, <1>2
  <2>3. \A j \in 1..n : u[j] = Len(s) + j - 1
    BY <1>3
  <2> QED BY <2>2, <2>3
<1>6. Len(s) + n = IF k >= Len(s) THEN k ELSE Len(s)
  BY <1>1
<1> HIDE DEF u, n
<1>7. /\ t \in Seq(Nat) /\ Len(t) = Len(s) + n
      /\ \A j \in 1..Len(s) + n : t[j] = IF j <= Len(s) THEN s[j] ELSE u[j - Len(s)]
  BY <1>1, <1>2, <1>5, ConcatProperties
<1>8. ASSUME NEW j \in 1..Len(s) + n PROVE t[j] = j - 1
  <2> HIDE DEF t
  <2>1. j \in Nat /\ j > 0 /\ n \in Nat
    BY <1>1, <1>2
  <2>2. CASE j <= Len(s)
    <3>1. Len(s) = 1 /\ j = 1 /\ s # <<>>
      BY <2>1, <2>2, <1>1, EmptySeq
    <3> QED BY <3>1, <2>2, <1>7
  <2>3. CASE j > Len(s)
    <3>1. j - Len(s) \in 1..n
      BY <1>1, <2>1, <2>3
    <3>2. t[j] = u[j - Len(s)]
      BY <1>1, <2>1, <2>3, <1>7
    <3>3. u[j - Len(s)] = Len(s) + (j - Len(s)) - 1
      BY <3>1, <1>5
    <3> QED BY <1>1, <2>1, <3>2, <3>3
  <2> QED BY <1>1, <2>1, <2>2, <2>3
<1>9. /\ t \in Seq(Nat) /\ Len(t) = (IF k >= Len(s) THEN k ELSE Len(s))
      /\ \A j \in 1..Len(t) : t[j] = j - 1
  BY <1>6, <1>7, <1>8
<1> QED BY <1>9 DEF u

\* A list that counts up from section 0.
LEMMA CountsUp ==
  ASSUME NEW s \in Seq(Nat), NEW n \in Nat, \A j \in 1..Len(s) : s[j] = j - 1,
         Len(s) <= n \/ Len(s) <= 1
  PROVE  /\ s # <<>> => s[1] = 0
         /\ \A j, k \in DOMAIN s : j < k => s[j] < s[k]
         /\ \A j \in DOMAIN s : j > 1 => s[j] < n
<1>1. DOMAIN s = 1..Len(s) /\ Len(s) \in Nat
  BY LenProperties
<1>2. PICK l \in Nat : l = Len(s)
  BY <1>1
<1>3. s # <<>> => s[1] = 0
  <2>1. s # <<>> => l # 0
    BY <1>2, EmptySeq
  <2>2. s # <<>> => 1 \in 1..l
    BY <2>1
  <2> QED BY <1>2, <2>2
<1>4. \A j \in 1..l : s[j] = j - 1
  BY <1>2
<1>5. \A j, k \in 1..l : j < k => s[j] < s[k]
  BY <1>4
<1>6. \A j \in 1..l : j > 1 => s[j] < n
  <2>1. l <= n \/ l <= 1
    BY <1>2
  <2> QED BY <1>4, <2>1
<1> QED BY <1>1, <1>2, <1>3, <1>5, <1>6

\* Reading the section header table, to the end or until memory runs out.
LEMMA ListRead ==
  ASSUME img \in Image, NEW d, Good(d), d.hdr, ~d.loaded, d.cmd # "WRITE", Len(d.scns) <= 1,
         NEW k \in Nat, k <= d.nscn, NEW f \in Descriptor, f.hdr, f.cmd = d.cmd, f.raw = d.raw,
         f.ph = d.ph, f.nphdr = d.nphdr, f.nscn = d.nscn, f.loaded => k = d.nscn,
         f.scns = d.scns \o [j \in 1..k - Len(d.scns) |-> Len(d.scns) + j - 1]
  PROVE  Good(f)
<1>1. d \in Descriptor /\ Ascending(d)
  BY DEF Good, DescOK
<1>2. d.scns \in Seq(Nat) /\ d.nscn \in Nat /\ Len(d.scns) \in Nat
  BY <1>1, Fields, LenProperties
<1>3. d.scns # <<>> => d.scns[1] = 0
  BY <1>1 DEF Ascending
<1> DEFINE s == d.scns \o [j \in 1..k - Len(d.scns) |-> Len(d.scns) + j - 1]
<1>4. /\ s \in Seq(Nat) /\ Len(s) = (IF k >= Len(d.scns) THEN k ELSE Len(d.scns))
      /\ \A j \in 1..Len(s) : s[j] = j - 1
  <2>1. PICK q \in Seq(Nat) : q = d.scns
    BY <1>2
  <2> DEFINE t == q \o [j \in 1..k - Len(q) |-> Len(q) + j - 1]
  <2>2. /\ t \in Seq(Nat) /\ Len(t) = (IF k >= Len(q) THEN k ELSE Len(q))
        /\ \A j \in 1..Len(t) : t[j] = j - 1
    BY <2>1, <1>3, UptoIs
  <2>3. t = s
    BY <2>1
  <2> HIDE DEF s, t
  <2> QED BY <2>1, <2>2, <2>3
<1>5. f.scns = s
  OBVIOUS
<1> HIDE DEF s
<1>6. Ascending(f)
  <2>1. Len(s) <= d.nscn \/ Len(s) <= 1
    BY <1>2, <1>4
  <2>2. /\ s # <<>> => s[1] = 0
        /\ \A j, l \in DOMAIN s : j < l => s[j] < s[l]
        /\ \A j \in DOMAIN s : j > 1 => s[j] < d.nscn
    BY <2>1, <1>2, <1>4, CountsUp
  <2> QED BY <2>2, <1>5 DEF Ascending
<1>7. Ready(f) /\ f.nscn > 0 => FullList(f)
  <2> SUFFICES ASSUME Ready(f), f.nscn > 0 PROVE FullList(f)
    OBVIOUS
  <2>1. k = d.nscn
    BY DEF Ready
  <2>2. Len(f.scns) = f.nscn
    <3>1. Len(d.scns) <= d.nscn
      BY <1>2
    <3> QED BY <2>1, <3>1, <1>2, <1>4, <1>5
  <2> QED BY <2>2, <1>4, <1>5, LenProperties DEF FullList
<1>8. f.nscn >= d.nscn
  BY <1>2
<1> QED BY <1>6, <1>7, <1>8, OtherScns

\* elf_getscn and the others that need the sections.
LEMMA LoadSectionsGood ==
  ASSUME img \in Image, NEW d, Good(d), d.hdr, NEW r \in LoadSections(d)
  PROVE  /\ Result(d, r) /\ r.d.hdr /\ r.d.ph = d.ph /\ r.d.nphdr = d.nphdr
         /\ r.ok => Ready(r.d)
<1> DEFINE Upto(k) == [d EXCEPT !.scns = @ \o [j \in 1..k - Len(d.scns) |-> Len(d.scns) + j - 1]]
           g == [Upto(d.nscn) EXCEPT !.loaded = TRUE]
<1>1. d \in Descriptor /\ Ascending(d)
  BY DEF Good, DescOK
<1>2. d.scns \in Seq(Nat) /\ d.nscn \in Nat /\ Len(d.scns) \in Nat
  BY <1>1, Fields, LenProperties
<1>3. \/ r = Ok(d) /\ Ready(d)
      \/ r = Fail(d)
      \/ r = Abort(d, "single")
      \/ ~d.loaded /\ d.cmd # "WRITE" /\ ~(Len(d.scns) > 1) /\ r \in Table(d)
  BY DEF LoadSections, Ready
<1>4. CASE r = Ok(d) /\ Ready(d)
  BY <1>4, Returns, OkIs
<1>5. CASE r = Fail(d)
  BY <1>5, Returns, FailIs
<1>6. CASE r = Abort(d, "single")
  BY <1>6 DEF Abort, Result, Stops
<1>7. CASE ~d.loaded /\ d.cmd # "WRITE" /\ ~(Len(d.scns) > 1) /\ r \in Table(d)
  <2>1. \/ \E k \in Len(d.scns)..d.nscn - 1 : r = Fail(Upto(k))
        \/ r = Ok(g)
    BY <1>7 DEF Table
  <2>2. d.scns # <<>> => d.scns[1] = 0
    BY <1>1 DEF Ascending
  <2>3. Len(d.scns) <= 1
    BY <1>2, <1>7
  <2>4. ASSUME NEW k \in Nat
        PROVE  /\ Upto(k) \in Descriptor /\ Upto(k).hdr = d.hdr /\ Upto(k).cmd = d.cmd
               /\ Upto(k).raw = d.raw /\ Upto(k).ph = d.ph /\ Upto(k).nphdr = d.nphdr
               /\ Upto(k).nscn = d.nscn /\ Upto(k).loaded = d.loaded
               /\ Upto(k).scns = d.scns \o [j \in 1..k - Len(d.scns) |-> Len(d.scns) + j - 1]
    <3> DEFINE s == d.scns \o [j \in 1..k - Len(d.scns) |-> Len(d.scns) + j - 1]
    <3>1. s \in Seq(Nat)
      BY <1>2, <2>2, <2>3, UptoIs
    <3> HIDE DEF s
    <3>2. LET u == [d EXCEPT !.scns = s]
          IN  /\ u \in Descriptor /\ u.hdr = d.hdr /\ u.cmd = d.cmd
              /\ u.raw = d.raw /\ u.ph = d.ph /\ u.nphdr = d.nphdr
              /\ u.nscn = d.nscn /\ u.loaded = d.loaded /\ u.scns = s
      BY <1>1, <3>1 DEF Descriptor
    <3> QED BY <3>2 DEF s
  <2> HIDE DEF Upto
  <2>5. /\ g \in Descriptor /\ g.hdr = d.hdr /\ g.cmd = d.cmd /\ g.raw = d.raw /\ g.ph = d.ph
        /\ g.nphdr = d.nphdr /\ g.nscn = d.nscn /\ g.loaded = TRUE
        /\ g.scns = d.scns \o [j \in 1..d.nscn - Len(d.scns) |-> Len(d.scns) + j - 1]
    <3> DEFINE u == Upto(d.nscn)
    <3>1. /\ u \in Descriptor /\ u.hdr = d.hdr /\ u.cmd = d.cmd /\ u.raw = d.raw
          /\ u.ph = d.ph /\ u.nphdr = d.nphdr /\ u.nscn = d.nscn
          /\ u.scns = d.scns \o [j \in 1..d.nscn - Len(d.scns) |-> Len(d.scns) + j - 1]
      BY <1>2, <2>4
    <3> HIDE DEF u
    <3>2. LET h == [u EXCEPT !.loaded = TRUE]
          IN  /\ h \in Descriptor /\ h.hdr = u.hdr /\ h.cmd = u.cmd /\ h.raw = u.raw
              /\ h.ph = u.ph /\ h.nphdr = u.nphdr /\ h.nscn = u.nscn /\ h.loaded = TRUE
              /\ h.scns = u.scns
      BY <3>1 DEF Descriptor
    <3> QED BY <3>1, <3>2 DEF u
  <2> HIDE DEF g
  <2>6. CASE r = Ok(g)
    <3>1. d.nscn <= d.nscn
      BY <1>2
    <3>2. Good(g)
      BY <1>2, <1>7, <2>3, <2>5, <3>1, ListRead
    <3> QED BY <2>5, <2>6, <3>2, Returns, OkIs DEF Ready
  <2>7. ASSUME NEW k \in Len(d.scns)..d.nscn - 1, r = Fail(Upto(k))
        PROVE  Result(d, r) /\ r.d.hdr /\ r.d.ph = d.ph /\ r.d.nphdr = d.nphdr /\ r.ok = FALSE
    <3>1. k \in Nat /\ k <= d.nscn
      BY <1>2
    <3> DEFINE u == Upto(k)
    <3>2. /\ u \in Descriptor /\ u.hdr = d.hdr /\ u.cmd = d.cmd /\ u.raw = d.raw
          /\ u.ph = d.ph /\ u.nphdr = d.nphdr /\ u.nscn = d.nscn /\ u.loaded = d.loaded
          /\ u.scns = d.scns \o [j \in 1..k - Len(d.scns) |-> Len(d.scns) + j - 1]
      BY <2>4, <3>1
    <3> HIDE DEF u
    <3>3. Good(u)
      BY <1>7, <2>3, <3>1, <3>2, ListRead
    <3>4. r = Fail(u)
      BY <2>7 DEF u
    <3> QED BY <3>2, <3>3, <3>4, Returns, FailIs
  <2> QED BY <2>1, <2>6, <2>7
<1> QED BY <1>3, <1>4, <1>5, <1>6, <1>7

\* A section more.
LEMMA AppendedGood ==
  ASSUME img \in Image, NEW d, Good(d), d.hdr, d.scns # <<>>, d.nscn > 0, Ready(d)
  PROVE  LET f == [d EXCEPT !.scns = Append(@, d.nscn), !.nscn = @ + 1]
         IN  Good(f) /\ f.cmd = d.cmd /\ f.raw = d.raw /\ f.hdr
<1> DEFINE s == Append(d.scns, d.nscn)
           f == [d EXCEPT !.scns = s, !.nscn = @ + 1]
<1>1. d \in Descriptor /\ Ascending(d)
  BY DEF Good, DescOK
<1>2. d.scns \in Seq(Nat) /\ d.nscn \in Nat /\ d.nscn + 1 \in Nat
  BY <1>1, Fields
<1>3. PICK l \in Nat : l = Len(d.scns) /\ l > 0 /\ DOMAIN d.scns = 1..l
  BY <1>2, EmptySeq, LenProperties
<1>4. s \in Seq(Nat) /\ Len(s) = l + 1 /\ DOMAIN s = 1..l + 1
      /\ (\A j \in 1..l : s[j] = d.scns[j]) /\ s[l + 1] = d.nscn
  BY <1>2, <1>3, AppendProperties, LenProperties
<1> HIDE DEF s
<1>5. /\ f \in Descriptor /\ f.hdr = d.hdr /\ f.cmd = d.cmd /\ f.raw = d.raw /\ f.ph = d.ph
      /\ f.nphdr = d.nphdr /\ f.nscn = d.nscn + 1 /\ f.loaded = d.loaded /\ f.scns = s
  BY <1>1, <1>2, <1>4 DEF Descriptor
<1> HIDE DEF f
<1>6. /\ d.scns[1] = 0 /\ \A j \in 1..l : d.scns[j] \in Nat /\ d.scns[j] < d.nscn
      /\ \A j, k \in 1..l : j < k => d.scns[j] < d.scns[k]
  <2>1. d.scns[1] = 0 /\ \A j \in 1..l : j > 1 => d.scns[j] < d.nscn
    BY <1>1, <1>3 DEF Ascending
  <2>2. \A j \in 1..l : d.scns[j] \in Nat
    BY <1>2, <1>3, ElementOfSeq
  <2>3. \A j \in 1..l : j = 1 \/ j > 1
    BY <1>3
  <2>4. \A j, k \in 1..l : j < k => d.scns[j] < d.scns[k]
    BY <1>1, <1>3 DEF Ascending
  <2>5. \A j \in 1..l : d.scns[j] < d.nscn
    BY <2>1, <2>3
  <2> QED BY <2>1, <2>2, <2>4, <2>5
<1>7. Ascending(f)
  <2>1. s[1] = 0
    BY <1>3, <1>4, <1>6
  <2>2. ASSUME NEW j \in 1..l + 1, NEW k \in 1..l + 1, j < k PROVE s[j] < s[k]
    <3>1. j \in 1..l
      BY <2>2, <1>3
    <3>2. CASE k = l + 1
      BY <3>1, <3>2, <1>4, <1>6
    <3>3. CASE k # l + 1
      <4>1. k \in 1..l
        BY <3>3, <1>3
      <4> QED BY <3>1, <4>1, <2>2, <1>4, <1>6
    <3> QED BY <3>2, <3>3
  <2>3. ASSUME NEW j \in 1..l + 1 PROVE s[j] < d.nscn + 1
    <3>1. CASE j = l + 1
      BY <3>1, <1>2, <1>4
    <3>2. CASE j # l + 1
      <4>1. j \in 1..l
        BY <3>2, <1>3
      <4> QED BY <4>1, <1>2, <1>4, <1>6
    <3> QED BY <3>1, <3>2
  <2> QED BY <2>1, <2>2, <2>3, <1>4, <1>5 DEF Ascending
<1>8. ASSUME commits = 0 PROVE FullList(f)
  <2>1. FullList(d)
    BY <1>8 DEF Good, Unforgotten
  <2>2. l = d.nscn /\ \A j \in 1..l : d.scns[j] = j - 1
    BY <2>1, <1>3 DEF FullList
  <2>3. \A j \in 1..l + 1 : s[j] = j - 1
    <3> TAKE j \in 1..l + 1
    <3>1. CASE j = l + 1
      <4>1. s[j] = l
        BY <3>1, <2>2, <1>4
      <4>2. l = (l + 1) - 1
        BY <1>3
      <4> QED BY <3>1, <4>1, <4>2
    <3>2. CASE j # l + 1
      <4>1. j \in 1..l
        BY <3>2, <1>3
      <4> QED BY <4>1, <2>2, <1>4
    <3> QED BY <3>1, <3>2
  <2> QED BY <2>2, <2>3, <1>4, <1>5 DEF FullList
<1>9. f.nscn >= d.nscn
  BY <1>2, <1>5
<1>10. Good(f)
  BY <1>5, <1>7, <1>8, <1>9, OtherScns
<1> QED BY <1>5, <1>10 DEF f, s

\* elf_newscn, after the sections have been read.
LEMMA Append1Good ==
  ASSUME img \in Image, NEW d, Good(d), d.hdr, Ready(d), NEW r \in Append1(d)
  PROVE  Result(d, r)
<1> DEFINE z == [d EXCEPT !.scns = << 0 >>, !.nscn = 1]
           Add(x) == {Fail(x), Ok([x EXCEPT !.scns = Append(@, x.nscn), !.nscn = @ + 1])}
<1>1. d \in Descriptor
  BY DEF Good, DescOK
<1>2. d.nscn \in Nat /\ << 0 >> \in Seq(Nat) /\ << 0 >> # <<>>
  BY <1>1, Fields
<1>3. \/ r = Abort(d, "counted")
      \/ r = Abort(d, "uncounted")
      \/ r = Fail(d)
      \/ d.scns = <<>> /\ ~(d.nscn > 0) /\ r \in Add(z)
      \/ d.scns # <<>> /\ d.nscn # 0 /\ r \in Add(d)
  BY DEF Append1
<1>4. CASE r \in {Abort(d, "counted"), Abort(d, "uncounted")}
  BY <1>4, Aborts DEF Stops
<1>5. CASE r = Fail(d)
  BY <1>5, Returns
<1>6. CASE d.scns # <<>> /\ d.nscn # 0 /\ r \in Add(d)
  <2>1. d.nscn > 0
    BY <1>2, <1>6
  <2> QED BY <1>6, <2>1, AppendedGood, Returns
<1>7. CASE d.scns = <<>> /\ ~(d.nscn > 0) /\ r \in Add(z)
  <2>1. /\ z \in Descriptor /\ z.hdr = d.hdr /\ z.cmd = d.cmd /\ z.raw = d.raw /\ z.ph = d.ph
        /\ z.nphdr = d.nphdr /\ z.nscn = 1 /\ z.loaded = d.loaded /\ z.scns = << 0 >>
    BY <1>1, <1>2 DEF Descriptor
  <2>2. d.nscn = 0
    BY <1>2, <1>7
  <2> HIDE DEF z
  <2>3. Ascending(z) /\ FullList(z)
    BY <2>1 DEF Ascending, FullList
  <2>4. z.nscn >= d.nscn
    BY <2>1, <2>2
  <2>5. Good(z)
    BY <2>1, <2>3, <2>4, OtherScns
  <2>6. Ready(z) /\ z.scns # <<>> /\ z.nscn > 0 /\ z.hdr
    BY <2>1, <1>2 DEF Ready
  <2>7. CASE r = Fail(z)
    BY <2>1, <2>5, <2>7, Returns
  <2>8. CASE r = Ok([z EXCEPT !.scns = Append(@, z.nscn), !.nscn = @ + 1])
    <3> DEFINE f == [z EXCEPT !.scns = Append(@, z.nscn), !.nscn = @ + 1]
    <3>1. Good(f) /\ f.cmd = z.cmd /\ f.raw = z.raw
      BY <2>5, <2>6, AppendedGood
    <3>2. r = Ok(f)
      BY <2>8
    <3> HIDE DEF f
    <3> QED BY <2>1, <3>1, <3>2, Returns
  <2> QED BY <1>7, <2>7, <2>8
<1> QED BY <1>3, <1>4, <1>5, <1>6, <1>7

----------------------------------------------------------------------------
(* elf_update. *)

\* Setting section 0 up by itself.
LEMMA Scn0Good ==
  ASSUME img \in Image, NEW d, Good(d), d.hdr
  PROVE  LET f == Scn0(d)
         IN  /\ Good(f) /\ f.hdr /\ f.cmd = d.cmd /\ f.raw = d.raw /\ f.loaded = d.loaded
             /\ f.nscn = d.nscn /\ f.ph = d.ph /\ f.nphdr = d.nphdr
<1>1. d \in Descriptor
  BY DEF Good, DescOK
<1>2. CASE d.scns # <<>>
  BY <1>2 DEF Scn0
<1>3. CASE d.scns = <<>>
  <2> DEFINE f == [d EXCEPT !.scns = << 0 >>]
  <2>1. << 0 >> \in Seq(Nat) /\ d.nscn \in Nat
    BY <1>1, Fields
  <2>2. /\ f \in Descriptor /\ f.hdr = d.hdr /\ f.cmd = d.cmd /\ f.raw = d.raw /\ f.ph = d.ph
        /\ f.nphdr = d.nphdr /\ f.nscn = d.nscn /\ f.loaded = d.loaded /\ f.scns = << 0 >>
    BY <1>1, <2>1 DEF Descriptor
  <2>3. Scn0(d) = f
    BY <1>3 DEF Scn0
  <2> HIDE DEF f
  <2>4. Ascending(f)
    BY <2>2 DEF Ascending
  <2>5. ~(commits = 0 /\ Ready(f) /\ f.nscn > 0)
    <3> SUFFICES ASSUME commits = 0, Ready(f), f.nscn > 0 PROVE FALSE
      OBVIOUS
    <3>1. FullList(d)
      BY <2>2 DEF Good, Unforgotten, Ready
    <3> QED BY <3>1, <2>2, <1>3, EmptySeq DEF FullList
  <2>6. f.nscn >= d.nscn
    BY <2>1, <2>2
  <2>7. Good(f)
    BY <2>2, <2>4, <2>5, <2>6, OtherScns
  <2> QED BY <2>2, <2>3, <2>7
<1> QED BY <1>2, <1>3

\* The layout numbers the sections.
LEMMA LayoutGood ==
  ASSUME img \in Image, NEW d, Good(d), d.hdr, NEW r \in Layout(d)
  PROVE  Result(d, r) /\ r.d.hdr /\ r.d.loaded = d.loaded
<1> DEFINE s == IF d.nscn >= LoReserve \/ d.nphdr >= XNum THEN Scn0(d) ELSE d
           k == IF d.nscn < LoReserve THEN d.nscn ELSE 0
           f == [s EXCEPT !.shnum = k]
<1>1. d \in Descriptor
  BY DEF Good, DescOK
<1>2. k \in Nat
  BY <1>1, Fields
<1>3. /\ Good(s) /\ s.hdr /\ s.cmd = d.cmd /\ s.raw = d.raw /\ s.loaded = d.loaded
  BY Scn0Good
<1>4. s \in Descriptor
  BY <1>3 DEF Good, DescOK
<1>5. r = Fail(d) \/ r = Ok(f)
  BY DEF Layout, Numbered
<1> HIDE DEF s, k
<1>6. /\ f \in Descriptor /\ f.hdr = s.hdr /\ f.cmd = s.cmd /\ f.raw = s.raw /\ f.ph = s.ph
      /\ f.nphdr = s.nphdr /\ f.nscn = s.nscn /\ f.loaded = s.loaded /\ f.scns = s.scns
  BY <1>2, <1>4 DEF Descriptor
<1> HIDE DEF f
<1>7. Good(f)
  BY <1>3, <1>6, SameTables
<1>8. CASE r = Fail(d)
  BY <1>8, ReturnsHeader
<1>9. CASE r = Ok(f)
  BY <1>3, <1>6, <1>7, <1>9, ReturnsHeader
<1> QED BY <1>5, <1>8, <1>9

\* A program header table that cannot be read is forgiven.
LEMMA ResyncPhdrsGood ==
  ASSUME img \in Image, NEW d, Good(d), d.hdr, NEW r \in ResyncPhdrs(d)
  PROVE  Result(d, r) /\ r.d.hdr /\ r.d.loaded = d.loaded
<1>1. PICK q \in PhdrsIfAny(d) : r = [q EXCEPT !.ok = q.stop = "no"]
  BY DEF ResyncPhdrs, Forgive
<1>2. Result(d, q) /\ q.d.hdr /\ q.d.loaded = d.loaded
  BY PhdrsIfAnyGood
<1> DEFINE w == q.stop = "no"
<1>3. w \in BOOLEAN /\ (w => q.stop = "no")
  OBVIOUS
<1> HIDE DEF w
<1>4. q = [d |-> q.d, ok |-> q.ok, stop |-> q.stop]
  BY <1>2 DEF Result
<1>5. r = [d |-> q.d, ok |-> w, stop |-> q.stop]
  <2>1. r = [q EXCEPT !.ok = w]
    BY <1>1 DEF w
  <2> QED BY <1>4, <2>1
<1>6. Result(d, r)
  BY <1>2, <1>3, <1>5 DEF Result
<1> QED BY <1>2, <1>5, <1>6

\* A call may follow another.
LEMMA Follows ==
  ASSUME NEW d, NEW q, Result(d, q), NEW r, Result(q.d, r) PROVE Result(d, r)
  BY DEF Result

\* elf_update(e, ELF_C_NULL): what it leaves in memory when it succeeds.
LEMMA ResyncGood ==
  ASSUME img \in Image, NEW d, Good(d), NEW r \in Resync(d)
  PROVE  Result(d, r) /\ (r.ok => r.d.hdr /\ Ready(r.d))
<1> DEFINE A == Ehdr(d)
           B == Then(A, ResyncPhdrs)
           C == Then(B, LoadSections)
<1>1. \A q \in A : Result(d, q) /\ (q.ok => q.d.hdr)
  BY EhdrGood
<1>2. \A q \in B : Result(d, q) /\ (q.ok => q.d.hdr)
  <2> SUFFICES ASSUME NEW q \in B PROVE Result(d, q) /\ (q.ok => q.d.hdr)
    OBVIOUS
  <2>1. (q \in A) \/ \E p \in A : p.ok /\ q \in ResyncPhdrs(p.d)
    BY DEF Then
  <2>2. ASSUME NEW p \in A, p.ok, q \in ResyncPhdrs(p.d) PROVE Result(d, q) /\ q.d.hdr
    <3> HIDE DEF A
    <3>1. Result(d, p) /\ p.d.hdr
      BY <1>1, <2>2
    <3>2. Good(p.d)
      BY <3>1 DEF Result
    <3>3. Result(p.d, q) /\ q.d.hdr
      BY <2>2, <3>1, <3>2, ResyncPhdrsGood
    <3> QED BY <3>1, <3>3, Follows
  <2> QED BY <1>1, <2>1, <2>2
<1>3. \A q \in C : Result(d, q) /\ (q.ok => q.d.hdr /\ Ready(q.d))
  <2> HIDE DEF B
  <2> SUFFICES ASSUME NEW q \in C PROVE Result(d, q) /\ (q.ok => q.d.hdr /\ Ready(q.d))
    OBVIOUS
  <2>1. (q \in B /\ ~q.ok) \/ \E p \in B : p.ok /\ q \in LoadSections(p.d)
    BY DEF Then
  <2>2. ASSUME NEW p \in B, p.ok, q \in LoadSections(p.d)
        PROVE  Result(d, q) /\ q.d.hdr /\ (q.ok => Ready(q.d))
    <3>1. Result(d, p) /\ p.d.hdr
      BY <1>2, <2>2
    <3>2. Good(p.d)
      BY <3>1 DEF Result
    <3>3. Result(p.d, q) /\ q.d.hdr /\ (q.ok => Ready(q.d))
      BY <2>2, <3>1, <3>2, LoadSectionsGood
    <3> QED BY <3>1, <3>3, Follows
  <2> QED BY <1>2, <2>1, <2>2
<1> HIDE DEF C
<1>4. (r \in C /\ ~r.ok) \/ \E p \in C : p.ok /\ r \in Layout(p.d)
  BY DEF Resync, Then, C
<1>5. ASSUME NEW p \in C, p.ok, r \in Layout(p.d)
      PROVE  Result(d, r) /\ r.d.hdr /\ Ready(r.d)
  <2>1. Result(d, p) /\ p.d.hdr /\ Ready(p.d)
    BY <1>3, <1>5
  <2>2. Good(p.d)
    BY <2>1 DEF Result
  <2>3. Result(p.d, r) /\ r.d.hdr /\ r.d.loaded = p.d.loaded
    BY <1>5, <2>1, <2>2, LayoutGood
  <2>4. Ready(r.d)
    BY <2>1, <2>3 DEF Ready, Result
  <2> QED BY <2>1, <2>3, <2>4, Follows
<1> QED BY <1>3, <1>4, <1>5

\* elf_update(e, ELF_C_WRITE), until the image is built.
LEMMA UpdateGood ==
  ASSUME img \in Image, NEW d, Good(d), NEW r \in Then(Resync(d), Build)
  PROVE  Result(d, r) /\ (r.ok => AllInMemory(r.d) /\ Ready(r.d))
<1> DEFINE C == Resync(d)
<1>1. \A q \in C : Result(d, q) /\ (q.ok => q.d.hdr /\ Ready(q.d))
  BY ResyncGood
<1> HIDE DEF C
<1>2. (r \in C /\ ~r.ok) \/ \E p \in C : p.ok /\ r \in Build(p.d)
  BY DEF Then, C
<1>3. ASSUME NEW p \in C, p.ok, r \in Build(p.d)
      PROVE  Result(d, r) /\ (r.ok => AllInMemory(r.d) /\ Ready(r.d))
  <2>1. Result(d, p) /\ p.d.hdr /\ Ready(p.d)
    BY <1>1, <1>3
  <2>2. Good(p.d)
    BY <2>1 DEF Result
  <2>3. r = Fail(p.d) \/ r \in PhdrsIfAny(p.d)
    BY <1>3 DEF Build
  <2>4. Result(p.d, r) /\ r.d.loaded = p.d.loaded /\ (r.ok => AllInMemory(r.d))
    <3>1. CASE r = Fail(p.d)
      BY <2>2, <3>1, Returns, FailIs
    <3>2. CASE r \in PhdrsIfAny(p.d)
      BY <2>1, <2>2, <3>2, PhdrsIfAnyGood
    <3> QED BY <2>3, <3>1, <3>2
  <2>5. Ready(r.d)
    BY <2>1, <2>4 DEF Ready, Result
  <2> QED BY <2>1, <2>4, <2>5, Follows
<1> QED BY <1>1, <1>2, <1>3

----------------------------------------------------------------------------
(* The calls and the commit keep the invariant. *)

\* What is in order does not depend on the file.
LEMMA SameFile ==
  ASSUME Good(e'), UNCHANGED <<img, commits>> PROVE Good(e)'
  BY DEF Good, Unforgotten, CountsKnown, Extended

\* A call of the application.
LEMMA CallKeeps ==
  ASSUME ObjectInv, NEW r, Result(e, r), Idle, e' = r.d, stop' = r.stop,
         UNCHANGED <<disk, img, step, commits>>
  PROVE  ObjectInv'
<1>1. Good(e')
  BY DEF Result
<1>2. Good(e)'
  BY <1>1, SameFile
<1>3. e' \in Descriptor
  BY <1>1 DEF Good, DescOK
<1>4. stop' \in Stops
  BY DEF Result
<1>5. ObjectTypeOK'
  BY <1>3, <1>4 DEF ObjectInv, ObjectTypeOK, Stops
<1>6. Committing'
  BY DEF Committing, Idle
<1>7. stop' # "listed"
  BY <1>4 DEF Stops
<1> QED BY <1>2, <1>5, <1>6, <1>7 DEF ObjectInv

\* The results of the calls.
LEMMA CallsGood ==
  ASSUME ObjectInv
  PROVE  /\ Good(e) /\ img \in Image /\ e \in Descriptor
         /\ \A r \in Ehdr(e) : Result(e, r) /\ (r.ok => r.d.hdr)
         /\ \A r \in Phdrs(e) : Result(e, r)
         /\ \A r \in Resync(e) : Result(e, r)
         /\ \A r \in Then(Ehdr(e), LoadSections) :
              Result(e, r) /\ (r.ok => r.d.hdr /\ Ready(r.d))
<1>1. Good(e) /\ img \in Image /\ e \in Descriptor
  BY DEF ObjectInv, ObjectTypeOK
<1>2. \A r \in Ehdr(e) : Result(e, r) /\ (r.ok => r.d.hdr)
  BY <1>1, EhdrGood
<1>3. ASSUME NEW r \in Then(Ehdr(e), LoadSections)
      PROVE  Result(e, r) /\ (r.ok => r.d.hdr /\ Ready(r.d))
  <2>1. (r \in Ehdr(e) /\ ~r.ok) \/ \E p \in Ehdr(e) : p.ok /\ r \in LoadSections(p.d)
    BY DEF Then
  <2>2. ASSUME NEW p \in Ehdr(e), p.ok, r \in LoadSections(p.d)
        PROVE  Result(e, r) /\ r.d.hdr /\ (r.ok => Ready(r.d))
    <3>1. Result(e, p) /\ p.d.hdr
      BY <1>2, <2>2
    <3>2. Good(p.d)
      BY <3>1 DEF Result
    <3>3. Result(p.d, r) /\ r.d.hdr /\ (r.ok => Ready(r.d))
      BY <1>1, <2>2, <3>1, <3>2, LoadSectionsGood
    <3> QED BY <3>1, <3>3, Follows
  <2> QED BY <1>2, <2>1, <2>2
<1>4. \A r \in Phdrs(e) : Result(e, r)
  BY <1>1, PhdrsGood
<1>5. \A r \in Resync(e) : Result(e, r)
  BY <1>1, ResyncGood
<1> QED BY <1>1, <1>2, <1>3, <1>4, <1>5

\* elf_newscn
LEMMA NewScnKeeps == ASSUME ObjectInv, NewScn PROVE ObjectInv'
<1> DEFINE A == Then(Ehdr(e), LoadSections)
<1>1. \A q \in A : Result(e, q) /\ (q.ok => q.d.hdr /\ Ready(q.d))
  BY CallsGood
<1>2. img \in Image
  BY CallsGood
<1> HIDE DEF A
<1>3. PICK r \in Then(A, Append1) : e' = r.d /\ stop' = r.stop
  BY DEF NewScn, Call, A
<1>4. (r \in A /\ ~r.ok) \/ \E p \in A : p.ok /\ r \in Append1(p.d)
  BY <1>3 DEF Then
<1>5. ASSUME NEW p \in A, p.ok, r \in Append1(p.d) PROVE Result(e, r)
  <2>1. Result(e, p) /\ p.d.hdr /\ Ready(p.d)
    BY <1>1, <1>5
  <2>2. Good(p.d)
    BY <2>1 DEF Result
  <2>3. Result(p.d, r)
    BY <1>2, <1>5, <2>1, <2>2, Append1Good
  <2> QED BY <2>1, <2>3, Follows
<1>6. Result(e, r)
  BY <1>1, <1>4, <1>5
<1> QED BY <1>3, <1>6, CallKeeps DEF NewScn, Call

\* _libelf_newphdr
LEMMA NewPhdrKeeps ==
  ASSUME ObjectInv, NEW n \in 0..MaxPhdrs, NewPhdr(n) PROVE ObjectInv'
<1> DEFINE New(d) == {Ok(NewTable(d, n))} \cup (IF n > 0 THEN {Fail(d)} ELSE {})
<1>1. PICK r \in Then(Ehdr(e), New) : e' = r.d /\ stop' = r.stop
  BY DEF NewPhdr, Call
<1>2. (r \in Ehdr(e) /\ ~r.ok) \/ \E p \in Ehdr(e) : p.ok /\ r \in New(p.d)
  BY <1>1 DEF Then
<1>3. ASSUME NEW p \in Ehdr(e), p.ok, r \in New(p.d) PROVE Result(e, r)
  <2>1. Result(e, p) /\ p.d.hdr
    BY <1>3, CallsGood
  <2>2. Good(p.d)
    BY <2>1 DEF Result
  <2> DEFINE t == IF n = 0 THEN NoTab ELSE n
             f == [p.d EXCEPT !.ph = t, !.nphdr = n]
  <2>3. r = Fail(p.d) \/ r = Ok(f)
    BY <1>3 DEF NewTable
  <2>4. n \in Nat /\ t \in Nat \cup {NoTab} /\ (t = NoTab => n = 0) /\ (t # NoTab => t = n)
    <3> HIDE DEF f, New
    <3>1. n \in Nat
      BY ObjectAssumption
    <3>2. n # NoTab
      BY <3>1 DEF NoTab
    <3> QED BY <3>1, <3>2
  <2> HIDE DEF t
  <2>5. /\ f \in Descriptor /\ f.hdr = p.d.hdr /\ f.cmd = p.d.cmd /\ f.raw = p.d.raw
        /\ f.loaded = p.d.loaded /\ f.scns = p.d.scns /\ f.nscn = p.d.nscn
        /\ f.ph = t /\ f.nphdr = n
    BY <2>2, <2>4 DEF Good, DescOK, Descriptor
  <2> HIDE DEF f
  <2>6. Good(f)
    BY <2>1, <2>2, <2>4, <2>5, OtherPhdrs DEF TableFits
  <2>7. Result(p.d, r)
    BY <2>2, <2>3, <2>5, <2>6, Returns
  <2> QED BY <2>1, <2>7, Follows
<1>4. Result(e, r)
  BY <1>2, <1>3, CallsGood
<1> QED BY <1>1, <1>4, CallKeeps DEF NewPhdr, Call

\* elf_setshstrndx
LEMMA SetShstrndxKeeps ==
  ASSUME ObjectInv, NEW big \in BOOLEAN, SetShstrndx(big) PROVE ObjectInv'
<1> DEFINE Set(d) == IF big THEN {Ok([Scn0(d) EXCEPT !.xstr = TRUE])}
                              \cup (IF d.scns = <<>> THEN {Fail(d)} ELSE {})
                     ELSE {Ok([d EXCEPT !.xstr = FALSE])}
<1>1. PICK r \in Then(Ehdr(e), Set) : e' = r.d /\ stop' = r.stop
  BY DEF SetShstrndx, Call
<1>2. (r \in Ehdr(e) /\ ~r.ok) \/ \E p \in Ehdr(e) : p.ok /\ r \in Set(p.d)
  BY <1>1 DEF Then
<1>3. ASSUME NEW p \in Ehdr(e), p.ok, r \in Set(p.d) PROVE Result(e, r)
  <2>1. Result(e, p) /\ p.d.hdr
    BY <1>3, CallsGood
  <2>2. Good(p.d)
    BY <2>1 DEF Result
  <2>3. PICK s \in {Scn0(p.d), p.d}, x \in BOOLEAN : r = Fail(p.d) \/ r = Ok([s EXCEPT !.xstr = x])
    BY <1>3
  <2>4. Good(s) /\ s.cmd = p.d.cmd /\ s.raw = p.d.raw
    BY <2>1, <2>2, Scn0Good, CallsGood
  <2> DEFINE f == [s EXCEPT !.xstr = x]
  <2>5. /\ f \in Descriptor /\ f.hdr = s.hdr /\ f.cmd = s.cmd /\ f.raw = s.raw
        /\ f.loaded = s.loaded /\ f.scns = s.scns /\ f.nscn = s.nscn
        /\ f.ph = s.ph /\ f.nphdr = s.nphdr
    BY <2>4 DEF Good, DescOK, Descriptor
  <2>6. r = Fail(p.d) \/ r = Ok(f)
    BY <2>3
  <2> HIDE DEF f
  <2>7. Good(f)
    BY <2>4, <2>5, SameTables
  <2>8. Result(p.d, r)
    BY <2>2, <2>4, <2>5, <2>6, <2>7, Returns
  <2> QED BY <2>1, <2>8, Follows
<1>4. Result(e, r)
  BY <1>2, <1>3, CallsGood
<1> QED BY <1>1, <1>4, CallKeeps DEF SetShstrndx, Call

\* gelf_update_phdr
LEMMA GelfUpdatePhdrKeeps ==
  ASSUME ObjectInv, NEW n \in 0..MaxPhdrs, GelfUpdatePhdr(n) PROVE ObjectInv'
<1> DEFINE Store(d) == IF d.cmd = "READ" \/ n > d.nphdr THEN {Fail(d)}
                       ELSE IF n < d.ph THEN {Ok(d)} ELSE {Abort(d, "stray")}
<1>1. PICK r \in Then(Ehdr(e), Store) : e' = r.d /\ stop' = r.stop
  BY DEF GelfUpdatePhdr, Call
<1>2. (r \in Ehdr(e) /\ ~r.ok) \/ \E p \in Ehdr(e) : p.ok /\ r \in Store(p.d)
  BY <1>1 DEF Then
<1>3. ASSUME NEW p \in Ehdr(e), p.ok, r \in Store(p.d) PROVE Result(e, r)
  <2>1. Result(e, p)
    BY <1>3, CallsGood
  <2>2. Good(p.d)
    BY <2>1 DEF Result
  <2>3. r \in {Fail(p.d), Ok(p.d), Abort(p.d, "stray")}
    BY <1>3
  <2>4. Result(p.d, Fail(p.d)) /\ Result(p.d, Ok(p.d))
    BY <2>2, Returns
  <2>5. Result(p.d, Abort(p.d, "stray"))
    BY <2>2, Aborts DEF Stops
  <2>6. Result(p.d, r)
    BY <2>3, <2>4, <2>5
  <2> QED BY <2>1, <2>6, Follows
<1>4. Result(e, r)
  BY <1>2, <1>3, CallsGood
<1> QED BY <1>1, <1>4, CallKeeps DEF GelfUpdatePhdr, Call

\* The calls that only read, and elf_update(e, ELF_C_NULL).
LEMMA ReadsKeep ==
  ASSUME ObjectInv, GetEhdr \/ GetPhdr \/ GetScn \/ UpdateNull PROVE ObjectInv'
<1>1. PICK r : Result(e, r) /\ Idle /\ e' = r.d /\ stop' = r.stop /\ UNCHANGED <<disk, img, step, commits>>
  BY CallsGood DEF GetEhdr, GetPhdr, GetScn, UpdateNull, Call
<1> QED BY <1>1, CallKeeps

\* elf_update(e, ELF_C_WRITE) up to its first system call.
LEMMA UpdateWriteKeeps == ASSUME ObjectInv, UpdateWrite PROVE ObjectInv'
<1>1. PICK r \in Then(Resync(e), Build) :
        e' = r.d /\ stop' = r.stop /\ step' = IF r.ok THEN "built" ELSE "idle"
  BY DEF UpdateWrite
<1>2. Result(e, r) /\ (r.ok => AllInMemory(r.d) /\ Ready(r.d))
  BY CallsGood, UpdateGood
<1>3. e.cmd # "READ" /\ UNCHANGED <<disk, img, commits>>
  BY DEF UpdateWrite
<1>4. Good(e') /\ e'.cmd = e.cmd /\ stop' \in Stops
  BY <1>1, <1>2 DEF Result
<1>5. Good(e)'
  BY <1>3, <1>4, SameFile
<1>6. e' \in Descriptor
  BY <1>4 DEF Good, DescOK
<1>7. ObjectTypeOK'
  BY <1>1, <1>3, <1>4, <1>6 DEF ObjectInv, ObjectTypeOK, Stops
<1>8. step' # "idle" => step' = "built" /\ stop' = "no" /\ AllInMemory(e') /\ Ready(e')
  BY <1>1, <1>2 DEF Result
<1>9. Committing'
  BY <1>3, <1>4, <1>8 DEF Committing, AllInMemory, Ready
<1>10. stop' # "listed"
  BY <1>4 DEF Stops
<1> QED BY <1>5, <1>7, <1>9, <1>10 DEF ObjectInv

\* Only what e_rawfile points to changes.
LEMMA OtherRaw ==
  ASSUME Good(e), NEW w \in {"mapped", "copy", "unmapped", "failed"}, e.raw # "none",
         w \in {"unmapped", "failed"} => AllInMemory(e) /\ e.loaded
  PROVE  LET f == [e EXCEPT !.raw = w]
         IN  /\ Good(f) /\ f.raw = w /\ f.cmd = e.cmd /\ AllInMemory(f) = AllInMemory(e)
             /\ Ready(f) = Ready(e) /\ f.ph = e.ph /\ Written(f) = Written(e)
<1> DEFINE f == [e EXCEPT !.raw = w]
<1>1. e \in Descriptor
  BY DEF Good, DescOK
<1>2. /\ f \in Descriptor /\ f.cmd = e.cmd /\ f.raw = w /\ f.hdr = e.hdr /\ f.xstr = e.xstr
      /\ f.loaded = e.loaded /\ f.scns = e.scns /\ f.nscn = e.nscn /\ f.ph = e.ph
      /\ f.nphdr = e.nphdr
  BY <1>1 DEF Descriptor
<1> HIDE DEF f
<1>3. HeaderFirst(f) /\ Ascending(f) /\ TableFits(f)
  BY <1>2 DEF Good, DescOK, HeaderFirst, Ascending, TableFits
<1>4. RawKnown(f)
  BY <1>2 DEF Good, DescOK, RawKnown, AllInMemory
<1>5. commits = 0 => Unforgotten(f)
  BY <1>2 DEF Good, Unforgotten, Ready, FullList
<1>6. Good(f)
  BY <1>2, <1>3, <1>4, <1>5 DEF Good, DescOK
<1>7. AllInMemory(f) = AllInMemory(e) /\ Ready(f) = Ready(e) /\ Written(f) = Written(e)
  BY <1>2 DEF AllInMemory, Ready, Written, Listed
<1> QED BY <1>2, <1>6, <1>7 DEF f

\* What is written to the file.
LEMMA WrittenType ==
  ASSUME e \in Descriptor
  PROVE  Written(e) \in Image /\ [Written(e) EXCEPT !.fault = "torn"] \in Image /\ Empty \in Image
<1>1. e.nscn \in Nat /\ e.nphdr \in Nat /\ e.xstr \in BOOLEAN /\ e.scns \in Seq(Nat)
  BY Fields
<1>2. Listed(e) \subseteq Nat
  BY <1>1, LenProperties, ElementOfSeq DEF Listed
<1>3. Written(e) \in Image
  BY <1>1, <1>2 DEF Written, Image
<1>4. [Written(e) EXCEPT !.fault = "torn"] \in Image
  BY <1>3 DEF Image
<1> QED BY <1>3, <1>4 DEF Empty, Image

\* What a system call of the commit leaves in place.
LEMMA SameDescriptor ==
  ASSUME ObjectInv, UNCHANGED <<e, img, stop, commits>>, disk' \in Image,
         step' \in {"idle", "built", "truncated", "unmapped", "written"}, Committing'
  PROVE  ObjectInv'
<1>1. Good(e)'
  BY SameFile DEF ObjectInv
<1> QED BY <1>1 DEF ObjectInv, ObjectTypeOK

\* ftruncate, lseek and the write.
LEMMA WritesKeep == ASSUME ObjectInv, Truncate \/ WriteOut PROVE ObjectInv'
<1>1. e \in Descriptor /\ disk \in Image
  BY DEF ObjectInv, ObjectTypeOK
<1>2. /\ UNCHANGED <<e, img, stop, commits>>
      /\ disk' \in {disk, Empty, Written(e), [Written(e) EXCEPT !.fault = "torn"]}
      /\ step' \in {"idle", "truncated", "written"}
  BY DEF Truncate, WriteOut, GiveUp
<1>3. disk' \in Image
  BY <1>1, <1>2, WrittenType
<1>4. Committing'
  <2> SUFFICES ASSUME step' # "idle" PROVE Committing'
    BY DEF Committing
  <2>1. step # "idle"
    BY DEF Truncate, WriteOut
  <2>2. stop = "no" /\ e.cmd # "READ" /\ AllInMemory(e) /\ Ready(e)
    BY <2>1 DEF ObjectInv, Committing
  <2>3. step' = "written" => disk' = Written(e) /\ e.raw \in {"unmapped", "copy", "none"}
    <3> SUFFICES ASSUME step' = "written"
                 PROVE  disk' = Written(e) /\ e.raw \in {"unmapped", "copy", "none"}
      OBVIOUS
    <3>1. WriteOut /\ disk' = Written(e)
      BY DEF Truncate, WriteOut, GiveUp
    <3>2. CASE step = "unmapped"
      BY <3>1, <3>2 DEF ObjectInv, Committing
    <3>3. CASE ~IsMapped
      BY <3>1, <3>3, <1>1, Fields DEF IsMapped
    <3> QED BY <3>1, <3>2, <3>3 DEF WriteOut
  <2>4. step' # "unmapped"
    BY <1>2
  <2> QED BY <1>2, <2>2, <2>3, <2>4 DEF Committing, AllInMemory, Ready, Written, Listed
<1> QED BY <1>2, <1>3, <1>4, SameDescriptor

\* munmap
LEMMA UnmapKeeps == ASSUME ObjectInv, Unmap PROVE ObjectInv'
<1>1. /\ Good(e) /\ stop = "no" /\ e.cmd # "READ" /\ AllInMemory(e) /\ Ready(e)
      /\ step = "truncated" /\ disk \in Image
  BY DEF Unmap, ObjectInv, Committing, ObjectTypeOK
<1>2. UNCHANGED <<disk, img, stop, commits>>
  BY DEF Unmap, GiveUp
<1>3. CASE e' = e /\ GiveUp
  <2>1. Committing' /\ step' = "idle"
    BY <1>3 DEF Committing, GiveUp
  <2> QED BY <1>1, <1>2, <1>3, <2>1, SameDescriptor
<1>4. CASE e.raw # "failed" /\ e' = [e EXCEPT !.raw = "unmapped"] /\ step' = "unmapped"
  <2>1. e.raw # "none" /\ e.loaded
    BY <1>1 DEF Unmap, IsMapped, Ready, Good, DescOK, RawKnown
  <2>2. /\ Good(e') /\ e'.raw = "unmapped" /\ e'.cmd = e.cmd /\ AllInMemory(e') = AllInMemory(e)
        /\ Ready(e') = Ready(e)
    BY <1>1, <1>4, <2>1, OtherRaw
  <2>3. Good(e)'
    BY <1>2, <2>2, SameFile
  <2>4. e' \in Descriptor
    BY <2>2 DEF Good, DescOK
  <2>5. AllInMemory(e') /\ Ready(e')
    BY <1>1, <2>2
  <2>6. Committing'
    BY <1>1, <1>2, <1>4, <2>2, <2>5 DEF Committing, AllInMemory, Ready
  <2> QED BY <1>2, <1>4, <2>3, <2>4, <2>6 DEF ObjectInv, ObjectTypeOK
<1> QED BY <1>3, <1>4 DEF Unmap

\* The read of what was written, and what elf_update forgets then.
LEMMA FinishKeeps == ASSUME ObjectInv, Finish PROVE ObjectInv'
<1>1. /\ Good(e) /\ stop = "no" /\ AllInMemory(e) /\ Ready(e) /\ e \in Descriptor
      /\ e.raw \in {"unmapped", "copy", "none"} /\ commits \in Nat /\ img \in Image /\ disk \in Image
  BY DEF Finish, ObjectInv, Committing, ObjectTypeOK
<1>2. UNCHANGED <<disk, stop>> /\ step' = "idle"
  BY DEF Finish
<1>3. Committing'
  BY <1>2 DEF Committing
<1>4. CASE e.raw = "unmapped" /\ e' = [e EXCEPT !.raw = "failed"] /\ UNCHANGED <<img, commits>>
  <2>1. e.raw # "none" /\ e.loaded
    BY <1>1, <1>4 DEF Ready, Good, DescOK, RawKnown
  <2>2. Good(e')
    BY <1>1, <1>4, <2>1, OtherRaw
  <2>3. Good(e)'
    BY <1>4, <2>2, SameFile
  <2>4. e' \in Descriptor
    BY <2>2 DEF Good, DescOK
  <2> QED BY <1>2, <1>3, <1>4, <2>3, <2>4 DEF ObjectInv, ObjectTypeOK
<1>5. CASE /\ e' = Forget([e EXCEPT !.raw = IF @ = "unmapped" THEN "mapped" ELSE @])
           /\ img' = IF e.cmd = "RDWR" THEN disk ELSE img
           /\ commits' = commits + 1
  <2> DEFINE w == IF e.raw = "unmapped" THEN "mapped" ELSE e.raw
  <2>1. /\ e' = [e EXCEPT !.raw = w, !.scns = <<>>, !.hdr = FALSE, !.ph = NoTab]
        /\ w \in {"mapped", "copy", "none"} /\ (w = "none" <=> e.raw = "none")
    BY <1>1, <1>5 DEF Forget
  <2> HIDE DEF w
  <2>9. <<>> \in Seq(Nat) /\ NoTab \in Nat \cup {NoTab}
    OBVIOUS
  <2>2. /\ e' \in Descriptor /\ e'.cmd = e.cmd /\ e'.raw = w /\ e'.hdr = FALSE
        /\ e'.scns = <<>> /\ e'.ph = NoTab
    BY <1>1, <2>1, <2>9 DEF Descriptor
  <2>3. HeaderFirst(e') /\ TableFits(e')
    BY <2>2 DEF HeaderFirst, TableFits
  <2>4. Ascending(e')
    BY <2>2 DEF Ascending
  <2>5. RawKnown(e')
    BY <1>1, <2>1, <2>2 DEF RawKnown, Good, DescOK
  <2>6. commits' # 0 /\ commits' \in Nat
    BY <1>1, <1>5
  <2>7. Good(e)'
    BY <2>2, <2>3, <2>4, <2>5, <2>6 DEF Good, DescOK, HeaderFirst, TableFits, Ascending, RawKnown, AllInMemory
  <2>8. img' \in Image
    BY <1>1, <1>5
  <2> QED BY <1>2, <1>3, <2>2, <2>6, <2>7, <2>8 DEF ObjectInv, ObjectTypeOK
<1> QED BY <1>4, <1>5 DEF Finish

\* The invariant holds when a file is opened.
LEMMA ObjectStarts == ObjectInit => ObjectInv
<1> SUFFICES ASSUME ObjectInit PROVE ObjectInv
  OBVIOUS
<1>1. PICK c \in {"READ", "RDWR", "WRITE"}, r \in {"mapped", "copy", "none"} :
        e = Opened(c, r) /\ (r = "none" <=> c = "WRITE") /\ (c = "WRITE" => img = Empty)
  BY DEF ObjectInit
<1>2. e \in Descriptor /\ <<>> \in Seq(Nat)
  BY <1>1 DEF Opened, Descriptor
<1>3. disk \in Image /\ img \in Image
  <2>1. Empty \in Image
    BY DEF Empty, Image
  <2>2. ASSUME NEW i \in ObjectFiles PROVE i \in Image
    <3>1. i \in [nsh : Nat, rows : SUBSET Nat, nph : Nat, xstr : BOOLEAN, fault : Faults]
      <4>1. 0..MaxScns \subseteq Nat /\ 0..MaxPhdrs \subseteq Nat
        BY ObjectAssumption
      <4>2. \A n \in -1..MaxScns - 1 : 0..n \subseteq Nat
        OBVIOUS
      <4> QED BY <4>1, <4>2 DEF ObjectFiles
    <3> QED BY <3>1 DEF Image, Faults
  <2>3. (img = Empty \/ (disk \in ObjectFiles /\ img = disk)) /\ (disk = Empty \/ disk \in ObjectFiles)
    BY DEF ObjectInit
  <2> QED BY <2>1, <2>2, <2>3
<1>4. ObjectTypeOK /\ Committing /\ stop # "listed"
  BY <1>2, <1>3 DEF ObjectInit, ObjectTypeOK, Committing
<1>5. /\ ~e.hdr /\ e.scns = <<>> /\ e.ph = NoTab /\ e.nscn = 0 /\ ~e.loaded /\ e.cmd = c
      /\ e.raw = r
  BY <1>1 DEF Opened
<1>6. DescOK(e)
  BY <1>1, <1>2, <1>5 DEF DescOK, HeaderFirst, Ascending, TableFits, RawKnown
<1>7. Unforgotten(e)
  BY <1>1, <1>5 DEF Unforgotten, Ready, Empty
<1> QED BY <1>4, <1>6, <1>7 DEF ObjectInv, Good

\* Every step keeps the invariant.
LEMMA ObjectSteps == ObjectInv /\ [ObjectNext]_objectVars => ObjectInv'
<1> SUFFICES ASSUME ObjectInv, [ObjectNext]_objectVars PROVE ObjectInv'
  OBVIOUS
<1>1. CASE GetEhdr \/ GetPhdr \/ GetScn \/ UpdateNull
  BY <1>1, ReadsKeep
<1>2. CASE NewScn \/ UpdateWrite
  BY <1>2, NewScnKeeps, UpdateWriteKeeps
<1>3. CASE Commit
  BY <1>3, WritesKeep, UnmapKeeps, FinishKeeps DEF Commit
<1>4. ASSUME NEW n \in 0..MaxPhdrs, NewPhdr(n) \/ GelfUpdatePhdr(n) PROVE ObjectInv'
  BY <1>4, NewPhdrKeeps, GelfUpdatePhdrKeeps
<1>5. ASSUME NEW big \in BOOLEAN, SetShstrndx(big) PROVE ObjectInv'
  BY <1>5, SetShstrndxKeeps
<1>6. CASE UNCHANGED objectVars
  <2>1. UNCHANGED <<disk, img, e, step, stop, commits>>
    BY <1>6 DEF objectVars
  <2>2. Good(e)'
    BY <2>1, SameFile DEF ObjectInv
  <2>3. Committing'
    BY <2>1 DEF ObjectInv, Committing, AllInMemory, Ready, Written, Listed
  <2> QED BY <2>1, <2>2, <2>3 DEF ObjectInv, ObjectTypeOK
<1> QED BY <1>1, <1>2, <1>3, <1>4, <1>5, <1>6 DEF ObjectNext

\* Along every sequence of calls, failures and commits the invariant holds.
THEOREM ObjectInvariant == ObjectSpec => []ObjectInv
  BY ObjectStarts, ObjectSteps, PTL DEF ObjectSpec

\* Types: the counters, the list and the files.
THEOREM ObjectTyped == ObjectSpec => []ObjectTypeOK
<1>1. ObjectInv => ObjectTypeOK
  BY DEF ObjectInv
<1> QED BY <1>1, ObjectInvariant, PTL

\* No two sections of a descriptor have one index (elf_scn.c), whether they were
\* read, added or set up by themselves, before and after any number of commits.
THEOREM IndicesAlwaysDistinct == ObjectSpec => []IndicesDistinct
<1>1. ObjectInv => IndicesDistinct
  <2> SUFFICES ASSUME ObjectInv, NEW j \in DOMAIN e.scns, NEW k \in DOMAIN e.scns,
                      e.scns[j] = e.scns[k], j # k
               PROVE  FALSE
    BY DEF IndicesDistinct
  <2>1. Ascending(e) /\ e.scns \in Seq(Nat)
    BY Fields DEF ObjectInv, Good, DescOK
  <2>2. j \in Nat /\ k \in Nat /\ e.scns[j] \in Nat /\ e.scns[k] \in Nat
    BY <2>1, LenProperties, ElementOfSeq
  <2>3. j < k \/ k < j
    BY <2>2
  <2> QED BY <2>1, <2>2, <2>3 DEF Ascending
<1> QED BY <1>1, ObjectInvariant, PTL

\* Callers index the program header table with e_nphdr (libelf_phdr.c): it always
\* has that many entries.
THEOREM PhdrTableAlwaysFits == ObjectSpec => []PhdrTableFits
<1>1. ObjectInv => PhdrTableFits
  BY DEF ObjectInv, Good, DescOK, TableFits, PhdrTableFits
<1> QED BY <1>1, ObjectInvariant, PTL

\* The assertion of _libelf_load_extended never fails (libelf_ehdr.c:60).
THEOREM ExtendedAlwaysEmpty == ObjectSpec => []ExtendedFindsEmptyList
<1>1. ObjectInv => ExtendedFindsEmptyList
  BY DEF ObjectInv, ExtendedFindsEmptyList
<1> QED BY <1>1, ObjectInvariant, PTL

\* After an update that failed between munmap and mmap (elf_update.c), no call
\* reads a header or a table from where the file was mapped.
THEOREM UnmappedNeverRead == ObjectSpec => []TablesNeverReadUnmapped
<1>1. ObjectInv => TablesNeverReadUnmapped
  BY DEF ObjectInv, Good, DescOK, RawKnown, AllInMemory, TablesNeverReadUnmapped
<1> QED BY <1>1, ObjectInvariant, PTL

\* What the first successful elf_update(e, ELF_C_WRITE) leaves in the file has
\* every section header, and no section fewer than the file that was read.
THEOREM FirstCommitAlwaysComplete == ObjectSpec => FirstCommitComplete
<1> DEFINE A == commits = 0 /\ commits' = 1 =>
                  /\ disk.rows = 0..disk.nsh - 1
                  /\ img.fault \in {"none", "phtab"} /\ ~Extended(img) => disk.nsh >= img.nsh
<1>1. ObjectInv /\ [ObjectNext]_objectVars => [A]_objectVars
  <2> SUFFICES ASSUME ObjectInv, ObjectNext, commits = 0, commits' = 1
               PROVE  /\ disk.rows = 0..disk.nsh - 1
                      /\ img.fault \in {"none", "phtab"} /\ ~Extended(img) => disk.nsh >= img.nsh
    OBVIOUS
  <2>1. commits' # commits
    OBVIOUS
  <2>2. Finish
    BY <2>1 DEF ObjectNext, Commit, Truncate, Unmap, WriteOut, GiveUp, GetEhdr, GetPhdr, GetScn,
       NewScn, UpdateNull, UpdateWrite, NewPhdr, GelfUpdatePhdr, SetShstrndx, Call
  <2>3. disk = Written(e) /\ AllInMemory(e) /\ Ready(e) /\ Unforgotten(e) /\ e \in Descriptor
    BY <2>2 DEF Finish, ObjectInv, Committing, Good, DescOK
  <2>4. disk.nsh = e.nscn /\ disk.rows = (IF e.nscn = 0 THEN {} ELSE Listed(e))
    BY <2>3 DEF Written
  <2>5. e.nscn \in Nat /\ e.scns \in Seq(Nat)
    BY <2>3, Fields
  <2>6. disk.rows = 0..e.nscn - 1
    <3>1. CASE e.nscn = 0
      BY <2>4, <3>1
    <3>2. CASE e.nscn # 0
      <4>1. FullList(e)
        BY <2>3, <2>5, <3>2 DEF Unforgotten
      <4>2. DOMAIN e.scns = 1..e.nscn
        BY <4>1, <2>5, LenProperties DEF FullList
      <4>3. \A j \in 1..e.nscn : e.scns[j] = j - 1
        BY <4>1, <4>2 DEF FullList
      <4>4. Listed(e) = {e.scns[j] : j \in 1..e.nscn}
        BY <4>2 DEF Listed
      <4>5. ASSUME NEW x PROVE x \in Listed(e) <=> x \in 0..e.nscn - 1
        <5>1. ASSUME x \in Listed(e) PROVE x \in 0..e.nscn - 1
          BY <5>1, <4>3, <4>4, <2>5
        <5>2. ASSUME x \in 0..e.nscn - 1 PROVE x \in Listed(e)
          <6>1. x + 1 \in 1..e.nscn /\ e.scns[x + 1] = x
            BY <5>2, <4>3, <2>5
          <6> QED BY <6>1, <4>4
        <5> QED BY <5>1, <5>2
      <4> QED BY <4>5, <2>4, <3>2
    <3> QED BY <3>1, <3>2
  <2>7. CountsKnown => e.nscn >= img.nsh
    <3> SUFFICES ASSUME CountsKnown PROVE e.nscn >= img.nsh
      OBVIOUS
    <3>1. e.hdr
      BY <2>3 DEF AllInMemory
    <3>2. e.cmd # "WRITE"
      BY <2>3 DEF Unforgotten, CountsKnown
    <3> QED BY <2>3, <3>1, <3>2 DEF Unforgotten
  <2> QED BY <2>4, <2>6, <2>7 DEF CountsKnown
<1> QED BY <1>1, ObjectInvariant, PTL DEF ObjectSpec, FirstCommitComplete

==============================================================================
