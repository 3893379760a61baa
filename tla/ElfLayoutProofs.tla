-------------------------- MODULE ElfLayoutProofs --------------------------
(***************************************************************************)
(* Proofs about ElfLayout, for every value of its constants: the types of  *)
(* the variables, the order of the extent list, the size of the object,   *)
(* and that the library never refuses its own layout, of which IndInv is   *)
(* the inductive strengthening; then, from PlacedInv and ImgInv, that      *)
(* every byte of the image written is the one the object has there, and    *)
(* from StableInv that laying out twice gives what laying out once did.    *)
(***************************************************************************)
EXTENDS ElfLayout, SequenceTheorems, TLAPS

\* t is s with e inserted at position p.
IsInsertion(t, s, p, e) ==
    /\ Len(t) = Len(s) + 1
    /\ \A k \in 1..Len(s) + 1 :
          t[k] = IF k < p THEN s[k] ELSE IF k = p THEN e ELSE s[k - 1]

\* InsertAt: the length and the elements of the new sequence.
LEMMA InsertAtElements ==
    ASSUME NEW S, NEW s \in Seq(S), NEW e \in S, NEW p \in 1..Len(s) + 1
    PROVE  InsertAt(s, p, e) \in Seq(S) /\ IsInsertion(InsertAt(s, p, e), s, p, e)
<1> DEFINE a == SubSeq(s, 1, p - 1)
           b == SubSeq(s, p, Len(s))
           ae == a \o <<e>>
<1>1. /\ a \in Seq(S) /\ Len(a) = p - 1 /\ \A k \in 1..p - 1 : a[k] = s[k]
  BY LenProperties, SubSeqProperties
<1>2. /\ b \in Seq(S) /\ Len(b) = Len(s) - p + 1
      /\ \A k \in 1..Len(s) - p + 1 : b[k] = s[p + k - 1]
  BY LenProperties, SubSeqProperties
<1>3. /\ ae \in Seq(S) /\ Len(ae) = p
      /\ \A k \in 1..p : ae[k] = IF k < p THEN s[k] ELSE e
  <2> HIDE DEF a
  <2>1. ae = Append(a, e)
    BY <1>1, AppendIsConcat
  <2>2. p - 1 \in Nat /\ p - 1 + 1 = p
    BY LenProperties
  <2> HIDE DEF ae
  <2> QED BY <1>1, <2>1, <2>2, AppendProperties
<1>4. /\ ae \o b \in Seq(S) /\ Len(ae \o b) = Len(s) + 1
      /\ \A k \in 1..Len(s) + 1 : (ae \o b)[k] = IF k <= p THEN ae[k] ELSE b[k - p]
  <2> HIDE DEF ae, b
  <2>1. Len(s) \in Nat
    BY LenProperties
  <2> QED BY <1>2, <1>3, <2>1, ConcatProperties
<1>5. ASSUME NEW k \in 1..Len(s) + 1, k > p
      PROVE  b[k - p] = s[k - 1]
  <2> HIDE DEF b
  <2>1. Len(s) \in Nat
    BY LenProperties
  <2>2. k - p \in 1..Len(s) - p + 1
    BY <2>1, <1>5
  <2> QED BY <1>2, <2>1, <2>2
<1>6. InsertAt(s, p, e) = ae \o b
  BY DEF InsertAt
<1> HIDE DEF a, b, ae
<1> QED BY <1>3, <1>4, <1>5, <1>6, LenProperties DEF IsInsertion

----------------------------------------------------------------------------
(* The extent list. *)

LastEnd == IF ext = <<>> THEN 0 ELSE End(ext[Len(ext)])

\* What _libelf_insert_extent does to a sorted list: the list stays sorted, it
\* gains the new extent and nothing else, and its end is the larger of the two.
LEMMA InsertExtentCorrect ==
    ASSUME ext \in Seq(ExtRec), ExtentsSorted,
           NEW kind \in {"EHDR", "PHDR", "SECTION", "SHDR"},
           NEW start \in Nat, NEW size \in Nat, NEW s \in Nat,
           InsertExtent(kind, start, size, s)
    PROVE  /\ ext' \in Seq(ExtRec) /\ ext' # <<>>
           /\ ExtentsSorted'
           /\ LastEnd' = Bigger(LastEnd, start + size)
           /\ \A k \in DOMAIN ext' :
                \/ ext'[k] = [start |-> start, size |-> size, kind |-> kind, s |-> s]
                \/ \E h \in DOMAIN ext : ext'[k] = ext[h]
<1> DEFINE x == [start |-> start, size |-> size, kind |-> kind, s |-> s]
           n == Len(ext)
<1>1. PICK p \in 1..n + 1 : /\ IsSlot(p, start) /\ Unused(p, start, size)
                            /\ ext' = InsertAt(ext, p, x)
  BY DEF InsertExtent
<1>2. x \in ExtRec /\ n \in Nat /\ DOMAIN ext = 1..n
  BY LenProperties DEF ExtRec
<1>3. \A k \in 1..n : ext[k] \in ExtRec
  BY <1>2, ElementOfSeq
<1>4. /\ ext' \in Seq(ExtRec) /\ Len(ext') = n + 1 /\ DOMAIN ext' = 1..n + 1
      /\ \A k \in 1..n + 1 : ext'[k] = IF k < p THEN ext[k] ELSE IF k = p THEN x ELSE ext[k - 1]
  <2> HIDE DEF x
  <2>1. InsertAt(ext, p, x) \in Seq(ExtRec) /\ IsInsertion(InsertAt(ext, p, x), ext, p, x)
    <3>1. ext \in Seq(ExtRec) /\ x \in ExtRec /\ p \in 1..Len(ext) + 1
      BY <1>2
    <3> QED BY ONLY <3>1, InsertAtElements
  <2> HIDE DEF n
  <2>2. DOMAIN ext' = 1..Len(ext')
    BY <1>1, <2>1, LenProperties
  <2> QED BY <1>1, <2>1, <2>2 DEF n, IsInsertion
<1>5. /\ \A k \in 1..p - 1 : ext[k].start + ext[k].size <= start
      /\ p <= n => start + size <= ext[p].start
  BY <1>1 DEF IsSlot, Unused, End
<1>6. \A i, j \in 1..n : i < j => ext[i].start + ext[i].size <= ext[j].start
  BY <1>2 DEF ExtentsSorted, End
<1>7. \A k \in 1..n : ext[k].start \in Nat /\ ext[k].size \in Nat
  BY <1>3 DEF ExtRec
<1>8. x.start = start /\ x.size = size
  OBVIOUS
<1> HIDE DEF x, n
<1>12. \A i, j \in 1..n : i <= j => ext[i].start <= ext[j].start
  <2> SUFFICES ASSUME NEW i \in 1..n, NEW j \in 1..n, i <= j
               PROVE  ext[i].start <= ext[j].start
    OBVIOUS
  <2>1. ext[i].start \in Nat /\ ext[i].size \in Nat /\ ext[j].start \in Nat
    BY <1>7
  <2>2. CASE i = j
    BY ONLY <2>1, <2>2
  <2>3. CASE i < j
    <3>1. ext[i].start + ext[i].size <= ext[j].start
      BY <2>3, <1>6
    <3> QED BY ONLY <2>1, <3>1
  <2> QED BY <1>2, <2>2, <2>3
<1>9. ExtentsSorted'
  <2> SUFFICES ASSUME NEW i \in 1..n + 1, NEW j \in 1..n + 1, i < j
               PROVE  ext'[i].start + ext'[i].size <= ext'[j].start
    BY <1>4 DEF ExtentsSorted, End
  <2>1. CASE j < p
    BY <2>1, <1>2, <1>4, <1>6
  <2>2. CASE j = p
    BY <2>2, <1>2, <1>4, <1>5, <1>8
  <2>3. CASE j > p /\ i < p
    <3>1. i \in 1..n /\ j - 1 \in 1..n /\ i < j
      BY <2>3, <1>2
    <3>2. ext'[i] = ext[i] /\ ext'[j] = ext[j - 1]
      BY <2>3, <1>2, <1>4
    <3>3. ext[i].start + ext[i].size <= ext[j - 1].start
      BY <2>3, <3>1, <1>6, <1>2
    <3> QED BY <3>2, <3>3
  <2>4. CASE j > p /\ i = p
    <3>1. p \in 1..n /\ j - 1 \in 1..n /\ p <= j - 1
      BY <2>4, <1>2
    <3>2. ext'[i] = x /\ ext'[j] = ext[j - 1]
      BY <2>4, <1>2, <1>4
    <3>3. ext[p].start <= ext[j - 1].start
      BY <3>1, <1>12
    <3> QED BY <3>1, <3>2, <3>3, <1>5, <1>7, <1>8
  <2>5. CASE j > p /\ i > p
    <3>1. i - 1 \in 1..n /\ j - 1 \in 1..n /\ i - 1 < j - 1
      BY <2>5, <1>2
    <3>2. ext'[i] = ext[i - 1] /\ ext'[j] = ext[j - 1]
      BY <2>5, <1>2, <1>4
    <3> QED BY <3>1, <3>2, <1>6
  <2> QED BY <2>1, <2>2, <2>3, <2>4, <2>5, <1>2
<1>10. LastEnd' = Bigger(LastEnd, start + size)
  <2>1. ext' # <<>> /\ LastEnd' = ext'[n + 1].start + ext'[n + 1].size
    BY <1>2, <1>4 DEF LastEnd, End
  <2>2. CASE p = n + 1
    <3>1. LastEnd' = start + size
      BY <2>1, <2>2, <1>2, <1>4, <1>8
    <3>2. LastEnd <= start
      <4>1. CASE ext = <<>>
        BY <4>1 DEF LastEnd
      <4>2. CASE ext # <<>>
        <5>1. n \in 1..p - 1
          BY <4>2, <2>2, <1>2
        <5>2. ext[n].start + ext[n].size <= start
          BY <5>1, <1>5
        <5> QED BY <4>2, <5>2 DEF LastEnd, End, n
      <4> QED BY <4>1, <4>2
    <3>3. LastEnd \in Nat
      <4>1. CASE ext # <<>>
        BY <4>1, <1>2, <1>7 DEF LastEnd, End
      <4> QED BY <4>1 DEF LastEnd
    <3> QED BY <3>1, <3>2, <3>3 DEF Bigger
  <2>3. CASE p <= n
    <3>1. n \in 1..n /\ ext # <<>> /\ p \in 1..n
      BY <2>3, <1>2
    <3>2. LastEnd = ext[n].start + ext[n].size /\ LastEnd' = LastEnd
      BY <2>1, <2>3, <3>1, <1>2, <1>4 DEF LastEnd, End
    <3>3. ext[p].start <= ext[n].start
      BY <3>1, <1>12
    <3>4. /\ ext[n].start \in Nat /\ ext[n].size \in Nat /\ ext[p].start \in Nat
          /\ start + size <= ext[p].start
      BY <2>3, <3>1, <1>5, <1>7
    <3>5. start + size <= LastEnd /\ LastEnd \in Nat
      BY ONLY start \in Nat, size \in Nat, <3>2, <3>3, <3>4
    <3> QED BY <3>2, <3>5 DEF Bigger
  <2> QED BY <2>2, <2>3, <1>2
<1>11. ASSUME NEW k \in DOMAIN ext'
       PROVE  ext'[k] = x \/ \E h \in DOMAIN ext : ext'[k] = ext[h]
  <2>1. CASE k < p
    BY <2>1, <1>2, <1>4
  <2>2. CASE k = p
    BY <2>2, <1>4
  <2>3. CASE k > p
    <3>1. k - 1 \in DOMAIN ext /\ ext'[k] = ext[k - 1]
      BY <2>3, <1>2, <1>4
    <3> QED BY <3>1
  <2> QED BY <2>1, <2>2, <2>3, <1>2, <1>4
<1> QED BY <1>4, <1>9, <1>10, <1>11, <1>2 DEF x

----------------------------------------------------------------------------
(* Facts about the operators. *)

\* The larger of two offsets is a natural number no smaller than either.
LEMMA BiggerNat ==
    ASSUME NEW a \in Nat, NEW b \in Nat
    PROVE  Bigger(a, b) \in Nat /\ Bigger(a, b) >= a /\ Bigger(a, b) >= b
  BY DEF Bigger

\* Rounding up never goes down, and stays a natural number.
LEMMA RoundupNat ==
    ASSUME NEW x \in Nat, NEW a \in Nat \ {0}
    PROVE  roundup(x, a) \in Nat /\ roundup(x, a) >= x
<1> DEFINE q == (x + a - 1) \div a
<1>1. /\ q \in Int /\ a * q <= x + a - 1 /\ x + a - 1 < a * q + a
  BY Z3
<1> HIDE DEF q
<1>2. q * a = a * q /\ a * q \in Int
  BY <1>1
<1>3. a * q >= x
  BY <1>1, <1>2
<1>4. roundup(x, a) = q * a
  BY DEF roundup, q
<1> QED BY <1>2, <1>3, <1>4

\* compute_section_extents never rounds up to a multiple of zero.
LEMMA ShAlignPositive ==
    ASSUME NEW s \in ScnRec, s.type \in DOMAIN FAlign
    PROVE  ShAlign(s) \in Nat \ {0}
  BY SizesAssumption DEF ShAlign, ScnRec

\* The descriptor elf_getdata makes of the bytes in the file is a descriptor.
LEMMA LoadedType ==
    ASSUME NEW s \in ScnRec
    PROVE  Loaded(s) \in DataRec
<1>1. s.off \in Nat /\ s.size \in Nat /\ s.align \in Nat
  BY DEF ScnRec
<1>2. CASE s.type = "NOBITS" \/ s.size = 0
  BY <1>1, <1>2 DEF Loaded, DataRec
<1>3. CASE ~(s.type = "NOBITS" \/ s.size = 0)
  BY <1>1, <1>3 DEF Loaded, DataRec
<1> QED BY <1>2, <1>3

\* Replacing one section keeps the list of sections a list of sections.
LEMMA ScnReplaced ==
    ASSUME scn \in Seq(ScnRec), NEW i \in DOMAIN scn, NEW r \in ScnRec
    PROVE  /\ [scn EXCEPT ![i] = r] \in Seq(ScnRec)
           /\ DOMAIN [scn EXCEPT ![i] = r] = DOMAIN scn
           /\ Len([scn EXCEPT ![i] = r]) = Len(scn)
  BY ExceptSeq, LenProperties

----------------------------------------------------------------------------
(* The inductive invariant: types, the extent list, and where the loops are. *)

ObjType ==
    /\ cmd \in {"READ", "RDWR", "WRITE"} /\ rawsize \in Nat /\ fd \in BOOLEAN
    /\ layout \in BOOLEAN /\ eh \in EhdrRec /\ phnum \in Nat
    /\ scn \in Seq(ScnRec) /\ nupd \in Nat

Pcs == {"idle", "ehdr", "phdr", "scn", "data", "resynced", "write", "wraw", "wscn",
        "written", "aborted"}

Results == [ok : BOOLEAN, rc : Nat, err : Errors]

CallType ==
    /\ pc \in Pcs /\ f \in Frame /\ ext \in Seq(ExtRec)
    /\ ret \in Results /\ prev \in Nat \cup {-1}

\* The list is empty only before the executable header is placed, which is all
\* there is when the program header table is placed; the section loops are at a
\* section; the extents of sections are those of e_scn.
LoopInv ==
    /\ ext = <<>> <=> pc \in {"idle", "ehdr"}
    /\ pc = "phdr" => f.rc = EhdrSize
    /\ pc = "data" => f.si \in DOMAIN scn /\ scn[f.si].type \in DOMAIN FAlign
    /\ pc \in {"wraw", "wscn"} => f.si \in DOMAIN ext /\ ext[f.si].kind = "SECTION"
    /\ \A k \in DOMAIN ext : ext[k].kind = "SECTION" => ext[k].s \in DOMAIN scn

CallInv == CallType /\ ExtentsSorted /\ SizeIsEnd /\ LoopInv

IndInv == ObjType /\ CallInv

\* A failure is a result of elf_update.
LEMMA FailedResult ==
    ASSUME NEW e \in Errors
    PROVE  Failed(e) \in Results
  BY DEF Failed, Results

\* Between two calls the list is empty: what is said of extents is vacuous.
LEMMA EmptyListInv ==
    ASSUME ext = <<>>
    PROVE  /\ ext \in Seq(ExtRec) /\ ExtentsSorted /\ SizeIsEnd
           /\ \A k \in DOMAIN ext : ext[k].kind = "SECTION" => ext[k].s \in DOMAIN scn
<1>1. ext \in Seq(ExtRec) /\ Len(ext) = 0 /\ DOMAIN ext = {}
  BY EmptySeq, LenProperties
<1> QED BY <1>1 DEF ExtentsSorted, SizeIsEnd

\* The local variables as elf_update starts with them.
LEMMA FrameType ==
    /\ NoFrame \in Frame
    /\ \A c \in {"NULL", "WRITE"} : [NoFrame EXCEPT !.op = c] \in Frame
    /\ \A c \in {"NULL", "WRITE"} : [NoFrame EXCEPT !.op = c].rc = 0
  BY DEF NoFrame, Frame

\* The loop indices and the accumulators of a frame may be set to any value.
LEMMA FrameStart ==
    ASSUME NEW g \in Frame
    PROVE  /\ [g EXCEPT !.di = 1, !.ssz = 0, !.sal = 0] \in Frame
           /\ [g EXCEPT !.di = 1, !.ssz = 0, !.sal = 0].rc = g.rc
           /\ [g EXCEPT !.di = 1, !.ssz = 0, !.sal = 0].si = g.si
           /\ [g EXCEPT !.si = 1, !.wrc = 0] \in Frame
           /\ [g EXCEPT !.si = 1, !.wrc = 0].rc = g.rc
<1>1. 0 \in Nat /\ 1 \in Nat \ {0}
  OBVIOUS
<1> QED BY <1>1, Zenon DEF Frame

\* A return of elf_update.
LEMMA ReturnKeeps ==
    ASSUME NEW r \in Results, Return(r)
    PROVE  CallInv'
<1>1. ext' = <<>> /\ pc' = "idle" /\ f' = NoFrame /\ ret' = r
  BY DEF Return
<1>2. prev' \in Nat \cup {-1}
  BY DEF Return, Results
<1>3. /\ ext' \in Seq(ExtRec) /\ ExtentsSorted' /\ SizeIsEnd'
      /\ \A k \in DOMAIN ext' : ext'[k].kind = "SECTION" => ext'[k].s \in DOMAIN scn'
  <2>1. ext' \in Seq(ExtRec) /\ Len(ext') = 0 /\ DOMAIN ext' = {}
    BY <1>1, EmptySeq, LenProperties
  <2> QED BY <1>1, <2>1 DEF ExtentsSorted, SizeIsEnd
<1> QED BY <1>1, <1>2, <1>3, FrameType DEF CallInv, CallType, LoopInv, Pcs

\* A return with an error.
LEMMA FailKeeps ==
    ASSUME NEW e \in Errors, Fail(e)
    PROVE  CallInv'
  BY FailedResult, ReturnKeeps DEF Fail

\* A failed assertion in the middle of the call.
LEMMA AbortKeeps ==
    ASSUME CallInv, NEW e \in Errors, Abort(e), UNCHANGED scn,
           pc \notin {"idle", "ehdr"}
    PROVE  CallInv'
  BY FailedResult DEF Abort, CallInv, CallType, LoopInv, ExtentsSorted, SizeIsEnd, Pcs

\* A step inside the call that leaves the extents alone.
LEMMA StepKeeps ==
    ASSUME CallInv, pc \notin {"idle", "ehdr"}, UNCHANGED <<ext, prev>>,
           ret' \in Results, DOMAIN scn' = DOMAIN scn, f' \in Frame, f'.rc = f.rc,
           pc' \in Pcs \ {"idle", "ehdr", "phdr"},
           pc' = "data" => f'.si \in DOMAIN scn /\ scn'[f'.si].type \in DOMAIN FAlign,
           pc' \in {"wraw", "wscn"} => f'.si \in DOMAIN ext /\ ext[f'.si].kind = "SECTION"
    PROVE  CallInv'
  BY DEF CallInv, CallType, LoopInv, ExtentsSorted, SizeIsEnd, Pcs

\* A step that places an extent.
LEMMA InsertKeeps ==
    ASSUME CallInv, NEW kind \in {"EHDR", "PHDR", "SECTION", "SHDR"},
           NEW start \in Nat, NEW size \in Nat, NEW s \in Nat,
           InsertExtent(kind, start, size, s),
           kind = "SECTION" => s \in DOMAIN scn,
           DOMAIN scn' = DOMAIN scn, pc' \in {"phdr", "scn", "resynced"},
           pc' = "phdr" => f'.rc = EhdrSize, f' \in Frame,
           f'.rc = Bigger(LastEnd, start + size), UNCHANGED <<ret, prev>>
    PROVE  CallInv'
<1>1. ext \in Seq(ExtRec) /\ ExtentsSorted
  BY DEF CallInv, CallType
<1>2. /\ ext' \in Seq(ExtRec) /\ ext' # <<>> /\ ExtentsSorted'
      /\ LastEnd' = Bigger(LastEnd, start + size)
      /\ \A k \in DOMAIN ext' :
           \/ ext'[k] = [start |-> start, size |-> size, kind |-> kind, s |-> s]
           \/ \E h \in DOMAIN ext : ext'[k] = ext[h]
  BY <1>1, InsertExtentCorrect
<1>3. SizeIsEnd'
  BY <1>2 DEF SizeIsEnd, LastEnd
<1>4. \A k \in DOMAIN ext' : ext'[k].kind = "SECTION" => ext'[k].s \in DOMAIN scn'
  BY <1>2 DEF CallInv, LoopInv
<1> QED BY <1>2, <1>3, <1>4 DEF CallInv, CallType, LoopInv, Pcs

\* The invariant holds of every object a descriptor may start from.
LEMMA InitInv == Init => IndInv
<1> SUFFICES ASSUME Init PROVE IndInv
  OBVIOUS
<1>1. PICK o \in Objects :
         /\ cmd = o.cmd /\ rawsize = o.rawsize /\ phnum = o.phnum /\ scn = o.scn
         /\ eh = [phoff |-> o.phoff, shoff |-> o.shoff, fault |-> "none"]
  BY DEF Init
<1>2. o \in ObjectRec
  BY ObjectsAssumption
<1>3. ObjType
  <2>1. /\ cmd \in {"READ", "RDWR", "WRITE"} /\ rawsize \in Nat /\ phnum \in Nat
        /\ scn \in Seq(ScnRec) /\ eh \in EhdrRec
    BY <1>1, <1>2 DEF ObjectRec, EhdrRec
  <2>2. fd = TRUE /\ layout = FALSE /\ nupd = 0
    BY DEF Init
  <2>3. fd \in BOOLEAN /\ layout \in BOOLEAN
    BY <2>2, Zenon
  <2>4. nupd \in Nat
    BY <2>2
  <2> QED BY <2>1, <2>3, <2>4 DEF ObjType
<1>4. /\ ext = <<>> /\ pc = "idle" /\ f = NoFrame /\ ret = Failed("none") /\ prev = -1
  BY DEF Init
<1>5. ret \in Results
  <2>1. "none" \in Errors
    BY DEF Errors
  <2>2. Failed("none") \in Results
    BY <2>1, FailedResult
  <2> QED BY <1>4, <2>2
<1> QED BY <1>3, <1>4, <1>5, EmptyListInv, FrameType
        DEF IndInv, CallInv, CallType, LoopInv, Pcs

----------------------------------------------------------------------------
(* The application's steps keep the invariant. *)

\* Between two calls the application reaches nothing of a call.
LEMMA AppStepKeepsCall ==
    ASSUME CallInv, AppStep
    PROVE  CallInv'
<1>1. /\ pc = "idle" /\ ext = <<>>
      /\ UNCHANGED <<pc, f, ext>> /\ prev' = -1 /\ ret' \in Results
  BY FailedResult DEF AppStep, CallInv, LoopInv, Errors
<1>2. \A k \in DOMAIN ext' : ext'[k].kind = "SECTION" => ext'[k].s \in DOMAIN scn'
  <2>1. DOMAIN ext = {}
    BY <1>1, LenProperties, EmptySeq
  <2> QED BY <1>1, <2>1
<1> QED BY <1>1, <1>2 DEF CallInv, CallType, LoopInv, ExtentsSorted, SizeIsEnd

\* elf_newdata and elf_newscn add a descriptor and a section.
LEMMA NewDescriptorType ==
    /\ \A z \in Sizes, a \in Aligns, b \in BOOLEAN, o \in Nat, e \in DataFaults \cup {"none"} :
         [size |-> z, align |-> a, off |-> o, src |-> -1, buf |-> b, fault |-> e] \in DataRec
    /\ NoScn \in ScnRec /\ [NoScn EXCEPT !.dirty = TRUE] \in ScnRec
<1>1. \A z \in Sizes, a \in Aligns : z \in Nat /\ a \in Nat
  BY SizesAssumption
<1>2. <<>> \in Seq(DataRec) /\ "NULL" \in ScnTypes
  BY EmptySeq DEF ScnTypes
<1>3. NoScn \in ScnRec
  BY <1>2 DEF NoScn, ScnRec
<1>4. [NoScn EXCEPT !.dirty = TRUE] \in ScnRec
  BY <1>2 DEF NoScn, ScnRec
<1> QED BY <1>1, <1>3, <1>4 DEF DataRec

\* Every operation of the application keeps the invariant.
LEMMA AppKeeps ==
    ASSUME IndInv, AppNext
    PROVE  IndInv'
<1>1. /\ AppStep
      /\ \/ FlagLayout \/ FdDone \/ NewPhdr \/ SetEhdr \/ NewScn
         \/ \E i \in 2..Len(scn) :
              \/ SetShdr(i) \/ FlagScn(i) \/ GetData(i) \/ NewData(i)
              \/ \E j \in DOMAIN scn[i].data : SetData(i, j)
  BY DEF AppNext, FlagLayout, FdDone, NewPhdr, SetEhdr, NewScn, SetShdr, FlagScn,
         GetData, NewData, SetData
<1>2. CallInv'
  BY <1>1, AppStepKeepsCall DEF IndInv
<1>3. /\ UNCHANGED <<cmd, rawsize, nupd>>
      /\ cmd \in {"READ", "RDWR", "WRITE"} /\ rawsize \in Nat /\ nupd \in Nat
      /\ scn \in Seq(ScnRec) /\ DOMAIN scn = 1..Len(scn) /\ Len(scn) \in Nat
  BY <1>1, LenProperties DEF AppStep, IndInv, ObjType
<1>4. CASE FlagLayout
  <2>1. layout' \in BOOLEAN
    BY <1>4 DEF FlagLayout
  <2> QED BY <1>2, <1>3, <1>4, <2>1 DEF FlagLayout, IndInv, ObjType
<1>5. CASE FdDone
  <2>1. fd' = FALSE /\ UNCHANGED <<layout, eh, phnum, scn>>
    BY <1>5 DEF FdDone
  <2>2. fd' \in BOOLEAN
    BY <2>1, Zenon
  <2> QED BY <1>2, <1>3, <2>1, <2>2 DEF IndInv, ObjType
<1>6. CASE NewPhdr
  <2>1. phnum' \in Nat /\ UNCHANGED <<fd, layout, eh, scn>>
    BY <1>6, SizesAssumption DEF NewPhdr
  <2> QED BY <1>2, <1>3, <2>1 DEF IndInv, ObjType
<1>7. CASE SetEhdr
  <2>1. Offsets \subseteq Nat /\ eh.phoff \in Nat /\ eh.shoff \in Nat
    BY SizesAssumption DEF IndInv, ObjType, EhdrRec
  <2>2. eh' \in EhdrRec /\ UNCHANGED <<fd, layout, phnum, scn>>
    BY <1>7, <2>1 DEF SetEhdr, EhdrRec
  <2> QED BY <1>2, <1>3, <2>2 DEF IndInv, ObjType
<1>8. ASSUME scn' \in Seq(ScnRec), UNCHANGED <<fd, layout, eh, phnum>>
      PROVE  IndInv'
  BY <1>2, <1>3, <1>8 DEF IndInv, ObjType
<1>9. CASE NewScn
  <2> DEFINE new == [NoScn EXCEPT !.dirty = TRUE]
  <2>1. NoScn \in ScnRec /\ new \in ScnRec
    BY NewDescriptorType
  <2>2. scn' = IF scn = <<>> THEN <<NoScn, new>> ELSE Append(scn, new)
    BY <1>9 DEF NewScn
  <2> HIDE DEF new
  <2>3. scn' \in Seq(ScnRec)
    BY <2>1, <2>2, <1>3, AppendProperties
  <2> QED BY <1>8, <1>9, <2>3 DEF NewScn
<1>10. ASSUME NEW i \in 2..Len(scn)
       PROVE  /\ i \in DOMAIN scn /\ scn[i] \in ScnRec
              /\ \A r \in ScnRec : [scn EXCEPT ![i] = r] \in Seq(ScnRec)
  <2>1. i \in DOMAIN scn
    BY <1>3
  <2> QED BY <2>1, <1>3, ScnReplaced, ElementOfSeq
<1>11. ASSUME NEW i \in 2..Len(scn), SetShdr(i)
       PROVE  IndInv'
  <2>1. PICK t \in Types, a \in Aligns :
          \E o \in IF layout THEN Offsets ELSE {scn[i].off},
             z \in IF layout THEN Sizes ELSE {scn[i].size} :
            scn' = [scn EXCEPT ![i] = [@ EXCEPT !.type = t, !.align = a, !.off = o,
                                                !.size = z, !.dirty = TRUE]]
    BY <1>11 DEF SetShdr
  <2>2. scn[i].off \in Nat /\ scn[i].size \in Nat
    BY <1>10 DEF ScnRec
  <2>3. PICK o \in Nat, z \in Nat :
          scn' = [scn EXCEPT ![i] = [@ EXCEPT !.type = t, !.align = a, !.off = o,
                                              !.size = z, !.dirty = TRUE]]
    BY <2>1, <2>2, SizesAssumption
  <2>4. t \in ScnTypes /\ a \in Nat
    BY SizesAssumption DEF ScnTypes
  <2>5. [scn[i] EXCEPT !.type = t, !.align = a, !.off = o, !.size = z, !.dirty = TRUE] \in ScnRec
    BY <1>10, <2>4 DEF ScnRec
  <2> QED BY <1>8, <1>10, <1>11, <2>3, <2>5 DEF SetShdr
<1>12. ASSUME NEW i \in 2..Len(scn), FlagScn(i)
       PROVE  IndInv'
  <2>1. [scn[i] EXCEPT !.dirty = TRUE] \in ScnRec
    BY <1>10 DEF ScnRec
  <2> QED BY <1>8, <1>10, <1>12, <2>1 DEF FlagScn
<1>13. ASSUME NEW i \in 2..Len(scn), GetData(i)
       PROVE  IndInv'
  <2>1. <<Loaded(scn[i])>> \in Seq(DataRec)
    BY <1>10, LoadedType
  <2>2. [scn[i] EXCEPT !.data = <<Loaded(scn[i])>>] \in ScnRec
    BY <1>10, <2>1 DEF ScnRec
  <2> QED BY <1>8, <1>10, <1>13, <2>2 DEF GetData
<1>14. ASSUME NEW i \in 2..Len(scn), NewData(i)
       PROVE  IndInv'
  <2> DEFINE old == IF cmd # "WRITE" /\ scn[i].ssize > 0 /\ scn[i].data = <<>>
                    THEN <<Loaded(scn[i])>> ELSE scn[i].data
  <2>1. old \in Seq(DataRec)
    <3>1. <<Loaded(scn[i])>> \in Seq(DataRec)
      BY <1>10, LoadedType
    <3>2. scn[i].data \in Seq(DataRec)
      BY <1>10 DEF ScnRec
    <3> QED BY <3>1, <3>2
  <2>2. PICK z \in Sizes, a \in Aligns, o \in (IF layout THEN Sizes ELSE {0}), b \in BOOLEAN,
             e \in DataFaults \cup {"none"} :
          scn' = [scn EXCEPT ![i].dirty = TRUE,
                             ![i].data = Append(old, [size |-> z, align |-> a, off |-> o,
                                                      src |-> -1, buf |-> b, fault |-> e])]
    BY <1>14 DEF NewData
  <2> HIDE DEF old
  <2> DEFINE d == [size |-> z, align |-> a, off |-> o, src |-> -1, buf |-> b, fault |-> e]
  <2>3. d \in DataRec
    BY NewDescriptorType, SizesAssumption
  <2> HIDE DEF d
  <2>4. Append(old, d) \in Seq(DataRec)
    BY <2>1, <2>3, AppendProperties
  <2>5. [scn[i] EXCEPT !.dirty = TRUE, !.data = Append(old, d)] \in ScnRec
    BY <1>10, <2>4 DEF ScnRec
  <2>6. scn' = [scn EXCEPT ![i] = [scn[i] EXCEPT !.dirty = TRUE, !.data = Append(old, d)]]
    BY <2>2, <1>10 DEF d
  <2> QED BY <1>8, <1>10, <1>14, <2>5, <2>6 DEF NewData
<1>15. ASSUME NEW i \in 2..Len(scn), NEW j \in DOMAIN scn[i].data, SetData(i, j)
       PROVE  IndInv'
  <2>1. PICK z \in Sizes \ {0}, e \in DataFaults \cup {"none"} :
          scn' = [scn EXCEPT ![i].data[j] = [@ EXCEPT !.size = z, !.src = -1, !.buf = TRUE,
                                                      !.fault = e]]
    BY <1>15 DEF SetData
  <2> DEFINE d == [scn[i].data[j] EXCEPT !.size = z, !.src = -1, !.buf = TRUE, !.fault = e]
             ds == [scn[i].data EXCEPT ![j] = d]
  <2>2. scn[i].data \in Seq(DataRec) /\ j \in 1..Len(scn[i].data)
    BY <1>10, LenProperties DEF ScnRec
  <2>3. scn[i].data[j] \in DataRec /\ z \in Nat
    BY <2>2, ElementOfSeq, SizesAssumption
  <2>4. d \in DataRec
    BY <2>3 DEF DataRec
  <2>5. scn' = [scn EXCEPT ![i] = [scn[i] EXCEPT !.data = ds]]
    BY <2>1
  <2> HIDE DEF d
  <2>6. ds \in Seq(DataRec)
    BY <2>2, <2>4, ExceptSeq
  <2> HIDE DEF ds
  <2>7. [scn[i] EXCEPT !.data = ds] \in ScnRec
    BY <1>10, <2>6 DEF ScnRec
  <2> QED BY <1>8, <1>10, <1>15, <2>5, <2>7 DEF SetData
<1> QED BY <1>1, <1>4, <1>5, <1>6, <1>7, <1>9, <1>11, <1>12, <1>13, <1>14, <1>15

----------------------------------------------------------------------------
(* The steps of elf_update keep the invariant. *)

\* PlaceScn, common to sections sized from their header or from descriptors.
LEMMA PlaceScnKeeps ==
    ASSUME IndInv, pc \in {"scn", "data"}, f.si \in DOMAIN scn, NEW s \in ScnRec,
           PlaceScn(s), UNCHANGED <<objButScn, nupd>>,
           ext # <<>>
    PROVE  IndInv'
<1> DEFINE r == [s EXCEPT !.soff = s.off, !.ssize = s.size]
<1>1. r \in ScnRec
  BY DEF ScnRec
<1>2. scn' = [scn EXCEPT ![f.si] = r]
  BY DEF PlaceScn
<1> HIDE DEF r
<1>3. scn \in Seq(ScnRec) /\ f \in Frame /\ CallInv
  BY DEF IndInv, ObjType, CallInv, CallType
<1>4. scn' \in Seq(ScnRec) /\ DOMAIN scn' = DOMAIN scn
  BY <1>1, <1>2, <1>3, ScnReplaced
<1>5. ObjType'
  BY <1>4 DEF IndInv, ObjType, objButScn
<1>6. f.si + 1 \in Nat \ {0} /\ f.rc \in Nat /\ f.si \in Nat /\ f.rc = LastEnd
  BY <1>3 DEF Frame, CallInv, SizeIsEnd, LastEnd
<1>7. s.off \in Nat /\ s.size \in Nat
  BY DEF ScnRec
<1>8. CASE /\ UNCHANGED <<ext, img>> /\ f' = [f EXCEPT !.si = @ + 1]
           /\ Continue("scn")
  <2>1. f' \in Frame /\ f'.rc = f.rc
    BY <1>3, <1>6, <1>8 DEF Frame
  <2>2. pc' = "scn" /\ UNCHANGED <<ret, prev>> /\ ret \in Results
    BY <1>3, <1>8 DEF Continue, CallInv, CallType
  <2>3. CallInv'
    BY <1>3, <1>4, <1>8, <2>1, <2>2, StepKeeps DEF Pcs
  <2> QED BY <1>5, <2>3 DEF IndInv
<1>9. CASE /\ InsertExtent("SECTION", s.off, s.size, f.si)
           /\ f' = [f EXCEPT !.si = @ + 1, !.rc = Bigger(@, s.off + s.size)]
           /\ Continue("scn")
  <2>1. Bigger(f.rc, s.off + s.size) \in Nat
    <3>1. s.off + s.size \in Nat
      BY <1>7
    <3> QED BY <1>6, <3>1, BiggerNat
  <2>2. f' \in Frame /\ f'.rc = Bigger(LastEnd, s.off + s.size)
    BY <1>3, <1>6, <1>9, <2>1 DEF Frame
  <2>3. pc' = "scn" /\ UNCHANGED <<ret, prev>>
    BY <1>9 DEF Continue
  <2>4. CallInv'
    BY <1>3, <1>4, <1>6, <1>7, <1>9, <2>2, <2>3, InsertKeeps
  <2> QED BY <1>5, <2>4 DEF IndInv
<1>10. CASE RefuseExtent(s.off, s.size)
  <2>1. Fail("RESOURCE") \/ Fail("LAYOUT")
    BY <1>10 DEF RefuseExtent
  <2>2. CallInv'
    BY <2>1, FailKeeps DEF Errors
  <2> QED BY <1>5, <2>2 DEF IndInv
<1> QED BY <1>8, <1>9, <1>10 DEF PlaceScn

\* Entering elf_update keeps the invariant.
LEMMA BeginKeeps ==
    ASSUME IndInv, NEW c \in {"NULL", "WRITE"}, BeginUpdate(c)
    PROVE  IndInv'
<1>1. pc = "idle" /\ ext = <<>> /\ nupd' \in Nat /\ UNCHANGED <<obj, ext, img, prev>>
  BY DEF BeginUpdate, IndInv, ObjType, CallInv, LoopInv
<1>2. ObjType'
  BY <1>1 DEF IndInv, ObjType, obj
<1>3. "none" \in Errors /\ "MODE" \in Errors
  BY DEF Errors
<1>4. f' \in Frame /\ pc' \in {"idle", "ehdr"} /\ ret' \in Results
  BY <1>1, <1>3, FrameType, FailedResult DEF BeginUpdate, IndInv, CallInv, CallType
<1>5. /\ ext' \in Seq(ExtRec) /\ ExtentsSorted' /\ SizeIsEnd'
      /\ \A k \in DOMAIN ext' : ext'[k].kind = "SECTION" => ext'[k].s \in DOMAIN scn'
  <2>1. ext' = <<>> /\ ext' \in Seq(ExtRec) /\ Len(ext') = 0 /\ DOMAIN ext' = {}
    BY <1>1, EmptySeq, LenProperties
  <2> QED BY <2>1 DEF ExtentsSorted, SizeIsEnd
<1> QED BY <1>1, <1>2, <1>4, <1>5 DEF IndInv, CallInv, CallType, LoopInv, Pcs

\* The codes a header and a descriptor are refused with.
LEMMA EhdrErrorNames == EhdrError \in {"none", "VERSION", "CLASS", "HEADER"}
  BY DEF EhdrError

LEMMA DataErrorNames ==
    ASSUME NEW d
    PROVE  /\ DataError(d) \in {"none", "VERSION", "DATA", "UNIMPL", "LAYOUT"}
           /\ ~layout => DataError(d) # "LAYOUT"
           /\ DataError(d) = "none" => IsPowerOf2(d.align)
<1> DEFINE aligned == IsPowerOf2(d.align)
<1> HIDE DEF aligned
<1> QED BY DEF DataError, aligned

\* Placing the executable header (elf_update.c:548) keeps the invariant.
LEMMA ResyncEhdrKeeps == ASSUME IndInv, ResyncEhdr PROVE IndInv'
<1>1. pc = "ehdr" /\ ext = <<>> /\ UNCHANGED <<obj, nupd>> /\ CallInv /\ f \in Frame
  BY DEF ResyncEhdr, IndInv, CallInv, LoopInv, CallType
<1>2. ObjType'
  BY <1>1 DEF IndInv, ObjType, obj
<1>3. EhdrSize \in Nat
  BY SizesAssumption
<1>4. CASE RefuseExtent(0, EhdrSize)
  <2>1. Fail("RESOURCE") \/ Fail("LAYOUT")
    BY <1>4 DEF RefuseExtent
  <2> QED BY <1>2, <2>1, FailKeeps DEF IndInv, Errors
<1>5. CASE /\ InsertExtent("EHDR", 0, EhdrSize, 0)
           /\ f' = [f EXCEPT !.rc = EhdrSize]
           /\ Continue(IF phnum > 0 THEN "phdr" ELSE "scn")
  <2>1. f' \in Frame /\ f'.rc = EhdrSize
    BY <1>1, <1>3, <1>5 DEF Frame
  <2>2. EhdrSize = Bigger(LastEnd, 0 + EhdrSize)
    BY <1>1, <1>3 DEF LastEnd, Bigger
  <2>3. pc' \in {"phdr", "scn"} /\ UNCHANGED <<ret, prev>>
    BY <1>5 DEF Continue
  <2>4. UNCHANGED scn
    BY <1>1 DEF obj
  <2>5. CallInv'
    BY <1>1, <1>3, <1>5, <2>1, <2>2, <2>3, <2>4, InsertKeeps
  <2> QED BY <1>2, <2>5 DEF IndInv
<1>6. CASE EhdrError # "none" /\ Fail(EhdrError)
  <2>1. EhdrError \in Errors
    BY EhdrErrorNames DEF Errors
  <2> QED BY <1>2, <1>6, <2>1, FailKeeps DEF IndInv
<1> QED BY <1>4, <1>5, <1>6 DEF ResyncEhdr

\* The program header table is at an offset of the file.
LEMMA PhOffNat ==
    ASSUME ObjType
    PROVE  PhOff \in Nat
<1>1. eh.phoff \in Nat
  BY DEF ObjType, EhdrRec
<1>2. roundup(EhdrSize, PhdrAlign) \in Nat
  BY SizesAssumption, RoundupNat
<1> QED BY <1>1, <1>2 DEF PhOff

\* Placing the program header table keeps the invariant.
LEMMA ResyncPhdrKeeps == ASSUME IndInv, ResyncPhdr PROVE IndInv'
<1> DEFINE fsz == PhentSize * phnum
<1>1. pc = "phdr" /\ UNCHANGED <<obj, nupd>> /\ CallInv /\ f \in Frame /\ ObjType
  BY DEF ResyncPhdr, IndInv, CallInv, CallType
<1>2. ObjType'
  BY <1>1 DEF IndInv, ObjType, obj
<1>3. PhOff \in Nat /\ fsz \in Nat
  BY <1>1, PhOffNat, SizesAssumption DEF ObjType
<1>4. CASE Fail("LAYOUT") \/ Fail("RESOURCE")
  BY <1>2, <1>4, FailKeeps DEF IndInv, Errors
<1>5. CASE /\ ~(layout /\ (f.rc > PhOff \/ PhOff % PhdrAlign # 0))
           /\ InsertExtent("PHDR", PhOff, fsz, 0)
           /\ f' = [f EXCEPT !.rc = PhOff + fsz] /\ Continue("scn")
  <2>1. PhOff + fsz \in Nat
    BY <1>3
  <2>2. f' \in Frame /\ f'.rc = PhOff + fsz
    BY <1>1, <1>5, <2>1 DEF Frame
  <2>3. pc' = "scn" /\ UNCHANGED <<ret, prev, scn>>
    BY <1>1, <1>5 DEF Continue, obj
  <2>4. f.rc = LastEnd /\ f.rc \in Nat
    BY <1>1 DEF CallInv, LoopInv, SizeIsEnd, LastEnd, Frame
  <2>5. PhOff >= LastEnd
    <3>1. CASE layout
      BY <1>3, <1>5, <2>4, <3>1
    <3>2. CASE ~layout
      <4>1. f.rc = EhdrSize
        BY <1>1 DEF CallInv, LoopInv
      <4> QED BY <2>4, <3>2, <4>1, SizesAssumption, RoundupNat DEF PhOff
    <3> QED BY <3>1, <3>2
  <2> HIDE DEF fsz
  <2>6. PhOff + fsz = Bigger(LastEnd, PhOff + fsz)
    BY <1>3, <2>4, <2>5 DEF Bigger
  <2> QED BY <1>1, <1>2, <1>3, <1>5, <2>2, <2>3, <2>6, InsertKeeps DEF IndInv
<1> QED BY <1>4, <1>5 DEF ResyncPhdr, RefuseExtent

\* Skipping a section that has no place in the file keeps the invariant.
LEMMA ResyncScnSkipKeeps == ASSUME IndInv, ResyncScnSkip PROVE IndInv'
<1>1. /\ pc = "scn" /\ UNCHANGED <<obj, pc, ext, img, ret, nupd, prev>>
      /\ f' = [f EXCEPT !.si = @ + 1] /\ f \in Frame /\ ret \in Results
  BY DEF ResyncScnSkip, IndInv, CallInv, CallType
<1>2. f' \in Frame /\ f'.rc = f.rc
  BY <1>1 DEF Frame
<1>3. UNCHANGED scn
  BY <1>1 DEF obj
<1>4. CallInv'
  BY <1>1, <1>2, <1>3, StepKeeps DEF IndInv, Pcs
<1> QED BY <1>1, <1>4 DEF IndInv, ObjType, obj

\* The section the loop of _libelf_resync_sections is at.
LEMMA CurrentScn ==
    ASSUME IndInv, f.si <= Len(scn)
    PROVE  f.si \in DOMAIN scn /\ scn[f.si] \in ScnRec /\ f.rc \in Nat
<1>1. f \in Frame /\ scn \in Seq(ScnRec)
  BY DEF IndInv, ObjType, CallInv, CallType
<1>2. f.si \in 1..Len(scn)
  BY <1>1, LenProperties DEF Frame
<1> QED BY <1>1, <1>2, ElementOfSeq, LenProperties DEF Frame

\* Placing a section from its header keeps the invariant.
LEMMA ResyncScnCleanKeeps == ASSUME IndInv, ResyncScnClean PROVE IndInv'
<1> DEFINE s == scn[f.si]
           t == [s EXCEPT !.align = ShAlign(s), !.off = roundup(f.rc, ShAlign(s))]
<1>1. pc = "scn" /\ f.si <= Len(scn) /\ s.type \in DOMAIN FAlign
  BY DEF ResyncScnClean
<1>2. f.si \in DOMAIN scn /\ s \in ScnRec /\ f.rc \in Nat
  BY <1>1, CurrentScn
<1>3. ShAlign(s) \in Nat \ {0}
  BY <1>1, <1>2, ShAlignPositive
<1>4. roundup(f.rc, ShAlign(s)) \in Nat
  BY <1>2, <1>3, RoundupNat
<1>5. t \in ScnRec
  BY <1>2, <1>3, <1>4 DEF ScnRec
<1>6. ext # <<>>
  BY <1>1 DEF IndInv, CallInv, LoopInv
<1>7. (IF layout THEN s ELSE t) \in ScnRec
  BY <1>2, <1>5
<1>8. PlaceScn(IF layout THEN s ELSE t) /\ UNCHANGED <<objButScn, nupd>>
  BY DEF ResyncScnClean
<1> HIDE DEF s, t
<1> QED BY <1>1, <1>2, <1>6, <1>7, <1>8, PlaceScnKeeps

\* Loading a section to be sized keeps the invariant.
LEMMA ResyncScnBeginKeeps == ASSUME IndInv, ResyncScnBegin PROVE IndInv'
<1> DEFINE s == scn[f.si]
<1>1. pc = "scn" /\ f.si <= Len(scn) /\ s.type \in DOMAIN FAlign
  BY DEF ResyncScnBegin
<1>2. f.si \in DOMAIN scn /\ s \in ScnRec
  BY <1>1, CurrentScn
<1>3. scn \in Seq(ScnRec) /\ f \in Frame /\ ret \in Results
  BY DEF IndInv, ObjType, CallInv, CallType
<1>4. [s EXCEPT !.data = <<Loaded(s)>>] \in ScnRec
  <2>1. <<Loaded(s)>> \in Seq(DataRec)
    BY <1>2, LoadedType
  <2> QED BY <1>2, <2>1 DEF ScnRec
<1>5. scn' \in {scn, [scn EXCEPT ![f.si].data = <<Loaded(s)>>]}
  BY DEF ResyncScnBegin
<1>6. /\ scn' \in Seq(ScnRec) /\ DOMAIN scn' = DOMAIN scn
      /\ scn'[f.si].type = s.type
  <2>1. CASE scn' = scn
    BY <1>3, <2>1
  <2>2. CASE scn' = [scn EXCEPT ![f.si].data = <<Loaded(s)>>]
    <3>1. scn' = [scn EXCEPT ![f.si] = [s EXCEPT !.data = <<Loaded(s)>>]]
      BY <2>2
    <3>2. scn' \in Seq(ScnRec) /\ DOMAIN scn' = DOMAIN scn
      BY <1>2, <1>3, <1>4, <3>1, ScnReplaced
    <3>3. scn'[f.si] = [s EXCEPT !.data = <<Loaded(s)>>]
      BY <1>2, <3>1
    <3>4. scn'[f.si].type = s.type
      BY <1>2, <3>3 DEF ScnRec
    <3> QED BY <3>2, <3>4
  <2> QED BY <1>5, <2>1, <2>2
<1>7. /\ f' = [f EXCEPT !.di = 1, !.ssz = 0, !.sal = 0] /\ pc' = "data"
      /\ UNCHANGED <<ret, prev, objButScn, ext, img, nupd>>
  BY DEF ResyncScnBegin, Continue
<1>8. f' \in Frame /\ f'.rc = f.rc /\ f'.si = f.si
  BY <1>3, <1>7, FrameStart
<1>9. ObjType'
  BY <1>6, <1>7 DEF IndInv, ObjType, objButScn
<1>10. CallInv'
  BY <1>1, <1>2, <1>3, <1>6, <1>7, <1>8, StepKeeps DEF IndInv, Pcs
<1> QED BY <1>9, <1>10 DEF IndInv

\* Refusing a section keeps the invariant.
LEMMA ResyncScnErrorKeeps == ASSUME IndInv, ResyncScnError PROVE IndInv'
<1>1. Fail("SECTION") \/ Fail("RESOURCE")
  BY DEF ResyncScnError
<1>2. UNCHANGED <<obj, nupd>>
  BY DEF ResyncScnError
<1> QED BY <1>1, <1>2, FailKeeps DEF IndInv, ObjType, obj, Errors

\* Placing a descriptor in its section keeps the invariant.
LEMMA ResyncDataKeeps == ASSUME IndInv, ResyncData PROVE IndInv'
<1> DEFINE s == scn[f.si]
           d == s.data[f.di]
           e == [d EXCEPT !.off = DataOff(d)]
           ds == [s.data EXCEPT ![f.di] = e]
<1>1. pc = "data" /\ f.di <= Len(s.data) /\ UNCHANGED <<objButScn, nupd>>
  BY DEF ResyncData
<1>2. scn \in Seq(ScnRec) /\ f \in Frame /\ ret \in Results
  BY DEF IndInv, ObjType, CallInv, CallType
<1>3. f.si \in DOMAIN scn /\ s.type \in DOMAIN FAlign
  BY <1>1 DEF IndInv, CallInv, LoopInv
<1>4. s \in ScnRec
  BY <1>2, <1>3, ElementOfSeq, LenProperties
<1>5. s.data \in Seq(DataRec) /\ f.di \in 1..Len(s.data)
  <2>1. s.data \in Seq(DataRec)
    BY <1>4 DEF ScnRec
  <2> QED BY <1>1, <1>2, <2>1, LenProperties DEF Frame
<1>6. d \in DataRec
  BY <1>5, ElementOfSeq
<1>7. CASE UNCHANGED scn /\ Fail(DataError(d))
  <2>1. ObjType'
    BY <1>1, <1>7 DEF IndInv, ObjType, objButScn
  <2>2. DataError(d) \in Errors
    BY DataErrorNames DEF Errors
  <2> QED BY <1>7, <2>1, <2>2, FailKeeps DEF IndInv
<1>8. CASE /\ DataError(d) = "none"
           /\ scn' = [scn EXCEPT ![f.si].data[f.di].off = DataOff(d)]
           /\ f' = [f EXCEPT !.di = @ + 1, !.ssz = Bigger(@, DataEnd(d)),
                             !.sal = Bigger(@, d.align)]
           /\ Continue("data") /\ UNCHANGED <<ext, img>>
  <2>1. d.align \in Nat \ {0} /\ d.off \in Nat /\ d.size \in Nat
    BY <1>6, <1>8, DataErrorNames DEF IsPowerOf2, DataRec
  <2>2. f.ssz \in Nat /\ f.sal \in Nat /\ f.di + 1 \in Nat \ {0}
    BY <1>2 DEF Frame
  <2>3. DataOff(d) \in Nat
    BY <2>1, <2>2, RoundupNat DEF DataOff
  <2>4. DataEnd(d) \in Nat
    BY <2>1, <2>3 DEF DataEnd
  <2>5. Bigger(f.ssz, DataEnd(d)) \in Nat /\ Bigger(f.sal, d.align) \in Nat
    BY <2>1, <2>2, <2>4, BiggerNat
  <2>6. e \in DataRec
    BY <1>6, <2>3 DEF DataRec
  <2>7. scn' = [scn EXCEPT ![f.si] = [s EXCEPT !.data = ds]]
    BY <1>8
  <2>8. f' \in Frame /\ f'.rc = f.rc /\ f'.si = f.si
    BY <1>2, <1>8, <2>2, <2>5 DEF Frame
  <2> HIDE DEF d, e
  <2>9. ds \in Seq(DataRec)
    BY <1>5, <2>6, ExceptSeq
  <2> HIDE DEF ds
  <2>10. [s EXCEPT !.data = ds] \in ScnRec
    BY <1>4, <2>9 DEF ScnRec
  <2>11. scn' \in Seq(ScnRec) /\ DOMAIN scn' = DOMAIN scn
    BY <1>2, <1>3, <2>7, <2>10, ScnReplaced
  <2>12. scn'[f.si] = [s EXCEPT !.data = ds]
    BY <1>3, <2>7
  <2>13. scn'[f.si].type = s.type
    BY <1>4, <2>12 DEF ScnRec
  <2>14. ObjType'
    BY <1>1, <2>11 DEF IndInv, ObjType, objButScn
  <2>15. pc' = "data" /\ UNCHANGED <<ret, prev>>
    BY <1>8 DEF Continue
  <2>16. CallInv'
    BY <1>1, <1>2, <1>3, <1>8, <2>8, <2>11, <2>13, <2>15, StepKeeps DEF IndInv, Pcs
  <2> QED BY <2>14, <2>16 DEF IndInv
<1> QED BY <1>7, <1>8 DEF ResyncData

\* Placing a section sized from its descriptors keeps the invariant.
LEMMA ResyncScnEndKeeps == ASSUME IndInv, ResyncScnEnd PROVE IndInv'
<1> DEFINE s == scn[f.si]
<1>1. pc = "data" /\ UNCHANGED <<objButScn, nupd>>
  BY DEF ResyncScnEnd
<1>2. /\ scn \in Seq(ScnRec) /\ f \in Frame
      /\ f.si \in DOMAIN scn /\ s.type \in DOMAIN FAlign /\ ext # <<>>
  BY <1>1 DEF IndInv, ObjType, CallInv, CallType, LoopInv
<1>3. s \in ScnRec
  BY <1>2, ElementOfSeq, LenProperties
<1>4. ShAlign(s) \in Nat \ {0}
  BY <1>2, <1>3, ShAlignPositive
<1>5. f.sal \in Nat /\ f.ssz \in Nat /\ f.rc \in Nat
  BY <1>2 DEF Frame
<1>6. Bigger(ShAlign(s), f.sal) \in Nat \ {0}
  <2> HIDE DEF s
  <2>1. ASSUME NEW a \in Nat \ {0}, NEW b \in Nat PROVE Bigger(a, b) \in Nat \ {0}
    BY DEF Bigger
  <2> QED BY <1>4, <1>5, <2>1
<1>7. roundup(f.rc, Bigger(ShAlign(s), f.sal)) \in Nat
  BY <1>5, <1>6, RoundupNat
<1>8. ComputedShdr(s) \in ScnRec
  BY <1>3, <1>5, <1>6, <1>7 DEF ComputedShdr, ScnRec
<1>9. \/ Fail("LAYOUT") /\ UNCHANGED scn
      \/ PlaceScn(s)
      \/ PlaceScn(ComputedShdr(s))
  BY DEF ResyncScnEnd
<1>10. CASE Fail("LAYOUT") /\ UNCHANGED scn
  <2>1. ObjType'
    BY <1>1, <1>10 DEF IndInv, ObjType, objButScn
  <2> QED BY <1>10, <2>1, FailKeeps DEF IndInv, Errors
<1> HIDE DEF s
<1>11. CASE PlaceScn(s)
  BY <1>1, <1>2, <1>3, <1>11, PlaceScnKeeps
<1>12. CASE PlaceScn(ComputedShdr(s))
  BY <1>1, <1>2, <1>8, <1>12, PlaceScnKeeps
<1> QED BY <1>9, <1>10, <1>11, <1>12

\* Placing the section header table keeps the invariant.
LEMMA ResyncShdrKeeps == ASSUME IndInv, ResyncShdr PROVE IndInv'
<1> DEFINE fsz == ShentSize * Len(scn)
           shoff == IF scn = <<>> THEN 0
                    ELSE IF layout THEN eh.shoff ELSE roundup(f.rc, ShdrAlign)
<1>1. /\ pc = "scn" /\ UNCHANGED <<cmd, rawsize, fd, layout, phnum, scn, nupd>>
      /\ CallInv /\ f \in Frame /\ ObjType /\ ext # <<>> /\ ext \in Seq(ExtRec)
  BY DEF ResyncShdr, IndInv, CallInv, CallType, LoopInv
<1>2. f.rc = LastEnd /\ f.rc \in Nat
  BY <1>1 DEF CallInv, SizeIsEnd, LastEnd, Frame
<1>3. fsz \in Nat /\ (scn = <<>> => fsz = 0)
  <2>1. Len(scn) \in Nat /\ (scn = <<>> => Len(scn) = 0)
    BY <1>1, LenProperties, EmptySeq DEF ObjType
  <2> QED BY <2>1, SizesAssumption
<1>4. shoff \in Nat
  BY <1>1, <1>2, SizesAssumption, RoundupNat DEF ObjType, EhdrRec
<1>5. CASE UNCHANGED eh /\ (Fail("LAYOUT") \/ Fail("RESOURCE"))
  <2>1. ObjType'
    BY <1>1, <1>5 DEF ObjType
  <2> QED BY <1>5, <2>1, FailKeeps DEF IndInv, Errors
<1>6. CASE /\ IF scn = <<>> THEN UNCHANGED <<ext, img>>
              ELSE InsertExtent("SHDR", shoff, fsz, 0)
           /\ eh' = UpdatedEh(shoff)
           /\ f' = [f EXCEPT !.rc = Bigger(@, shoff + fsz)]
           /\ Continue("resynced")
  <2>1. eh' \in EhdrRec
    <3>1. PhOff \in Nat /\ eh \in EhdrRec
      BY <1>1, PhOffNat DEF ObjType
    <3> HIDE DEF shoff
    <3> QED BY <1>4, <1>6, <3>1 DEF UpdatedEh, EhdrRec
  <2>2. ObjType'
    BY <1>1, <2>1 DEF ObjType
  <2> HIDE DEF fsz, shoff
  <2>3. Bigger(f.rc, shoff + fsz) \in Nat
    <3>1. shoff + fsz \in Nat
      BY <1>3, <1>4
    <3> QED BY <1>2, <3>1, BiggerNat
  <2>4. f' \in Frame /\ f'.rc = Bigger(LastEnd, shoff + fsz) /\ UNCHANGED scn
    BY <1>1, <1>2, <1>6, <2>3 DEF Frame
  <2>5. pc' = "resynced" /\ UNCHANGED <<ret, prev>> /\ ret \in Results
    BY <1>1, <1>6 DEF Continue, CallInv, CallType
  <2>6. CASE scn # <<>>
    BY <1>1, <1>3, <1>4, <1>6, <2>2, <2>4, <2>5, <2>6, InsertKeeps DEF IndInv
  <2>7. CASE scn = <<>>
    <3>1. shoff + fsz = 0
      BY <1>3, <2>7 DEF shoff
    <3>2. f'.rc = f.rc /\ UNCHANGED ext
      BY <1>2, <1>6, <2>4, <2>7, <3>1 DEF Bigger
    <3> QED BY <1>1, <2>2, <2>4, <2>5, <3>2, StepKeeps DEF IndInv, Pcs
  <2> QED BY <2>6, <2>7
<1> QED BY <1>5, <1>6 DEF ResyncShdr, RefuseExtent

\* Returning the size, or starting to write, keeps the invariant.
LEMMA AfterResyncKeeps == ASSUME IndInv, AfterResync PROVE IndInv'
<1>1. pc = "resynced" /\ UNCHANGED <<obj, nupd>> /\ f \in Frame /\ ret \in Results
  BY DEF AfterResync, IndInv, CallInv, CallType
<1>2. ObjType' /\ UNCHANGED scn
  BY <1>1 DEF IndInv, ObjType, obj
<1>3. CASE Return([ok |-> TRUE, rc |-> f.rc, err |-> "none"])
  <2>1. [ok |-> TRUE, rc |-> f.rc, err |-> "none"] \in Results
    BY <1>1 DEF Results, Errors, Frame
  <2> QED BY <1>2, <1>3, <2>1, ReturnKeeps DEF IndInv
<1>4. CASE Fail("RESOURCE") \/ Fail("SEQUENCE")
  BY <1>2, <1>4, FailKeeps DEF IndInv, Errors
<1>5. CASE /\ f' = [f EXCEPT !.si = 1, !.wrc = 0]
           /\ Continue("write") /\ UNCHANGED ext
  <2>1. f' \in Frame /\ f'.rc = f.rc
    BY <1>1, <1>5, FrameStart
  <2>2. CallInv'
    BY <1>1, <1>2, <1>5, <2>1, StepKeeps DEF IndInv, Continue, Pcs
  <2> QED BY <1>2, <2>2 DEF IndInv
<1> QED BY <1>3, <1>4, <1>5 DEF AfterResync

\* A step of _libelf_write_elf: the object is only read.
LEMMA WriteStepKeeps ==
    ASSUME IndInv, UNCHANGED <<obj, nupd, ext, prev>>, pc \in {"write", "wraw", "wscn"},
           ret' \in Results, f' \in Frame, f'.rc = f.rc,
           \/ pc' \in {"write", "written"}
           \/ /\ pc' \in {"wraw", "wscn"} /\ f'.si = f.si
              /\ f.si \in DOMAIN ext /\ ext[f.si].kind = "SECTION"
    PROVE  IndInv'
<1>1. ObjType' /\ UNCHANGED scn
  BY DEF IndInv, ObjType, obj
<1>2. CallInv'
  BY <1>1, StepKeeps DEF IndInv, Pcs
<1> QED BY <1>1, <1>2 DEF IndInv

\* The extent and the section being written.
LEMMA CurrentExtent ==
    ASSUME IndInv, \/ f.si <= Len(ext)
                   \/ pc \in {"wraw", "wscn"}
    PROVE  /\ f.si \in DOMAIN ext /\ ext[f.si] \in ExtRec /\ End(ext[f.si]) \in Nat
           /\ ext[f.si].kind = "SECTION" =>
                ext[f.si].s \in DOMAIN scn /\ scn[ext[f.si].s] \in ScnRec
<1>1. f \in Frame /\ ext \in Seq(ExtRec) /\ scn \in Seq(ScnRec) /\ LoopInv
  BY DEF IndInv, ObjType, CallInv, CallType
<1>2. f.si \in DOMAIN ext
  <2>1. CASE f.si <= Len(ext)
    BY <1>1, <2>1, LenProperties DEF Frame
  <2> QED BY <1>1, <2>1 DEF LoopInv
<1>3. ext[f.si] \in ExtRec
  BY <1>1, <1>2, ElementOfSeq, LenProperties
<1>4. End(ext[f.si]) \in Nat
  BY <1>3 DEF ExtRec, End
<1>5. ASSUME ext[f.si].kind = "SECTION"
      PROVE  ext[f.si].s \in DOMAIN scn /\ scn[ext[f.si].s] \in ScnRec
  <2>1. ext[f.si].s \in DOMAIN scn
    BY <1>1, <1>2, <1>5 DEF LoopInv
  <2> QED BY <1>1, <2>1, ElementOfSeq, LenProperties
<1> QED BY <1>2, <1>3, <1>4, <1>5

\* The frame after the walk has moved on.
LEMMA FrameWrite ==
    ASSUME NEW g \in Frame, NEW n \in Nat
    PROVE  /\ [g EXCEPT !.wrc = n, !.si = @ + 1] \in Frame
           /\ [g EXCEPT !.wrc = n, !.si = @ + 1].rc = g.rc
           /\ [g EXCEPT !.nrc = n, !.di = 1] \in Frame
           /\ [g EXCEPT !.nrc = n, !.di = 1].rc = g.rc
           /\ [g EXCEPT !.nrc = n, !.di = 1].si = g.si
           /\ [g EXCEPT !.nrc = n] \in Frame
           /\ [g EXCEPT !.nrc = n].rc = g.rc
           /\ [g EXCEPT !.nrc = n].si = g.si
           /\ [g EXCEPT !.nrc = n, !.di = @ + 1] \in Frame
           /\ [g EXCEPT !.nrc = n, !.di = @ + 1].rc = g.rc
           /\ [g EXCEPT !.nrc = n, !.di = @ + 1].si = g.si
<1>1. 1 \in Nat \ {0} /\ g.si + 1 \in Nat \ {0} /\ g.di + 1 \in Nat \ {0}
  BY DEF Frame
<1> QED BY <1>1, Zenon DEF Frame

\* Writing a header table keeps the invariant.
LEMMA WriteTableKeeps == ASSUME IndInv, WriteTable PROVE IndInv'
<1>1. /\ pc = "write" /\ f.si <= Len(ext) /\ UNCHANGED <<obj, nupd, ext, ret, prev>>
      /\ f' = [f EXCEPT !.wrc = End(ext[f.si]), !.si = @ + 1] /\ pc' = "write"
  BY DEF WriteTable, Continue
<1>2. End(ext[f.si]) \in Nat /\ f \in Frame /\ ret \in Results
  BY <1>1, CurrentExtent DEF IndInv, CallInv, CallType
<1>3. f' \in Frame /\ f'.rc = f.rc
  BY <1>1, <1>2, FrameWrite
<1> QED BY <1>1, <1>2, <1>3, WriteStepKeeps

\* Entering _libelf_write_scn keeps the invariant.
LEMMA WriteScnBeginKeeps == ASSUME IndInv, WriteScnBegin PROVE IndInv'
<1>1. /\ pc = "write" /\ f.si <= Len(ext) /\ UNCHANGED <<obj, nupd>>
      /\ ext[f.si].kind = "SECTION"
  BY DEF WriteScnBegin
<1>2. /\ f.si \in DOMAIN ext /\ ext[f.si].start \in Nat
      /\ f \in Frame /\ ret \in Results
  BY <1>1, CurrentExtent DEF IndInv, CallInv, CallType, ExtRec
<1>3. CASE Abort("assert:falign")
  <2>1. ObjType' /\ UNCHANGED scn
    BY <1>1 DEF IndInv, ObjType, obj
  <2> QED BY <1>1, <1>3, <2>1, AbortKeeps DEF IndInv, Errors
<1>4. CASE /\ f' = [f EXCEPT !.nrc = ext[f.si].start, !.di = 1]
           /\ Continue(IF scn[ext[f.si].s].data = <<>> THEN "wraw" ELSE "wscn")
           /\ UNCHANGED ext
  <2>1. f' \in Frame /\ f'.rc = f.rc /\ f'.si = f.si
    BY <1>2, <1>4, FrameWrite
  <2>2. pc' \in {"wraw", "wscn"} /\ UNCHANGED <<ret, prev>>
    BY <1>4 DEF Continue
  <2> QED BY <1>1, <1>2, <1>4, <2>1, <2>2, WriteStepKeeps
<1> QED BY <1>3, <1>4 DEF WriteScnBegin

\* Copying a section from the original file keeps the invariant.
LEMMA WriteRawKeeps == ASSUME IndInv, WriteRaw PROVE IndInv'
<1> DEFINE s == scn[ext[f.si].s]
<1>1. pc = "wraw" /\ UNCHANGED <<obj, nupd>>
  BY DEF WriteRaw
<1>2. ext[f.si].kind = "SECTION" /\ f \in Frame /\ ret \in Results
  BY <1>1 DEF IndInv, CallInv, CallType, LoopInv
<1>3. f.si \in DOMAIN ext /\ s.soff \in Nat /\ s.ssize \in Nat /\ s.size \in Nat
  BY <1>1, <1>2, CurrentExtent DEF ScnRec
<1>4. CASE Fail("ARGUMENT") \/ Fail("SECTION") \/ Fail("RESOURCE")
  <2>1. ObjType'
    BY <1>1 DEF IndInv, ObjType, obj
  <2> QED BY <1>4, <2>1, FailKeeps DEF IndInv, Errors
<1>5. CASE /\ f' = [f EXCEPT !.nrc = s.soff + s.size]
           /\ Continue("wscn") /\ UNCHANGED ext
  <2>1. s.soff + s.size \in Nat
    BY <1>3
  <2> HIDE DEF s
  <2>2. f' \in Frame /\ f'.rc = f.rc /\ f'.si = f.si
    BY <1>2, <1>5, <2>1, FrameWrite
  <2>3. pc' = "wscn" /\ UNCHANGED <<ret, prev>>
    BY <1>5 DEF Continue
  <2> QED BY <1>1, <1>2, <1>3, <1>5, <2>2, <2>3, WriteStepKeeps
<1> QED BY <1>4, <1>5 DEF WriteRaw

\* Writing a descriptor keeps the invariant.
LEMMA WriteDataKeeps == ASSUME IndInv, WriteData PROVE IndInv'
<1> DEFINE s == scn[ext[f.si].s]
           d == s.data[f.di]
<1>1. pc = "wscn" /\ f.di <= Len(s.data) /\ UNCHANGED <<obj, nupd>>
  BY DEF WriteData
<1>2. ext[f.si].kind = "SECTION" /\ f \in Frame /\ ret \in Results
  BY <1>1 DEF IndInv, CallInv, CallType, LoopInv
<1>3. f.si \in DOMAIN ext /\ s \in ScnRec
  BY <1>1, <1>2, CurrentExtent
<1>4. d \in DataRec
  <2>1. s.data \in Seq(DataRec)
    BY <1>3 DEF ScnRec
  <2>2. f.di \in 1..Len(s.data)
    BY <1>1, <1>2, <2>1, LenProperties DEF Frame
  <2> QED BY <2>1, <2>2, ElementOfSeq
<1>5. s.soff + d.off + d.size \in Nat
  <2>1. s.soff \in Nat /\ d.off \in Nat /\ d.size \in Nat
    BY <1>3, <1>4 DEF ScnRec, DataRec
  <2>2. \A a, b, c \in Nat : a + b + c \in Nat
    OBVIOUS
  <2> HIDE DEF s, d
  <2> QED BY <2>1, <2>2
<1>6. CASE Abort("assert:d_buf")
  <2>1. ObjType' /\ UNCHANGED scn
    BY <1>1 DEF IndInv, ObjType, obj
  <2> QED BY <1>1, <1>6, <2>1, AbortKeeps DEF IndInv, Errors
<1>7. CASE /\ f' = [f EXCEPT !.nrc = s.soff + d.off + d.size, !.di = @ + 1]
           /\ Continue("wscn") /\ UNCHANGED ext
  <2> HIDE DEF s, d
  <2>1. f' \in Frame /\ f'.rc = f.rc /\ f'.si = f.si
    BY <1>2, <1>5, <1>7, FrameWrite
  <2>2. pc' = "wscn" /\ UNCHANGED <<ret, prev>>
    BY <1>7 DEF Continue
  <2> QED BY <1>1, <1>2, <1>3, <1>7, <2>1, <2>2, WriteStepKeeps
<1> QED BY <1>6, <1>7 DEF WriteData

\* Leaving _libelf_write_scn keeps the invariant.
LEMMA WriteScnEndKeeps == ASSUME IndInv, WriteScnEnd PROVE IndInv'
<1>1. pc = "wscn" /\ UNCHANGED <<obj, nupd>>
  BY DEF WriteScnEnd
<1>2. f \in Frame /\ ret \in Results
  BY DEF IndInv, CallInv, CallType
<1>3. CASE Abort("assert:extent")
  <2>1. ObjType' /\ UNCHANGED scn
    BY <1>1 DEF IndInv, ObjType, obj
  <2> QED BY <1>1, <1>3, <2>1, AbortKeeps DEF IndInv, Errors
<1>4. CASE /\ f' = [f EXCEPT !.wrc = f.nrc, !.si = @ + 1]
           /\ Continue("write") /\ UNCHANGED <<ext, img>>
  <2>1. f.nrc \in Nat
    BY <1>2 DEF Frame
  <2>2. f' \in Frame /\ f'.rc = f.rc
    BY <1>2, <1>4, <2>1, FrameWrite
  <2>3. pc' = "write" /\ UNCHANGED <<ret, prev>>
    BY <1>4 DEF Continue
  <2> QED BY <1>1, <1>2, <1>4, <2>2, <2>3, WriteStepKeeps
<1> QED BY <1>3, <1>4 DEF WriteScnEnd

\* Handing the image to write(2) keeps the invariant.
LEMMA CommitKeeps == ASSUME IndInv, Commit PROVE IndInv'
<1>1. pc = "write" /\ UNCHANGED <<obj, nupd>> /\ f \in Frame
  BY DEF Commit, IndInv, CallInv, CallType
<1>2. CASE Abort("assert:newsize")
  <2>1. ObjType' /\ UNCHANGED scn
    BY <1>1 DEF IndInv, ObjType, obj
  <2> QED BY <1>1, <1>2, <2>1, AbortKeeps DEF IndInv, Errors
<1>3. CASE /\ pc' = "written" /\ UNCHANGED <<f, ext, img, prev>>
           /\ ret' \in {[ok |-> TRUE, rc |-> f.rc, err |-> "none"], Failed("IO")}
  <2>1. [ok |-> TRUE, rc |-> f.rc, err |-> "none"] \in Results
    BY <1>1 DEF Results, Errors, Frame
  <2>2. ret' \in Results
    BY <1>3, <2>1, FailedResult DEF Errors
  <2> QED BY <1>1, <1>3, <2>2, WriteStepKeeps
<1> QED BY <1>2, <1>3 DEF Commit

----------------------------------------------------------------------------
(* The invariant, and what follows from it. *)

\* The invariant is inductive.
LEMMA NextKeeps == IndInv /\ [Next]_vars => IndInv'
<1> SUFFICES ASSUME IndInv, [Next]_vars PROVE IndInv'
  OBVIOUS
<1>1. CASE AppNext
  BY <1>1, AppKeeps
<1>2. ASSUME NEW c \in {"NULL", "WRITE"}, BeginUpdate(c) PROVE IndInv'
  BY <1>2, BeginKeeps
<1>3. CASE ResyncStep
  BY <1>3, ResyncEhdrKeeps, ResyncPhdrKeeps, ResyncScnSkipKeeps, ResyncScnCleanKeeps,
     ResyncScnBeginKeeps, ResyncScnErrorKeeps, ResyncDataKeeps, ResyncScnEndKeeps,
     ResyncShdrKeeps, AfterResyncKeeps DEF ResyncStep
<1>4. CASE WriteStep
  BY <1>4, WriteTableKeeps, WriteScnBeginKeeps, WriteRawKeeps, WriteDataKeeps,
     WriteScnEndKeeps, CommitKeeps DEF WriteStep
<1>5. CASE UNCHANGED vars
  BY <1>5 DEF vars, obj, IndInv, ObjType, CallInv, CallType, ExtentsSorted, SizeIsEnd, LoopInv
<1> QED BY <1>1, <1>2, <1>3, <1>4, <1>5 DEF Next

\* Along every behaviour of the machine, for every object it may start from and
\* every call of the application, the inductive invariant holds.
THEOREM Invariant == Spec => []IndInv
  BY InitInv, NextKeeps, PTL DEF Spec

\* Every variable of the machine always has its type.
THEOREM TypeCorrect == Spec => []TypeOK
<1>1. IndInv => TypeOK
  BY DEF IndInv, ObjType, CallInv, CallType, TypeOK, Pcs, Results
<1> QED BY <1>1, Invariant, PTL

\* _libelf_insert_extent keeps the list sorted and free of overlaps, whatever
\* the application asked for, in the library's layout and in its own.
THEOREM ExtentsAlwaysSorted == Spec => []ExtentsSorted
<1>1. IndInv => ExtentsSorted
  BY DEF IndInv, CallInv
<1> QED BY <1>1, Invariant, PTL

\* The size _libelf_resync_elf returns is the end of the last extent, so that
\* the buffer elf_update allocates holds every extent.
THEOREM SizeAlwaysEnd == Spec => []SizeIsEnd
<1>1. IndInv => SizeIsEnd
  BY DEF IndInv, CallInv
<1> QED BY <1>1, Invariant, PTL

----------------------------------------------------------------------------
(* ELF_E_LAYOUT under the library's layout. *)

\* An extent ends at or after its start.
LEMMA EndType ==
    ASSUME NEW x \in ExtRec
    PROVE  x.start \in Nat /\ End(x) \in Nat /\ x.start <= End(x)
<1>1. x.start \in Nat /\ x.size \in Nat
  BY DEF ExtRec
<1> QED BY <1>1 DEF End

\* An extent that starts at or after the end of the object is never refused for
\* overlapping another one.
LEMMA AtEndIsUnused ==
    ASSUME IndInv, NEW start \in Nat, NEW size \in Nat, f.rc <= start \/ ext = <<>>,
           RefuseExtent(start, size)
    PROVE  ret' = Failed("RESOURCE")
<1>1. ext \in Seq(ExtRec) /\ ExtentsSorted /\ SizeIsEnd /\ Len(ext) \in Nat /\ f.rc \in Nat
  BY LenProperties DEF IndInv, CallInv, CallType, Frame
<1>2. PICK p \in 1..Len(ext) + 1 :
        /\ IsSlot(p, start)
        /\ Fail(IF Unused(p, start, size) THEN "RESOURCE" ELSE "LAYOUT")
  BY DEF RefuseExtent
<1>3. ASSUME p <= Len(ext) PROVE FALSE
  <2>1. p \in DOMAIN ext /\ Len(ext) \in DOMAIN ext /\ ext # <<>>
    BY <1>1, <1>3, EmptySeq, LenProperties
  <2>2. ext[p] \in ExtRec /\ ext[Len(ext)] \in ExtRec
    BY <1>1, <2>1, ElementOfSeq, LenProperties
  <2>3. /\ End(ext[p]) \in Nat /\ End(ext[Len(ext)]) \in Nat
        /\ ext[Len(ext)].start \in Nat /\ ext[Len(ext)].start <= End(ext[Len(ext)])
    BY <2>2, EndType
  <2>4. End(ext[p]) <= End(ext[Len(ext)])
    <3>1. CASE p = Len(ext)
      BY <2>3, <3>1
    <3>2. CASE p < Len(ext)
      <4>1. End(ext[p]) <= ext[Len(ext)].start
        BY <1>1, <2>1, <3>2 DEF ExtentsSorted
      <4> QED BY <2>3, <4>1
    <3> QED BY <1>1, <1>3, <3>1, <3>2
  <2>5. f.rc = End(ext[Len(ext)])
    BY <1>1, <2>1 DEF SizeIsEnd
  <2>6. End(ext[p]) > start
    BY <1>2, <1>3 DEF IsSlot
  <2> QED BY <1>1, <2>1, <2>3, <2>4, <2>5, <2>6
<1>4. Fail("RESOURCE")
  BY <1>2, <1>3 DEF Unused
<1> QED BY <1>4 DEF Fail, Return

\* While a call is under way it has not failed yet.
RetInv == pc # "idle" => ret.err # "LAYOUT"

\* The error a failed call leaves is the one it failed with.
LEMMA ErrorNames ==
    /\ Failed("RESOURCE").err = "RESOURCE" /\ Failed("SECTION").err = "SECTION"
    /\ Failed("DATA").err = "DATA" /\ Failed("none").err = "none"
    /\ Failed("LAYOUT").err = "LAYOUT" /\ Failed("IO").err = "IO"
    /\ Failed("ARGUMENT").err = "ARGUMENT" /\ Failed("SEQUENCE").err = "SEQUENCE"
    /\ Failed("assert:falign").err = "assert:falign"
    /\ Failed("assert:d_buf").err = "assert:d_buf"
    /\ Failed("assert:extent").err = "assert:extent"
    /\ Failed("assert:newsize").err = "assert:newsize"
  BY DEF Failed

\* A section of the library's layout is placed at or after the end.
LEMMA PlaceScnAccepted ==
    ASSUME IndInv, ret.err # "LAYOUT", NEW s \in ScnRec, f.rc <= s.off, PlaceScn(s)
    PROVE  ret'.err # "LAYOUT"
<1>1. s.off \in Nat /\ s.size \in Nat
  BY DEF ScnRec
<1>2. CASE Continue("scn")
  BY <1>2 DEF Continue
<1>3. CASE RefuseExtent(s.off, s.size)
  BY <1>1, <1>3, AtEndIsUnused, ErrorNames
<1> QED BY <1>2, <1>3 DEF PlaceScn

\* Writing never fails with ELF_E_LAYOUT.
LEMMA WriteErrors ==
    ASSUME ret.err # "LAYOUT", WriteStep
    PROVE  ret'.err # "LAYOUT"
<1>1. CASE WriteTable
  BY <1>1 DEF WriteTable, Continue
<1>2. CASE WriteScnBegin
  BY <1>2, ErrorNames DEF WriteScnBegin, Continue, Abort
<1>3. CASE WriteRaw
  BY <1>3, ErrorNames DEF WriteRaw, Continue, Fail, Return
<1>4. CASE WriteData
  BY <1>4, ErrorNames DEF WriteData, Continue, Abort
<1>5. CASE WriteScnEnd
  BY <1>5, ErrorNames DEF WriteScnEnd, Continue, Abort
<1>6. CASE Commit
  <2>1. [ok |-> TRUE, rc |-> f.rc, err |-> "none"].err = "none"
    OBVIOUS
  <2>2. \/ ret' = Failed("assert:newsize") \/ ret' = Failed("IO")
        \/ ret' = [ok |-> TRUE, rc |-> f.rc, err |-> "none"]
    BY <1>6 DEF Commit, Abort
  <2> QED BY <2>1, <2>2, ErrorNames
<1> QED BY <1>1, <1>2, <1>3, <1>4, <1>5, <1>6 DEF WriteStep

\* No step of a call whose layout the library computes fails with ELF_E_LAYOUT.
LEMMA StepAccepted ==
    ASSUME IndInv, ret.err # "LAYOUT", ~layout, ResyncStep \/ WriteStep
    PROVE  ret'.err # "LAYOUT"
<1>1. f \in Frame /\ f.rc \in Nat /\ scn \in Seq(ScnRec) /\ ObjType /\ LoopInv
  BY DEF IndInv, ObjType, CallInv, CallType, Frame
<1>2. CASE ResyncEhdr
  <2>1. CASE RefuseExtent(0, EhdrSize)
    <3>1. ext = <<>> /\ EhdrSize \in Nat
      BY <1>1, <1>2, SizesAssumption DEF ResyncEhdr, LoopInv
    <3> QED BY <2>1, <3>1, AtEndIsUnused, ErrorNames
  <2>2. CASE Fail(EhdrError)
    BY <2>2, EhdrErrorNames DEF Fail, Return, Failed
  <2> QED BY <1>2, <2>1, <2>2 DEF ResyncEhdr, Continue
<1>3. CASE ResyncPhdr
  <2>1. f.rc = EhdrSize /\ PhOff = roundup(EhdrSize, PhdrAlign)
    BY <1>1, <1>3 DEF ResyncPhdr, LoopInv, PhOff
  <2>2. PhOff \in Nat /\ f.rc <= PhOff
    BY <2>1, SizesAssumption, RoundupNat
  <2>3. PhentSize * phnum \in Nat
    BY <1>1, SizesAssumption DEF ObjType
  <2>4. CASE RefuseExtent(PhOff, PhentSize * phnum)
    BY <2>2, <2>3, <2>4, AtEndIsUnused, ErrorNames
  <2> QED BY <1>3, <2>4 DEF ResyncPhdr, Continue
<1>4. CASE ResyncScnSkip
  BY <1>4 DEF ResyncScnSkip
<1>5. CASE ResyncScnClean
  <2> DEFINE s == scn[f.si]
             r == [s EXCEPT !.align = ShAlign(s), !.off = roundup(f.rc, ShAlign(s))]
  <2>1. s \in ScnRec /\ s.type \in DOMAIN FAlign
    BY <1>5, CurrentScn DEF ResyncScnClean
  <2>2. ShAlign(s) \in Nat \ {0}
    BY <2>1, ShAlignPositive
  <2>3. roundup(f.rc, ShAlign(s)) \in Nat /\ f.rc <= roundup(f.rc, ShAlign(s))
    BY <1>1, <2>2, RoundupNat
  <2>4. PlaceScn(r)
    BY <1>5 DEF ResyncScnClean
  <2> HIDE DEF s
  <2>5. r \in ScnRec /\ r.off = roundup(f.rc, ShAlign(s))
    BY <2>1, <2>2, <2>3 DEF ScnRec
  <2> HIDE DEF r
  <2> QED BY <2>3, <2>4, <2>5, PlaceScnAccepted
<1>6. CASE ResyncScnBegin
  BY <1>6 DEF ResyncScnBegin, Continue
<1>7. CASE ResyncScnError
  BY <1>7, ErrorNames DEF ResyncScnError, Fail, Return
<1>8. CASE ResyncData
  BY <1>8, DataErrorNames DEF ResyncData, Fail, Return, Continue, Failed
<1>9. CASE ResyncScnEnd
  <2> DEFINE s == scn[f.si]
             al == Bigger(ShAlign(s), f.sal)
  <2>1. pc = "data" /\ PlaceScn(ComputedShdr(s))
    BY <1>9 DEF ResyncScnEnd
  <2>2. f.si \in DOMAIN scn /\ s.type \in DOMAIN FAlign
    BY <1>1, <2>1 DEF LoopInv
  <2>3. s \in ScnRec
    BY <1>1, <2>2, ElementOfSeq, LenProperties
  <2>4. ShAlign(s) \in Nat \ {0} /\ f.sal \in Nat /\ f.ssz \in Nat
    BY <1>1, <2>2, <2>3, ShAlignPositive DEF Frame
  <2> HIDE DEF s
  <2>5. al \in Nat \ {0}
    <3>1. ASSUME NEW a \in Nat \ {0}, NEW b \in Nat PROVE Bigger(a, b) \in Nat \ {0}
      BY DEF Bigger
    <3> QED BY <2>4, <3>1
  <2> HIDE DEF al
  <2>6. roundup(f.rc, al) \in Nat /\ f.rc <= roundup(f.rc, al)
    BY <1>1, <2>5, RoundupNat
  <2>7. ComputedShdr(s) \in ScnRec /\ ComputedShdr(s).off = roundup(f.rc, al)
    BY <2>3, <2>4, <2>5, <2>6 DEF ComputedShdr, ScnRec, al
  <2> QED BY <2>1, <2>6, <2>7, PlaceScnAccepted
<1>10. CASE ResyncShdr
  <2> DEFINE fsz == ShentSize * Len(scn)
             shoff == IF scn = <<>> THEN 0
                      ELSE IF layout THEN eh.shoff ELSE roundup(f.rc, ShdrAlign)
  <2>1. CASE Continue("resynced")
    BY <2>1 DEF Continue
  <2>2. CASE scn # <<>> /\ RefuseExtent(shoff, fsz)
    <3>1. fsz \in Nat
      BY <1>1, LenProperties, SizesAssumption
    <3>2. shoff \in Nat /\ f.rc <= shoff
      BY <1>1, <2>2, SizesAssumption, RoundupNat
    <3> HIDE DEF fsz, shoff
    <3> QED BY <2>2, <3>1, <3>2, AtEndIsUnused, ErrorNames
  <2> QED BY <1>10, <2>1, <2>2 DEF ResyncShdr
<1>11. CASE AfterResync
  BY <1>11, ErrorNames DEF AfterResync, Fail, Return, Continue
<1>12. CASE WriteStep
  BY <1>12, WriteErrors
<1> QED BY <1>2, <1>3, <1>4, <1>5, <1>6, <1>7, <1>8, <1>9, <1>10, <1>11, <1>12
  DEF ResyncStep

\* While a call is under way its steps are those of elf_update.
LEMMA OutsideCall == ASSUME Next, pc # "idle" PROVE ResyncStep \/ WriteStep
  BY DEF Next, AppNext, BeginUpdate, AppStep, FlagLayout, FdDone, NewPhdr, SetEhdr,
     NewScn, SetShdr, FlagScn, GetData, NewData, SetData

\* A step that stays in the call sets no error but that of an assertion or write.
LEMMA StepGoesOn ==
    ASSUME ret.err # "LAYOUT", ResyncStep \/ WriteStep, pc' # "idle"
    PROVE  ret'.err # "LAYOUT"
<1>1. CASE ResyncStep
  BY <1>1, Zenon DEF ResyncStep, ResyncEhdr, ResyncPhdr, ResyncScnSkip, ResyncScnClean,
     ResyncScnBegin, ResyncScnError, ResyncData, ResyncScnEnd, ResyncShdr, AfterResync,
     PlaceScn, RefuseExtent, Fail, Return, Continue
<1>2. CASE WriteStep
  BY <1>2, WriteErrors
<1> QED BY <1>1, <1>2

\* A call that goes on has not failed with ELF_E_LAYOUT.
LEMMA RetKept == IndInv /\ RetInv /\ [Next]_vars => RetInv'
<1> SUFFICES ASSUME IndInv, RetInv, [Next]_vars, pc' # "idle" PROVE ret'.err # "LAYOUT"
  BY DEF RetInv
<1>1. CASE UNCHANGED vars
  BY <1>1 DEF vars, RetInv
<1>2. CASE Next /\ pc = "idle"
  <2>1. ~ResyncStep /\ ~WriteStep
    BY <1>2 DEF ResyncStep, WriteStep, ResyncEhdr, ResyncPhdr, ResyncScnSkip, ResyncScnClean,
       ResyncScnBegin, ResyncScnError, ResyncData, ResyncScnEnd, ResyncShdr, AfterResync,
       WriteTable, WriteScnBegin, WriteRaw, WriteData, WriteScnEnd, Commit
  <2>2. ~AppNext
    BY <1>2 DEF AppNext, AppStep, FlagLayout, FdDone, NewPhdr, SetEhdr,
       NewScn, SetShdr, FlagScn, GetData, NewData, SetData
  <2>3. PICK c \in {"NULL", "WRITE"} : BeginUpdate(c)
    BY <1>2, <2>1, <2>2 DEF Next
  <2> QED BY <1>2, <2>3, ErrorNames DEF BeginUpdate
<1>3. CASE Next /\ pc # "idle"
  <2>1. ResyncStep \/ WriteStep
    BY <1>3, OutsideCall
  <2> QED BY <1>3, <2>1, StepGoesOn DEF RetInv
<1> QED BY <1>1, <1>2, <1>3

\* ELF_E_LAYOUT is only ever the application's: whatever the objects, types,
\* alignments and sizes, no step of elf_update fails with it when the library
\* computes the layout.
THEOREM LibraryLayoutAccepted == Spec => LibraryNeverOverlaps
<1>1. Init => RetInv
  BY DEF Init, RetInv
<1>2. Spec => []RetInv
  BY <1>1, Invariant, RetKept, PTL DEF Spec
<1>3. IndInv /\ RetInv /\ [Next]_vars =>
        [pc # "idle" /\ ~layout => ret'.err # "LAYOUT"]_vars
  <2> SUFFICES ASSUME IndInv, RetInv, Next, pc # "idle", ~layout
               PROVE  ret'.err # "LAYOUT"
    OBVIOUS
  <2> QED BY OutsideCall, StepAccepted DEF RetInv
<1> QED BY <1>2, <1>3, Invariant, PTL DEF Spec, LibraryNeverOverlaps

----------------------------------------------------------------------------
(* The image. *)

Laying == {"ehdr", "phdr", "scn", "data"}

\* The extent of a section is where the section was placed; while sections are
\* being placed, it is that of a section before the current one.
PlacedInv ==
    \A k \in DOMAIN ext : ext[k].kind = "SECTION" =>
        /\ ext[k].start = scn[ext[k].s].soff
        /\ pc \in Laying => ext[k].s < f.si

\* A step that leaves the extents alone.
LEMMA PlacedKept ==
    ASSUME IndInv, PlacedInv, ext' = ext,
           \A i \in DOMAIN scn : i # f.si \/ pc \notin Laying => scn'[i].soff = scn[i].soff,
           pc' \in Laying => pc \in Laying /\ f'.si >= f.si, f' \in Frame
    PROVE  PlacedInv'
<1> SUFFICES ASSUME NEW k \in DOMAIN ext, ext[k].kind = "SECTION"
             PROVE  /\ ext[k].start = scn'[ext[k].s].soff
                    /\ pc' \in Laying => ext[k].s < f'.si
  BY DEF PlacedInv
<1>1. /\ ext[k].s \in DOMAIN scn /\ ext[k].start = scn[ext[k].s].soff
      /\ pc \in Laying => ext[k].s < f.si
  BY DEF PlacedInv, IndInv, CallInv, LoopInv
<1>2. ext[k].s \in Nat /\ f.si \in Nat /\ f'.si \in Nat
  BY <1>1, LenProperties, SMTT(60) DEF IndInv, ObjType, CallInv, CallType, Frame
<1>3. pc \in Laying => ext[k].s # f.si
  BY <1>1, <1>2
<1> QED BY <1>1, <1>2, <1>3

\* A step that places an extent.
LEMMA PlacedInserted ==
    ASSUME IndInv, PlacedInv, pc \in Laying,
           NEW kind \in {"EHDR", "PHDR", "SECTION", "SHDR"},
           NEW start \in Nat, NEW size \in Nat, NEW s \in Nat,
           InsertExtent(kind, start, size, s),
           kind = "SECTION" => start = scn'[s].soff /\ s < f'.si,
           \A i \in DOMAIN scn : i # f.si => scn'[i].soff = scn[i].soff,
           f'.si >= f.si, f' \in Frame
    PROVE  PlacedInv'
<1>1. \A k \in DOMAIN ext' :
        \/ ext'[k] = [start |-> start, size |-> size, kind |-> kind, s |-> s]
        \/ \E h \in DOMAIN ext : ext'[k] = ext[h]
  BY InsertExtentCorrect DEF IndInv, CallInv, CallType
<1> SUFFICES ASSUME NEW k \in DOMAIN ext', ext'[k].kind = "SECTION"
             PROVE  /\ ext'[k].start = scn'[ext'[k].s].soff
                    /\ ext'[k].s < f'.si
  BY DEF PlacedInv
<1>2. CASE ext'[k] = [start |-> start, size |-> size, kind |-> kind, s |-> s]
  BY <1>2
<1>3. ASSUME NEW h \in DOMAIN ext, ext'[k] = ext[h]
      PROVE  /\ ext[h].start = scn'[ext[h].s].soff
             /\ ext[h].s < f'.si
  <2>1. /\ ext[h].s \in DOMAIN scn /\ ext[h].start = scn[ext[h].s].soff
        /\ ext[h].s < f.si
    BY <1>3 DEF PlacedInv, IndInv, CallInv, LoopInv
  <2>2. f.si \in Nat /\ f'.si \in Nat /\ DOMAIN scn = 1..Len(scn) /\ Len(scn) \in Nat
    BY LenProperties DEF IndInv, ObjType, CallInv, CallType, Frame
  <2>3. ext[h].s \in Nat
    BY <2>1, <2>2
  <2> QED BY <2>1, <2>2, <2>3
<1> QED BY <1>1, <1>2, <1>3

\* A call that ends releases the extents.
LEMMA PlacedReleased == ASSUME ext' = <<>> PROVE PlacedInv'
<1>1. DOMAIN ext' = {}
  BY EmptySeq, LenProperties
<1> QED BY <1>1 DEF PlacedInv

\* Placing a section.
LEMMA PlacedPlaceScn ==
    ASSUME IndInv, PlacedInv, pc \in Laying, f.si \in DOMAIN scn, NEW s \in ScnRec, PlaceScn(s)
    PROVE  PlacedInv'
<1> DEFINE r == [s EXCEPT !.soff = s.off, !.ssize = s.size]
<1>1. /\ scn \in Seq(ScnRec) /\ f \in Frame /\ f.si \in Nat /\ f.rc \in Nat
      /\ s.off \in Nat /\ s.size \in Nat
  BY DEF IndInv, ObjType, CallInv, CallType, Frame, ScnRec
<1>2. r.soff = s.off
  BY DEF ScnRec
<1>3. scn' = [scn EXCEPT ![f.si] = r]
  BY DEF PlaceScn
<1> HIDE DEF r
<1>4. /\ scn'[f.si].soff = s.off
      /\ \A i \in DOMAIN scn : i # f.si => scn'[i].soff = scn[i].soff
  BY <1>1, <1>2, <1>3
<1>5. CASE UNCHANGED ext /\ f' = [f EXCEPT !.si = @ + 1]
  <2>1. f' \in Frame /\ f'.si = f.si + 1
    BY <1>1, <1>5, SMTT(60) DEF Frame
  <2>2. f'.si >= f.si
    BY <1>1, <2>1
  <2> QED BY <1>4, <1>5, <2>1, <2>2, PlacedKept
<1>6. CASE /\ InsertExtent("SECTION", s.off, s.size, f.si)
           /\ f' = [f EXCEPT !.si = @ + 1, !.rc = Bigger(@, s.off + s.size)]
  <2> DEFINE e == s.off + s.size
             b == Bigger(f.rc, e)
  <2>1. e \in Nat
    BY <1>1
  <2> HIDE DEF e
  <2>4. b \in Nat
    BY <1>1, <2>1, BiggerNat
  <2>5. f' = [f EXCEPT !.si = @ + 1, !.rc = b]
    BY <1>6 DEF e
  <2> HIDE DEF b
  <2>6. f.si + 1 \in Nat \ {0}
    BY <1>1
  <2>2. f' \in Frame /\ f'.si = f.si + 1
    BY <1>1, <2>4, <2>5, <2>6 DEF Frame
  <2>3. f'.si >= f.si /\ f.si < f'.si
    BY <1>1, <2>2
  <2> QED BY <1>1, <1>4, <1>6, <2>2, <2>3, PlacedInserted
<1>7. CASE RefuseExtent(s.off, s.size)
  BY <1>7, PlacedReleased DEF RefuseExtent, Fail, Return
<1> QED BY <1>5, <1>6, <1>7 DEF PlaceScn

\* The header the library computes is a section header.
LEMMA ComputedShdrType ==
    ASSUME f \in Frame, NEW s \in ScnRec, s.type \in DOMAIN FAlign
    PROVE  ComputedShdr(s) \in ScnRec
<1> DEFINE al == Bigger(ShAlign(s), f.sal)
<1>1. ShAlign(s) \in Nat \ {0} /\ f.sal \in Nat /\ f.ssz \in Nat /\ f.rc \in Nat
  BY ShAlignPositive DEF Frame
<1>2. al \in Nat \ {0}
  <2>1. ASSUME NEW a \in Nat \ {0}, NEW b \in Nat PROVE Bigger(a, b) \in Nat \ {0}
    BY DEF Bigger
  <2> QED BY <1>1, <2>1
<1> HIDE DEF al
<1>3. roundup(f.rc, al) \in Nat
  BY <1>1, <1>2, RoundupNat
<1> QED BY <1>1, <1>2, <1>3 DEF ComputedShdr, ScnRec, al

\* A refused extent ends the call.
LEMMA RefuseReleases ==
    ASSUME NEW start, NEW size, RefuseExtent(start, size)
    PROVE  ext' = <<>>
  BY DEF RefuseExtent, Fail, Return

\* Laying out the headers and the sections.
LEMMA PlacedResync ==
    ASSUME IndInv, IndInv', PlacedInv, ResyncStep
    PROVE  PlacedInv'
<1>1. /\ f \in Frame /\ f' \in Frame /\ f.si \in Nat /\ scn \in Seq(ScnRec) /\ ObjType /\ LoopInv
      /\ DOMAIN scn = 1..Len(scn) /\ Len(scn) \in Nat
  BY LenProperties DEF IndInv, ObjType, CallInv, CallType, Frame
<1>2. CASE ResyncEhdr
  <2>1. CASE /\ InsertExtent("EHDR", 0, EhdrSize, 0)
             /\ f' = [f EXCEPT !.rc = EhdrSize]
    <3>1. pc = "ehdr" /\ scn' = scn /\ EhdrSize \in Nat /\ f'.si = f.si
      BY <1>1, <1>2, <2>1, SizesAssumption DEF ResyncEhdr, obj, Frame
    <3> QED BY <1>1, <2>1, <3>1, PlacedInserted DEF Laying
  <2>2. CASE RefuseExtent(0, EhdrSize)
    BY <2>2, RefuseReleases, PlacedReleased
  <2>3. CASE Fail(EhdrError)
    BY <2>3, PlacedReleased DEF Fail, Return
  <2> QED BY <1>2, <2>1, <2>2, <2>3 DEF ResyncEhdr
<1>3. CASE ResyncPhdr
  <2> DEFINE fsz == PhentSize * phnum
  <2>1. pc = "phdr" /\ scn' = scn /\ PhOff \in Nat /\ fsz \in Nat
    BY <1>1, <1>3, SizesAssumption, PhOffNat, SMTT(60) DEF ResyncPhdr, obj, ObjType
  <2>2. CASE InsertExtent("PHDR", PhOff, fsz, 0) /\ f' = [f EXCEPT !.rc = PhOff + fsz]
    <3> HIDE DEF fsz
    <3>1. f'.si = f.si
      BY <1>1, <2>2 DEF Frame
    <3> QED BY <1>1, <2>1, <2>2, <3>1, PlacedInserted, SMTT(60) DEF Laying
  <2>3. CASE RefuseExtent(PhOff, fsz)
    BY <2>3, RefuseReleases, PlacedReleased
  <2>4. CASE Fail("LAYOUT")
    BY <2>4, PlacedReleased DEF Fail, Return
  <2> QED BY <1>3, <2>2, <2>3, <2>4 DEF ResyncPhdr
<1>4. CASE ResyncScnSkip
  <2>1. /\ pc = "scn" /\ pc' = "scn" /\ ext' = ext /\ scn' = scn
        /\ f' = [f EXCEPT !.si = @ + 1]
    BY <1>4 DEF ResyncScnSkip, obj
  <2>2. f'.si = f.si + 1
    BY <1>1, <2>1 DEF Frame
  <2>3. f'.si >= f.si
    BY <1>1, <2>2
  <2> QED BY <1>1, <2>1, <2>3, PlacedKept DEF Laying
<1>5. CASE ResyncScnClean
  <2> DEFINE s == scn[f.si]
             t == [s EXCEPT !.align = ShAlign(s), !.off = roundup(f.rc, ShAlign(s))]
  <2>1. pc = "scn" /\ PlaceScn(IF layout THEN s ELSE t) /\ s.type \in DOMAIN FAlign /\ f.si <= Len(scn)
    BY <1>5 DEF ResyncScnClean
  <2>2. f.si \in DOMAIN scn /\ s \in ScnRec /\ f.rc \in Nat
    BY <2>1, CurrentScn
  <2>3. t \in ScnRec
    <3>1. ShAlign(s) \in Nat \ {0}
      BY <2>1, <2>2, ShAlignPositive
    <3>2. roundup(f.rc, ShAlign(s)) \in Nat
      BY <2>2, <3>1, RoundupNat
    <3> HIDE DEF s
    <3> QED BY <2>2, <3>1, <3>2 DEF ScnRec
  <2> HIDE DEF s, t
  <2> QED BY <2>1, <2>2, <2>3, PlacedPlaceScn DEF Laying
<1>6. CASE ResyncScnBegin
  <2>1. /\ pc = "scn" /\ pc' = "data" /\ ext' = ext /\ f' = [f EXCEPT !.di = 1, !.ssz = 0, !.sal = 0]
        /\ \/ scn' = [scn EXCEPT ![f.si].data = <<Loaded(scn[f.si])>>]
           \/ scn' = scn
    BY <1>6 DEF ResyncScnBegin, Continue
  <2>2. f'.si = f.si
    BY <1>1, <2>1, FrameStart
  <2>3. \A i \in DOMAIN scn : i # f.si => scn'[i].soff = scn[i].soff
    BY <2>1
  <2> QED BY <1>1, <2>1, <2>2, <2>3, PlacedKept DEF Laying
<1>7. CASE ResyncScnError
  BY <1>7, PlacedReleased DEF ResyncScnError, Fail, Return
<1>8. CASE ResyncData
  <2> DEFINE d == scn[f.si].data[f.di]
  <2>1. CASE /\ scn' = [scn EXCEPT ![f.si].data[f.di].off = DataOff(d)]
             /\ f' = [f EXCEPT !.di = @ + 1, !.ssz = Bigger(@, DataEnd(d)), !.sal = Bigger(@, d.align)]
             /\ Continue("data") /\ UNCHANGED <<ext, img>>
    <3> HIDE DEF d
    <3>1. f'.si = f.si
      BY <1>1, <2>1 DEF Frame
    <3>2. \A i \in DOMAIN scn : i # f.si => scn'[i].soff = scn[i].soff
      BY <2>1
    <3>3. pc = "data" /\ ext' = ext
      BY <1>8, <2>1 DEF ResyncData
    <3> QED BY <1>1, <3>1, <3>2, <3>3, PlacedKept DEF Laying
  <2>2. CASE Fail(DataError(d))
    <3> HIDE DEF d
    <3> QED BY <2>2, PlacedReleased DEF Fail, Return
  <2> QED BY <1>8, <2>1, <2>2 DEF ResyncData
<1>9. CASE ResyncScnEnd
  <2> DEFINE s == scn[f.si]
  <2>1. pc = "data" /\ (Fail("LAYOUT") \/ PlaceScn(s) \/ PlaceScn(ComputedShdr(s)))
    BY <1>9 DEF ResyncScnEnd
  <2>2. f.si \in DOMAIN scn /\ s.type \in DOMAIN FAlign
    BY <1>1, <2>1 DEF LoopInv
  <2>3. s \in ScnRec
    BY <1>1, <2>2, ElementOfSeq
  <2>4. ComputedShdr(s) \in ScnRec
    BY <1>1, <2>2, <2>3, ComputedShdrType
  <2>5. CASE Fail("LAYOUT")
    BY <2>5, PlacedReleased DEF Fail, Return
  <2> HIDE DEF s
  <2> QED BY <2>1, <2>2, <2>3, <2>4, <2>5, PlacedPlaceScn DEF Laying
<1>10. CASE ResyncShdr
  <2> DEFINE fsz == ShentSize * Len(scn)
             shoff == IF scn = <<>> THEN 0
                      ELSE IF layout THEN eh.shoff ELSE roundup(f.rc, ShdrAlign)
  <2>1. pc = "scn" /\ scn' = scn
    BY <1>10 DEF ResyncShdr
  <2>2. fsz \in Nat /\ shoff \in Nat
    <3>1. ShentSize \in Nat /\ ShdrAlign \in Nat \ {0} /\ f.rc \in Nat /\ eh.shoff \in Nat
      BY <1>1, SizesAssumption DEF ObjType, Frame, EhdrRec
    <3>2. roundup(f.rc, ShdrAlign) \in Nat
      BY <3>1, RoundupNat
    <3> QED BY <1>1, <3>1, <3>2
  <2>3. CASE Fail("LAYOUT")
    BY <2>3, PlacedReleased DEF Fail, Return
  <2>4. CASE RefuseExtent(shoff, fsz)
    BY <2>4, RefuseReleases, PlacedReleased
  <2>5. CASE /\ UNCHANGED <<ext, img>> \/ InsertExtent("SHDR", shoff, fsz, 0)
             /\ f' = [f EXCEPT !.rc = Bigger(@, shoff + fsz)]
             /\ Continue("resynced")
    <3> HIDE DEF fsz, shoff
    <3>1. f'.si = f.si /\ pc' = "resynced"
      BY <1>1, <2>5 DEF Frame, Continue
    <3>2. CASE UNCHANGED ext
      BY <1>1, <2>1, <3>1, <3>2, PlacedKept DEF Laying
    <3>3. CASE InsertExtent("SHDR", shoff, fsz, 0)
      BY <1>1, <2>1, <2>2, <3>1, <3>3, PlacedInserted DEF Laying
    <3> QED BY <2>5, <3>2, <3>3
  <2> HIDE DEF fsz
  <2> QED BY <1>10, <2>3, <2>4, <2>5 DEF ResyncShdr, fsz
<1>11. CASE AfterResync
  <2>1. CASE ext' = <<>>
    BY <2>1, PlacedReleased
  <2>2. CASE ext' = ext /\ pc' = "write" /\ scn' = scn
    BY <1>1, <2>2, PlacedKept DEF Laying
  <2> QED BY <1>11, <2>1, <2>2 DEF AfterResync, Fail, Return, Continue, obj
<1> QED BY <1>2, <1>3, <1>4, <1>5, <1>6, <1>7, <1>8, <1>9, <1>10, <1>11 DEF ResyncStep

----------------------------------------------------------------------------
(* What the bytes of the image are, by the extents e and the sections t. *)

Holds(x, k) == x.start <= k /\ k < End(x)

Ends(t, i, j) == t[i].data[j].off + t[i].data[j].size

Covers(t, i, j, k) == t[i].data[j].off <= k /\ k < Ends(t, i, j)

\* k is in the gap between descriptor h and the end of the one listed before it.
GapAt(t, i, h, k) == (IF h = 1 THEN 0 ELSE Ends(t, i, h - 1)) <= k /\ k < t[i].data[h].off

\* b is byte k of section i when its first n descriptors are written: the fill
\* value from a gap nothing later holds, or a byte of the last descriptor that
\* holds it, behind which there is no gap over it.
PartByte(t, i, b, k, n) ==
    \/ /\ b = <<"fill">>
       /\ \E h \in 1..n : GapAt(t, i, h, k) /\ \A j \in h..n : ~Covers(t, i, j, k)
    \/ \E j \in 1..n :
          /\ Covers(t, i, j, k) /\ b = DataByte(i, j, t[i].data[j], k - t[i].data[j].off)
          /\ \A h \in j + 1..n : ~Covers(t, i, h, k) /\ ~GapAt(t, i, h, k)

WholeByte(t, i, b, k) ==
    IF t[i].data = <<>> THEN b = <<"raw", t[i].rawoff + k>>
    ELSE PartByte(t, i, b, k, Len(t[i].data))

\* b is right for offset k of extent x, and for offset k of the file.
RightIn(x, t, b, k) ==
    IF x.kind = "SECTION" THEN WholeByte(t, x.s, b, k - x.start) ELSE b = <<x.kind, k - x.start>>

Right(e, t, b, k) ==
    /\ (\A h \in DOMAIN e : ~Holds(e[h], k)) => b = <<"fill">>
    /\ \A h \in DOMAIN e : Holds(e[h], k) => RightIn(e[h], t, b, k)

\* The end of the extent before the h-th.
Before(e, h) == IF h = 1 THEN 0 ELSE End(e[h - 1])

\* One more extent is right, and the gap before it.
LEMMA OneMoreRight ==
    ASSUME NEW e \in Seq(ExtRec), \A i, j \in DOMAIN e : i < j => End(e[i]) <= e[j].start,
           NEW t, NEW h \in DOMAIN e, NEW k \in Nat, NEW b, k < End(e[h]),
           k < Before(e, h) => Right(e, t, b, k),
           Before(e, h) <= k /\ k < e[h].start => b = <<"fill">>,
           e[h].start <= k => RightIn(e[h], t, b, k)
    PROVE  Right(e, t, b, k)
<1>1. \A i \in DOMAIN e : e[i].start \in Nat /\ End(e[i]) \in Nat /\ e[i].start <= End(e[i])
  BY ElementOfSeq, EndType, LenProperties
<1>2. DOMAIN e = 1..Len(e) /\ Len(e) \in Nat
  BY LenProperties
<1>3. CASE k < Before(e, h)
  BY <1>3
<1>4. CASE Before(e, h) <= k
  <2>1. \A i \in DOMAIN e : i < h => ~Holds(e[i], k)
    <3> SUFFICES ASSUME NEW i \in DOMAIN e, i < h PROVE End(e[i]) <= k
      BY <1>1 DEF Holds
    <3>1. h - 1 \in DOMAIN e /\ h # 1 /\ Before(e, h) = End(e[h - 1])
      BY <1>2 DEF Before
    <3>2. CASE i = h - 1
      BY <1>4, <3>1, <3>2
    <3>3. CASE i < h - 1
      <4>1. End(e[i]) <= e[h - 1].start
        BY <3>1, <3>3
      <4> QED BY <1>1, <1>4, <3>1, <4>1
    <3> QED BY <1>2, <3>2, <3>3
  <2>2. \A i \in DOMAIN e : i > h => ~Holds(e[i], k)
    <3> SUFFICES ASSUME NEW i \in DOMAIN e, h < i PROVE k < e[i].start
      BY <1>1, <1>2 DEF Holds
    <3>1. End(e[h]) <= e[i].start
      OBVIOUS
    <3> QED BY <1>1, <3>1
  <2>3. \A i \in DOMAIN e : Holds(e[i], k) => i = h
    BY <1>2, <2>1, <2>2
  <2>4. CASE k < e[h].start
    <3>1. ~Holds(e[h], k)
      BY <1>1, <2>4 DEF Holds
    <3> QED BY <1>4, <2>3, <2>4, <3>1 DEF Right
  <2>5. CASE e[h].start <= k
    <3>1. Holds(e[h], k)
      BY <2>5 DEF Holds
    <3> QED BY <2>3, <2>5, <3>1 DEF Right
  <2> QED BY <1>1, <2>4, <2>5
<1>5. Before(e, h) \in Nat
  <2>1. h # 1 => h - 1 \in DOMAIN e
    BY <1>2
  <2> QED BY <1>1, <2>1 DEF Before
<1> QED BY <1>3, <1>4, <1>5

\* One more descriptor is written: b2 is the byte after, b1 the byte before.
LEMMA OneMoreDescriptor ==
    ASSUME NEW t \in Seq(ScnRec), NEW i \in DOMAIN t, NEW n \in DOMAIN t[i].data,
           NEW k \in Nat, NEW b1, NEW b2, k < Ends(t, i, n),
           NEW m \in Nat, n = 1 => m = 0, n > 1 => m = Ends(t, i, n - 1),
           k < m => PartByte(t, i, b1, k, n - 1),
           b2 = IF t[i].data[n].off <= k
                THEN DataByte(i, n, t[i].data[n], k - t[i].data[n].off)
                ELSE IF m <= k THEN <<"fill">> ELSE b1
    PROVE  PartByte(t, i, b2, k, n)
<1>0. t[i] \in ScnRec
  BY ElementOfSeq, LenProperties
<1>1. t[i].data \in Seq(DataRec)
  BY <1>0 DEF ScnRec
<1>2. \A j \in DOMAIN t[i].data : t[i].data[j].off \in Nat /\ Ends(t, i, j) \in Nat
  <2> SUFFICES ASSUME NEW j \in DOMAIN t[i].data
               PROVE  t[i].data[j].off \in Nat /\ Ends(t, i, j) \in Nat
    OBVIOUS
  <2>1. t[i].data[j] \in DataRec
    BY <1>1, ElementOfSeq, LenProperties
  <2>2. t[i].data[j].off \in Nat /\ t[i].data[j].size \in Nat
    BY <2>1 DEF DataRec
  <2> QED BY <2>2 DEF Ends
<1>3. DOMAIN t[i].data = 1..Len(t[i].data) /\ Len(t[i].data) \in Nat
  BY <1>1, LenProperties
<1>4. CASE t[i].data[n].off <= k
  <2>1. Covers(t, i, n, k)
    BY <1>4 DEF Covers
  <2>2. n \in 1..n /\ \A h \in n + 1..n : ~Covers(t, i, h, k)
    BY <1>3
  <2> QED BY <1>4, <2>1, <2>2 DEF PartByte
<1>5. CASE ~(t[i].data[n].off <= k) /\ m <= k
  <2>1. ~Covers(t, i, n, k)
    BY <1>5 DEF Covers
  <2>2. n \in 1..n /\ \A j \in n..n : j = n
    BY <1>3
  <2>3. GapAt(t, i, n, k)
    <3>1. k < t[i].data[n].off
      BY <1>2, <1>5
    <3>2. CASE n = 1
      BY <1>5, <3>1, <3>2 DEF GapAt
    <3>3. CASE n # 1
      <4>1. n > 1
        BY <1>3, <3>3
      <4> QED BY <1>5, <3>1, <3>3, <4>1 DEF GapAt
    <3> QED BY <3>2, <3>3
  <2>4. b2 = <<"fill">>
    BY <1>5
  <2> QED BY <2>1, <2>2, <2>3, <2>4 DEF PartByte
<1>6. CASE ~(t[i].data[n].off <= k) /\ ~(m <= k)
  <2>1. ~Covers(t, i, n, k)
    BY <1>6 DEF Covers
  <2>2. PartByte(t, i, b1, k, n - 1) /\ b2 = b1
    BY <1>6
  <2>3. ~GapAt(t, i, n, k)
    <3>1. CASE n = 1
      BY <1>6, <3>1
    <3>2. CASE n # 1
      <4>1. n > 1
        BY <1>3, <3>2
      <4> QED BY <1>6, <3>2, <4>1 DEF GapAt
    <3> QED BY <3>1, <3>2
  <2>4. ASSUME b1 = <<"fill">>, NEW h \in 1..n - 1, GapAt(t, i, h, k),
               \A j \in h..n - 1 : ~Covers(t, i, j, k)
        PROVE  PartByte(t, i, b2, k, n)
    <3>1. h \in 1..n
      BY <1>3
    <3>2. \A j \in h..n : ~Covers(t, i, j, k)
      <4> SUFFICES ASSUME NEW j \in h..n, j # n PROVE ~Covers(t, i, j, k)
        BY <2>1
      <4>1. j \in h..n - 1
        BY <1>3
      <4> QED BY <2>4, <4>1
    <3> QED BY <2>2, <2>4, <3>1, <3>2 DEF PartByte
  <2>5. ASSUME NEW j \in 1..n - 1, Covers(t, i, j, k),
               b1 = DataByte(i, j, t[i].data[j], k - t[i].data[j].off),
               \A h \in j + 1..n - 1 : ~Covers(t, i, h, k) /\ ~GapAt(t, i, h, k)
        PROVE  PartByte(t, i, b2, k, n)
    <3>1. j \in 1..n
      BY <1>3
    <3>2. \A h \in j + 1..n : ~Covers(t, i, h, k) /\ ~GapAt(t, i, h, k)
      <4> SUFFICES ASSUME NEW h \in j + 1..n, h # n
                   PROVE  ~Covers(t, i, h, k) /\ ~GapAt(t, i, h, k)
        BY <2>1, <2>3
      <4>1. h \in j + 1..n - 1
        BY <1>3
      <4> QED BY <2>5, <4>1
    <3> QED BY <2>2, <2>5, <3>1, <3>2 DEF PartByte
  <2> QED BY <2>2, <2>4, <2>5 DEF PartByte
<1> QED BY <1>4, <1>5, <1>6

----------------------------------------------------------------------------
(* The buffer, while _libelf_write_elf fills it. *)

Writing == {"write", "wraw", "wscn"}

\* Section x.s is written up to f.nrc, its first f.di - 1 descriptors.
ScnWritten(x) ==
    /\ f.nrc >= x.start /\ f.di <= Len(scn[x.s].data) + 1
    /\ scn[x.s].data = <<>> =>
         \A k \in DOMAIN img : x.start <= k /\ k < f.nrc =>
            img[k] = <<"raw", scn[x.s].rawoff + (k - x.start)>>
    /\ scn[x.s].data # <<>> =>
         /\ f.di = 1 => f.nrc = x.start
         /\ f.di > 1 => f.nrc = x.start + Ends(scn, x.s, f.di - 1)
         /\ \A k \in DOMAIN img : x.start <= k /\ k < f.nrc =>
               PartByte(scn, x.s, img[k], k - x.start, f.di - 1)

ImgInv ==
    /\ pc \in Writing \cup {"written"} =>
         /\ DOMAIN img = 0..f.rc - 1
         /\ \A k \in DOMAIN img : k < f.wrc => Right(ext, scn, img[k], k)
    /\ pc = "written" => f.wrc = f.rc
    /\ pc \in Writing => f.wrc = Before(ext, f.si)
    /\ pc \in {"wraw", "wscn"} =>
         \A k \in DOMAIN img : f.wrc <= k /\ k < ext[f.si].start => img[k] = <<"fill">>
    /\ pc = "wraw" => scn[ext[f.si].s].data = <<>> /\ f.nrc = ext[f.si].start /\ f.di = 1
    /\ pc = "wscn" => ScnWritten(ext[f.si])

\* What is known when an extent is written.
LEMMA WriteFacts ==
    ASSUME IndInv, ImgInv, pc \in Writing, f.si \in DOMAIN ext
    PROVE  /\ ext \in Seq(ExtRec) /\ \A i, j \in DOMAIN ext : i < j => End(ext[i]) <= ext[j].start
           /\ ext[f.si].start \in Nat /\ ext[f.si].size \in Nat
           /\ End(ext[f.si]) \in Nat /\ ext[f.si].start <= End(ext[f.si])
           /\ End(ext[f.si]) = ext[f.si].start + ext[f.si].size
           /\ f.si + 1 # 1 /\ Before(ext, f.si + 1) = End(ext[f.si])
           /\ f.wrc \in Nat /\ f.wrc = Before(ext, f.si) /\ f.wrc <= ext[f.si].start
           /\ f.nrc \in Nat /\ f.di \in Nat \ {0} /\ f.si \in Nat /\ f.rc \in Nat
           /\ f \in Frame /\ DOMAIN img = 0..f.rc - 1
           /\ \A k \in DOMAIN img : k \in Nat /\ (k < f.wrc => Right(ext, scn, img[k], k))
<1>1. ext \in Seq(ExtRec) /\ \A i, j \in DOMAIN ext : i < j => End(ext[i]) <= ext[j].start
  BY DEF IndInv, CallInv, CallType, ExtentsSorted
<1>2. /\ f \in Frame /\ f.si \in Nat \ {0} /\ f.wrc \in Nat /\ f.nrc \in Nat
      /\ f.di \in Nat \ {0} /\ f.rc \in Nat
  BY DEF IndInv, CallInv, CallType, Frame
<1>3. /\ f.wrc = Before(ext, f.si) /\ DOMAIN img = 0..f.rc - 1
      /\ \A k \in DOMAIN img : k < f.wrc => Right(ext, scn, img[k], k)
  BY DEF ImgInv
<1>4. ext[f.si] \in ExtRec
  BY <1>1, ElementOfSeq, LenProperties
<1>5. /\ ext[f.si].start \in Nat /\ ext[f.si].size \in Nat
      /\ End(ext[f.si]) = ext[f.si].start + ext[f.si].size
  BY <1>4 DEF ExtRec, End
<1>6. f.wrc <= ext[f.si].start
  <2>1. CASE f.si = 1
    BY <1>3, <1>5, <2>1 DEF Before
  <2>2. CASE f.si # 1
    <3>1. f.si - 1 \in DOMAIN ext /\ f.si - 1 < f.si
      BY <1>1, <1>2, <2>2, LenProperties
    <3> QED BY <1>1, <1>3, <2>2, <3>1 DEF Before
  <2> QED BY <2>1, <2>2
<1>7. f.si + 1 # 1 /\ Before(ext, f.si + 1) = End(ext[f.si])
  <2>1. f.si + 1 # 1 /\ (f.si + 1) - 1 = f.si
    BY <1>2
  <2> QED BY <2>1 DEF Before
<1>8. \A k \in DOMAIN img : k \in Nat
  BY <1>2, <1>3
<1> QED BY <1>1, <1>2, <1>3, <1>5, <1>6, <1>7, <1>8, SMTT(60)

\* A header table is written.
LEMMA ImgWriteTable ==
    ASSUME IndInv, ImgInv, WriteTable
    PROVE  ImgInv'
<1> DEFINE x == ext[f.si]
<1>1. /\ pc = "write" /\ f.si <= Len(ext) /\ x.kind # "SECTION" /\ pc' = "write"
      /\ ext' = ext /\ scn' = scn /\ f' = [f EXCEPT !.wrc = End(x), !.si = @ + 1]
  BY DEF WriteTable, Continue, obj
<1>2. f.si \in DOMAIN ext
  BY <1>1, CurrentExtent
<1>3. /\ DOMAIN img' = DOMAIN img
      /\ \A k \in DOMAIN img :
           img'[k] = IF x.start <= k /\ k < x.start + x.size THEN <<x.kind, k - x.start>>
                     ELSE IF f.wrc <= k /\ k < x.start THEN <<"fill">> ELSE img[k]
  BY DEF WriteTable, Copied, Filled
<1>4. f'.wrc = End(x) /\ f'.si = f.si + 1 /\ f'.rc = f.rc
  BY <1>1, <1>2, WriteFacts DEF Frame, Writing
<1>7. /\ x.start \in Nat /\ End(x) = x.start + x.size /\ f.wrc \in Nat /\ f.wrc <= x.start
      /\ x.size \in Nat /\ f.wrc = Before(ext, f.si)
      /\ \A k \in DOMAIN img : k \in Nat /\ (k < f.wrc => Right(ext, scn, img[k], k))
  BY <1>1, <1>2, WriteFacts DEF Writing
<1>5. ASSUME NEW k \in DOMAIN img, k < End(x) PROVE Right(ext, scn, img'[k], k)
  <2>1. k \in Nat
    BY <1>7
  <2> HIDE DEF x
  <2>2. k < f.wrc => img'[k] = img[k]
    BY <1>3, <1>7, <2>1
  <2>3. f.wrc <= k /\ k < x.start => img'[k] = <<"fill">>
    BY <1>3, <1>7, <2>1
  <2>4. x.start <= k => img'[k] = <<x.kind, k - x.start>>
    BY <1>3, <1>5, <1>7, <2>1
  <2>5. x.start <= k => RightIn(x, scn, img'[k], k)
    BY <1>1, <2>4 DEF RightIn
  <2>6. k < f.wrc => Right(ext, scn, img'[k], k)
    BY <1>7, <2>2
  <2> QED BY <1>1, <1>2, <1>5, <1>7, <2>1, <2>3, <2>5, <2>6, WriteFacts, OneMoreRight DEF Writing, x
<1>6. Before(ext, f.si + 1) = End(x) /\ DOMAIN img = 0..f.rc - 1
  BY <1>1, <1>2, WriteFacts DEF Writing
<1> HIDE DEF x
<1> QED BY <1>1, <1>3, <1>4, <1>5, <1>6 DEF ImgInv, Writing

\* The section behind the extent being written.
LEMMA WrittenScn ==
    ASSUME IndInv, PlacedInv, pc \in Writing, f.si \in DOMAIN ext, ext[f.si].kind = "SECTION"
    PROVE  /\ scn \in Seq(ScnRec) /\ ext[f.si].s \in DOMAIN scn /\ scn[ext[f.si].s] \in ScnRec
           /\ scn[ext[f.si].s].soff = ext[f.si].start
           /\ scn[ext[f.si].s].data \in Seq(DataRec)
<1>1. f.si <= Len(ext)
  BY LenProperties DEF IndInv, CallInv, CallType
<1>2. ext[f.si].s \in DOMAIN scn /\ scn[ext[f.si].s] \in ScnRec /\ scn \in Seq(ScnRec)
  BY <1>1, CurrentExtent DEF IndInv, ObjType
<1>3. scn[ext[f.si].s].soff = ext[f.si].start
  BY DEF PlacedInv
<1>4. scn[ext[f.si].s].data \in Seq(DataRec)
  BY <1>2 DEF ScnRec
<1> QED BY <1>2, <1>3, <1>4

\* Entering _libelf_write_scn: the gap before the section is filled.
LEMMA ImgWriteScnBegin ==
    ASSUME IndInv, PlacedInv, ImgInv, WriteScnBegin
    PROVE  ImgInv'
<1> DEFINE x == ext[f.si]
<1>1. pc = "write" /\ f.si <= Len(ext) /\ x.kind = "SECTION" /\ scn' = scn
  BY DEF WriteScnBegin, obj
<1>2. f.si \in DOMAIN ext
  BY <1>1, CurrentExtent
<1>3. CASE Abort("assert:falign")
  BY <1>3 DEF Abort, ImgInv, Writing
<1>4. CASE /\ img' = Filled(img, f.wrc, x.start) /\ f' = [f EXCEPT !.nrc = x.start, !.di = 1]
           /\ Continue(IF scn[x.s].data = <<>> THEN "wraw" ELSE "wscn") /\ UNCHANGED ext
  <2>1. /\ ext' = ext /\ pc' = IF scn[x.s].data = <<>> THEN "wraw" ELSE "wscn"
        /\ DOMAIN img' = DOMAIN img
        /\ \A k \in DOMAIN img : img'[k] = IF f.wrc <= k /\ k < x.start THEN <<"fill">> ELSE img[k]
    BY <1>4 DEF Continue, Filled
  <2>2. /\ x.start \in Nat /\ f.wrc \in Nat /\ f.wrc = Before(ext, f.si)
        /\ \A k \in DOMAIN img : k \in Nat /\ (k < f.wrc => Right(ext, scn, img[k], k))
        /\ f \in Frame /\ DOMAIN img = 0..f.rc - 1
    BY <1>1, <1>2, WriteFacts DEF Writing
  <2>3. Len(scn[x.s].data) \in Nat
    BY <1>1, <1>2, WrittenScn, LenProperties DEF Writing
  <2> HIDE DEF x
  <2>4. f'.wrc = f.wrc /\ f'.si = f.si /\ f'.rc = f.rc /\ f'.nrc = x.start /\ f'.di = 1
    BY <1>4, <2>2 DEF Frame
  <2>5. \A k \in DOMAIN img : k < f.wrc => img'[k] = img[k]
    BY <2>1, <2>2
  <2>6. \A k \in DOMAIN img : f.wrc <= k /\ k < x.start => img'[k] = <<"fill">>
    BY <2>1
  <2>7. x' = x
    BY <2>1, <2>4 DEF x
  <2>8. \A k \in DOMAIN img' : ~(x.start <= k /\ k < f'.nrc)
    BY <2>1, <2>2, <2>4
  <2>9. ScnWritten(x)'
    BY <1>1, <2>1, <2>2, <2>3, <2>4, <2>7, <2>8 DEF ScnWritten
  <2> QED BY <1>1, <2>1, <2>2, <2>4, <2>5, <2>6, <2>7, <2>9 DEF ImgInv, Writing, x
<1> QED BY <1>3, <1>4 DEF WriteScnBegin

\* A section that was never loaded is copied from the original file.
LEMMA ImgWriteRaw ==
    ASSUME IndInv, PlacedInv, ImgInv, WriteRaw
    PROVE  ImgInv'
<1> DEFINE x == ext[f.si]
           s == scn[x.s]
<1>1. /\ pc = "wraw" /\ scn' = scn /\ x.kind = "SECTION" /\ f.si \in DOMAIN ext
      /\ s.data = <<>> /\ f.nrc = x.start /\ f.di = 1
  BY DEF WriteRaw, obj, IndInv, CallInv, LoopInv, ImgInv
<1>2. CASE pc' = "idle"
  BY <1>2 DEF ImgInv, Writing
<1>3. CASE /\ img' = [k \in DOMAIN img |-> IF s.soff <= k /\ k < s.soff + s.size
                                           THEN <<"raw", s.rawoff + (k - s.soff)>> ELSE img[k]]
           /\ f' = [f EXCEPT !.nrc = s.soff + s.size]
           /\ Continue("wscn") /\ UNCHANGED ext
  <2>1. /\ x.start \in Nat /\ f.wrc \in Nat /\ f.wrc <= x.start
        /\ \A k \in DOMAIN img : k \in Nat
        /\ f \in Frame
    BY <1>1, WriteFacts DEF Writing
  <2>2. s.soff = x.start /\ s.size \in Nat /\ s.data = <<>>
    BY <1>1, WrittenScn DEF Writing, ScnRec
  <2>3. /\ ext' = ext /\ pc' = "wscn" /\ DOMAIN img' = DOMAIN img
        /\ f' = [f EXCEPT !.nrc = x.start + s.size]
        /\ \A k \in DOMAIN img : img'[k] = IF x.start <= k /\ k < x.start + s.size
                                           THEN <<"raw", s.rawoff + (k - x.start)>> ELSE img[k]
    BY <1>3, <2>2 DEF Continue
  <2> HIDE DEF s
  <2>4. /\ f'.wrc = f.wrc /\ f'.si = f.si /\ f'.rc = f.rc /\ f'.di = 1
        /\ f'.nrc = x.start + s.size
    BY <1>1, <2>1, <2>3 DEF Frame
  <2>5. x' = x /\ s' = s
    BY <1>1, <2>3, <2>4 DEF s
  <2> HIDE DEF x
  <2>6. f'.nrc >= x.start
    BY <2>1, <2>2, <2>4
  <2>7. \A k \in DOMAIN img : k < x.start => img'[k] = img[k]
    BY <2>1, <2>3
  <2>8. \A k \in DOMAIN img : k < f.wrc => img'[k] = img[k]
    BY <2>1, <2>7
  <2>9. \A k \in DOMAIN img : x.start <= k /\ k < f'.nrc => img'[k] = <<"raw", s.rawoff + (k - x.start)>>
    BY <2>3, <2>4
  <2>10. Len(s.data) \in Nat
    BY <2>2, EmptySeq
  <2>11. ScnWritten(x)'
    BY <1>1, <2>2, <2>3, <2>4, <2>5, <2>6, <2>9, <2>10 DEF ScnWritten, s
  <2> QED BY <1>1, <2>3, <2>4, <2>5, <2>7, <2>8, <2>11 DEF ImgInv, Writing, x
<1>4. /\ pc' = "idle" \/ Continue("wscn")
      /\ pc' # "idle" => /\ img' = [k \in DOMAIN img |-> IF s.soff <= k /\ k < s.soff + s.size
                                           THEN <<"raw", s.rawoff + (k - s.soff)>> ELSE img[k]]
                         /\ f' = [f EXCEPT !.nrc = s.soff + s.size]
                         /\ Continue("wscn") /\ UNCHANGED ext
  BY DEF WriteRaw, Fail, Return, Continue, Copied, RawByte
<1> QED BY <1>2, <1>3, <1>4

\* A descriptor is written.
LEMMA ImgWriteData ==
    ASSUME IndInv, PlacedInv, ImgInv, WriteData
    PROVE  ImgInv'
<1> DEFINE x == ext[f.si]
           s == scn[x.s]
           d == s.data[f.di]
           at == s.soff + d.off
<1>1. /\ pc = "wscn" /\ scn' = scn /\ x.kind = "SECTION" /\ f.si \in DOMAIN ext
      /\ ScnWritten(x) /\ f.di <= Len(s.data)
  BY DEF WriteData, obj, IndInv, CallInv, LoopInv, ImgInv
<1>2. CASE Abort("assert:d_buf")
  BY <1>2 DEF Abort, ImgInv, Writing
<1>3. CASE /\ img' = [k \in DOMAIN img |-> IF at <= k /\ k < at + d.size
                                           THEN DataByte(x.s, f.di, d, k - at)
                                           ELSE IF f.nrc <= k /\ k < at THEN <<"fill">> ELSE img[k]]
           /\ f' = [f EXCEPT !.nrc = at + d.size, !.di = @ + 1]
           /\ Continue("wscn") /\ UNCHANGED ext
  <2>1. /\ x.start \in Nat /\ f.wrc \in Nat /\ f.wrc <= x.start /\ f.nrc \in Nat /\ f.di \in Nat \ {0}
        /\ \A k \in DOMAIN img : k \in Nat
        /\ f \in Frame
    BY <1>1, WriteFacts DEF Writing
  <2>2. s.soff = x.start /\ s.data \in Seq(DataRec) /\ scn \in Seq(ScnRec) /\ x.s \in DOMAIN scn
    BY <1>1, WrittenScn DEF Writing
  <2>3. f.di \in DOMAIN s.data /\ Len(s.data) \in Nat /\ s.data # <<>> /\ DOMAIN s.data = 1..Len(s.data)
    BY <1>1, <2>1, <2>2, EmptySeq, LenProperties
  <2>4. d.off \in Nat /\ d.size \in Nat
    <3>1. d \in DataRec
      BY <2>2, <2>3, ElementOfSeq
    <3> HIDE DEF d
    <3> QED BY <3>1 DEF DataRec
  <2>5. /\ f.nrc >= x.start
        /\ f.di = 1 => f.nrc = x.start
        /\ f.di > 1 => f.nrc = x.start + Ends(scn, x.s, f.di - 1)
        /\ \A k \in DOMAIN img : x.start <= k /\ k < f.nrc =>
              PartByte(scn, x.s, img[k], k - x.start, f.di - 1)
    BY <1>1, <2>3 DEF ScnWritten
  <2>6. /\ ext' = ext /\ pc' = "wscn" /\ DOMAIN img' = DOMAIN img
        /\ \A k \in DOMAIN img :
             img'[k] = IF at <= k /\ k < at + d.size THEN DataByte(x.s, f.di, d, k - at)
                       ELSE IF f.nrc <= k /\ k < at THEN <<"fill">> ELSE img[k]
    BY <1>3 DEF Continue
  <2>7. at \in Nat /\ at >= x.start /\ at + d.size \in Nat /\ at = x.start + d.off
    <3> DEFINE o == d.off
               z == d.size
               c == s.soff
    <3>1. o \in Nat /\ z \in Nat /\ c = x.start
      BY <2>2, <2>4
    <3> HIDE DEF o, z, c
    <3>2. /\ c + o \in Nat /\ c + o >= x.start /\ c + o + z \in Nat /\ c + o = x.start + o
      BY <2>1, <3>1
    <3> QED BY <3>2 DEF o, z, c
  <2>8. Ends(scn, x.s, f.di) = d.off + d.size /\ d = scn[x.s].data[f.di]
    BY DEF Ends
  <2> HIDE DEF d, at
  <2>9. /\ f'.wrc = f.wrc /\ f'.si = f.si /\ f'.rc = f.rc /\ f'.di = f.di + 1
        /\ f'.nrc = at + d.size
    BY <1>3, <2>1, <2>7 DEF Frame
  <2>10. x' = x /\ s' = s
    BY <1>1, <2>6, <2>9
  <2>11. \A k \in DOMAIN img : k < x.start => img'[k] = img[k]
    BY <2>1, <2>5, <2>6, <2>7
  <2>12. \A k \in DOMAIN img : k < f.wrc => img'[k] = img[k]
    BY <2>1, <2>11
  <2>13. ASSUME NEW k \in DOMAIN img, x.start <= k, k < f'.nrc
         PROVE  PartByte(scn, x.s, img'[k], k - x.start, f.di)
    <3> DEFINE h == k - x.start
               m == f.nrc - x.start
               E == Ends(scn, x.s, f.di - 1)
    <3>1. k \in Nat /\ h \in Nat /\ m \in Nat
      BY <2>1, <2>5, <2>13
    <3>2. h < Ends(scn, x.s, f.di)
      <4>1. k < x.start + d.off + d.size /\ d.off \in Nat /\ d.size \in Nat
        BY <2>4, <2>7, <2>9, <2>13
      <4>2. h < d.off + d.size
        BY <2>1, <3>1, <4>1
      <4> QED BY <2>8, <4>2
    <3>3. f.di = 1 => m = 0
      BY <2>1, <2>5
    <3>4. f.di > 1 => m = Ends(scn, x.s, f.di - 1)
      <4>1. f.di > 1 => f.nrc = x.start + E
        BY <2>5
      <4>2. f.di > 1 => E \in Nat
        <5> SUFFICES ASSUME f.di > 1 PROVE E \in Nat
          OBVIOUS
        <5>1. f.di - 1 \in DOMAIN s.data
          BY <2>1, <2>3, SMTT(60)
        <5>2. s.data[f.di - 1] \in DataRec
          BY <2>2, <5>1, ElementOfSeq, LenProperties
        <5>3. s.data[f.di - 1].off \in Nat /\ s.data[f.di - 1].size \in Nat
          BY <5>2 DEF DataRec
        <5>4. \A a, b \in Nat : a + b \in Nat
          OBVIOUS
        <5>5. E = s.data[f.di - 1].off + s.data[f.di - 1].size
          BY DEF Ends
        <5> HIDE DEF E
        <5> QED BY <5>3, <5>4, <5>5
      <4> HIDE DEF E
      <4>3. f.di > 1 => m = E
        BY <2>1, <4>1, <4>2
      <4> QED BY <4>3 DEF E
    <3>5. h < m => PartByte(scn, x.s, img[k], h, f.di - 1)
      BY <2>1, <2>5, <2>13, <3>1
    <3>6. k - at = h - d.off /\ (at <= k <=> d.off <= h) /\ (f.nrc <= k <=> m <= h) /\ k < at + d.size
      BY <2>1, <2>4, <2>7, <2>9, <2>13, <3>1
    <3>7. img'[k] = IF d.off <= h THEN DataByte(x.s, f.di, d, h - d.off)
                    ELSE IF m <= h THEN <<"fill">> ELSE img[k]
      BY <2>4, <2>6, <2>7, <3>1, <3>6
    <3> HIDE DEF h, m, E
    <3>8. img'[k] = IF scn[x.s].data[f.di].off <= h
                    THEN DataByte(x.s, f.di, scn[x.s].data[f.di], h - scn[x.s].data[f.di].off)
                    ELSE IF m <= h THEN <<"fill">> ELSE img[k]
      BY <2>8, <3>7
    <3> HIDE DEF x
    <3>9. PartByte(scn, x.s, img'[k], h, f.di)
      <4> DEFINE b2 == img'[k]
      <4> HIDE DEF b2
      <4> QED BY <2>2, <2>3, <2>13, <3>1, <3>2, <3>3, <3>4, <3>5, <3>8, OneMoreDescriptor DEF b2
    <3> QED BY <3>9 DEF h
  <2>14. f'.nrc >= x.start /\ f'.di <= Len(s.data) + 1 /\ f'.di > 1 /\ f'.di - 1 = f.di /\ f'.di # 1
    <3>1. at + d.size >= x.start
      BY <2>1, <2>4, <2>7
    <3>2. /\ f.di + 1 <= Len(s.data) + 1 /\ f.di + 1 > 1 /\ (f.di + 1) - 1 = f.di
          /\ f.di + 1 # 1
      BY <1>1, <2>1, <2>3
    <3> QED BY <2>9, <3>1, <3>2
  <2>15. f'.nrc = x.start + Ends(scn, x.s, f.di)
    <3>1. at + d.size = x.start + (d.off + d.size)
      BY <2>1, <2>4, <2>7
    <3> QED BY <2>8, <2>9, <3>1
  <2> HIDE DEF x
  <2>16. ScnWritten(x)'
    BY <1>1, <2>3, <2>6, <2>10, <2>13, <2>14, <2>15 DEF ScnWritten
  <2> QED BY <1>1, <2>6, <2>9, <2>10, <2>11, <2>12, <2>16 DEF ImgInv, Writing, x
<1> QED BY <1>2, <1>3 DEF WriteData, Copied, Filled

\* A section is complete.
LEMMA ImgWriteScnEnd ==
    ASSUME IndInv, PlacedInv, ImgInv, WriteScnEnd
    PROVE  ImgInv'
<1> DEFINE x == ext[f.si]
           s == scn[x.s]
<1>1. /\ pc = "wscn" /\ scn' = scn /\ x.kind = "SECTION" /\ f.si \in DOMAIN ext
      /\ ScnWritten(x) /\ f.di > Len(s.data)
  BY DEF WriteScnEnd, obj, IndInv, CallInv, LoopInv, ImgInv
<1>2. CASE Abort("assert:extent")
  BY <1>2 DEF Abort, ImgInv, Writing
<1>3. CASE /\ f.nrc = End(x) /\ f' = [f EXCEPT !.wrc = f.nrc, !.si = @ + 1]
           /\ Continue("write") /\ UNCHANGED <<ext, img>>
  <2>1. /\ x.start \in Nat /\ End(x) \in Nat /\ f.wrc \in Nat /\ f.wrc = Before(ext, f.si)
        /\ f.si \in Nat /\ f.di \in Nat
        /\ \A k \in DOMAIN img : k \in Nat /\ (k < f.wrc => Right(ext, scn, img[k], k))
        /\ f \in Frame /\ DOMAIN img = 0..f.rc - 1 /\ Before(ext, f.si + 1) = End(x)
    BY <1>1, WriteFacts DEF Writing
  <2>2. Len(s.data) \in Nat
    BY <1>1, WrittenScn, LenProperties DEF Writing
  <2>3. f.di - 1 = Len(s.data)
    <3> DEFINE n == Len(s.data)
               di == f.di
    <3>1. di <= n + 1 /\ di > n /\ di \in Nat /\ n \in Nat
      BY <1>1, <2>1, <2>2 DEF ScnWritten
    <3> HIDE DEF n, di
    <3>2. di - 1 = n
      BY <3>1
    <3> QED BY <3>2 DEF n, di
  <2>4. ASSUME NEW k \in DOMAIN img, k < End(x) PROVE Right(ext, scn, img[k], k)
    <3>1. k \in Nat /\ (k < f.wrc => Right(ext, scn, img[k], k))
      BY <2>1
    <3>2. f.wrc <= k /\ k < x.start => img[k] = <<"fill">>
      BY <1>1 DEF ImgInv
    <3>3. x.start <= k => RightIn(x, scn, img[k], k)
      <4> SUFFICES ASSUME x.start <= k PROVE WholeByte(scn, x.s, img[k], k - x.start)
        BY <1>1 DEF RightIn
      <4>1. k < f.nrc
        BY <1>3, <2>4
      <4> QED BY <1>1, <2>3, <4>1 DEF ScnWritten, WholeByte
    <3> HIDE DEF x
    <3> QED BY <1>1, <2>1, <2>4, <3>1, <3>2, <3>3, WriteFacts, OneMoreRight DEF Writing, x
  <2>5. f'.wrc = End(x) /\ f'.si = f.si + 1 /\ f'.rc = f.rc
    BY <1>3, <2>1 DEF Frame
  <2>6. ext' = ext /\ img' = img /\ pc' = "write"
    BY <1>3 DEF Continue
  <2> HIDE DEF x
  <2> QED BY <1>1, <2>1, <2>4, <2>5, <2>6 DEF ImgInv, Writing
<1> QED BY <1>2, <1>3 DEF WriteScnEnd

\* Outside _libelf_write_elf nothing is said of the image; its first extent is
\* written into a buffer of the size of the object.
LEMMA ImgResync ==
    ASSUME IndInv, ResyncStep
    PROVE  ImgInv'
<1>1. CASE pc' \notin Writing \cup {"written"}
  BY <1>1 DEF ImgInv, Writing
<1>2. CASE /\ f' = [f EXCEPT !.si = 1, !.wrc = 0] /\ img' = [k \in 0..f.rc - 1 |-> <<"junk">>]
           /\ pc' = "write"
  <2>1. f \in Frame /\ f.rc \in Nat
    BY DEF IndInv, CallInv, CallType, Frame
  <2>2. f'.si = 1 /\ f'.wrc = 0 /\ f'.rc = f.rc
    BY <1>2, <2>1 DEF Frame
  <2>3. DOMAIN img' = 0..f.rc - 1 /\ \A k \in 0..f.rc - 1 : ~(k < 0)
    BY <1>2, <2>1
  <2> QED BY <1>2, <2>2, <2>3 DEF ImgInv, Writing, Before
<1>3. ResyncStep /\ ~AfterResync => pc' \notin Writing \cup {"written"}
  <2> USE DEF Continue, Fail, Return, RefuseExtent, PlaceScn, Writing
  <2>1. ResyncEhdr => pc' \notin Writing \cup {"written"}
    BY DEF ResyncEhdr
  <2>2. ResyncPhdr => pc' \notin Writing \cup {"written"}
    BY DEF ResyncPhdr
  <2>3. ResyncScnSkip \/ ResyncScnClean => pc' \notin Writing \cup {"written"}
    BY DEF ResyncScnSkip, ResyncScnClean
  <2>4. ResyncScnBegin \/ ResyncScnError => pc' \notin Writing \cup {"written"}
    BY DEF ResyncScnBegin, ResyncScnError
  <2>5. ResyncData \/ ResyncScnEnd => pc' \notin Writing \cup {"written"}
    BY DEF ResyncData, ResyncScnEnd
  <2>6. ResyncShdr => pc' \notin Writing \cup {"written"}
    BY DEF ResyncShdr
  <2> QED BY <2>1, <2>2, <2>3, <2>4, <2>5, <2>6 DEF ResyncStep
<1> QED BY <1>1, <1>2, <1>3 DEF AfterResync, Continue, Fail, Return, Writing

\* The buffer is filled from its start to its end.
LEMMA ImgKept == IndInv /\ PlacedInv /\ ImgInv /\ [Next]_vars => ImgInv'
<1> SUFFICES ASSUME IndInv, PlacedInv, ImgInv, [Next]_vars PROVE ImgInv'
  OBVIOUS
<1>1. CASE AppNext
  <2>1. pc' = "idle"
    BY <1>1 DEF AppNext, AppStep, FlagLayout, FdDone, NewPhdr, SetEhdr,
       NewScn, SetShdr, FlagScn, GetData, NewData, SetData
  <2> QED BY <2>1 DEF ImgInv, Writing
<1>2. ASSUME NEW c \in {"NULL", "WRITE"}, BeginUpdate(c) PROVE ImgInv'
  <2>1. pc' \in {"idle", "ehdr"}
    BY <1>2 DEF BeginUpdate
  <2> QED BY <2>1 DEF ImgInv, Writing
<1>3. CASE ResyncStep
  BY <1>3, ImgResync
<1>4. CASE Commit
  BY <1>4 DEF Commit, Abort, ImgInv, Writing, obj
<1>5. CASE WriteStep /\ ~Commit
  BY <1>5, ImgWriteTable, ImgWriteScnBegin, ImgWriteRaw, ImgWriteData, ImgWriteScnEnd
     DEF WriteStep
<1>6. CASE UNCHANGED vars
  BY <1>6 DEF vars, obj, ImgInv, ScnWritten
<1> QED BY <1>1, <1>2, <1>3, <1>4, <1>5, <1>6 DEF Next

\* Sections keep their places.
LEMMA PlacedNext == IndInv /\ IndInv' /\ PlacedInv /\ [Next]_vars => PlacedInv'
<1> SUFFICES ASSUME IndInv, IndInv', PlacedInv, [Next]_vars PROVE PlacedInv'
  OBVIOUS
<1>0. f' \in Frame
  BY DEF IndInv, CallInv, CallType
<1>1. CASE AppNext
  <2>1. pc = "idle" /\ ext' = ext
    BY <1>1 DEF AppNext, AppStep, FlagLayout, FdDone, NewPhdr, SetEhdr,
       NewScn, SetShdr, FlagScn, GetData, NewData, SetData
  <2> QED BY <2>1, PlacedReleased DEF IndInv, CallInv, LoopInv
<1>2. ASSUME NEW c \in {"NULL", "WRITE"}, BeginUpdate(c) PROVE PlacedInv'
  BY <1>2, PlacedReleased DEF BeginUpdate, IndInv, CallInv, LoopInv
<1>3. CASE ResyncStep
  BY <1>3, PlacedResync
<1>4. CASE WriteStep
  <2>1. ext' = <<>> \/ (ext' = ext /\ scn' = scn /\ pc' \notin Laying)
    BY <1>4 DEF WriteStep, WriteTable, WriteScnBegin, WriteRaw, WriteData, WriteScnEnd, Commit,
       Continue, Abort, Fail, Return, Laying, obj
  <2> QED BY <1>0, <2>1, PlacedKept, PlacedReleased
<1>5. CASE UNCHANGED vars
  BY <1>5 DEF vars, obj, PlacedInv
<1> QED BY <1>1, <1>2, <1>3, <1>4, <1>5 DEF Next

\* What is known of the buffer holds at every step.
LEMMA ImageInvariant == Spec => [](PlacedInv /\ ImgInv)
<1>1. Init => PlacedInv /\ ImgInv
  <2> SUFFICES ASSUME Init PROVE PlacedInv /\ ImgInv
    OBVIOUS
  <2>1. pc = "idle" /\ DOMAIN ext = {}
    BY EmptySeq, LenProperties DEF Init
  <2> QED BY <2>1 DEF PlacedInv, ImgInv, Writing
<1> QED BY <1>1, Invariant, PlacedNext, ImgKept, PTL DEF Spec

\* A byte that is right by the descriptors of its section is the section's, unless
\* a fill erased it.
LEMMA WholeIsScnByte ==
    ASSUME NEW i \in DOMAIN scn, NEW k \in Nat, NEW b, scn \in Seq(ScnRec),
           WholeByte(scn, i, b, k)
    PROVE  b = IF Erased(i, k) THEN <<"fill">> ELSE ScnByte(i, k)
<1> DEFINE s == scn[i]
           cover == {j \in DOMAIN s.data : s.data[j].off <= k /\ k < s.data[j].off + s.data[j].size}
<1>1. s \in ScnRec
  BY ElementOfSeq, LenProperties
<1>2. s.data \in Seq(DataRec)
  BY <1>1 DEF ScnRec
<1>3. DOMAIN s.data = 1..Len(s.data) /\ Len(s.data) \in Nat
  BY <1>2, LenProperties
<1>4. CASE s.data = <<>>
  <2>1. DOMAIN s.data = {}
    BY <1>4
  <2>2. ~Erased(i, k)
    BY <2>1 DEF Erased
  <2> QED BY <1>4, <2>2 DEF WholeByte, ScnByte
<1>5. CASE s.data # <<>>
  <2>1. Erased(i, k) <=> \E h \in DOMAIN s.data :
                           /\ GapAt(scn, i, h, k)
                           /\ \A j \in h..Len(s.data) : ~Covers(scn, i, j, k)
    BY DEF Erased, GapAt, Covers, Ends
  <2>2. PartByte(scn, i, b, k, Len(s.data))
    BY <1>5 DEF WholeByte
  <2>3. \A j \in DOMAIN s.data : j \in cover <=> Covers(scn, i, j, k)
    BY DEF Covers, Ends
  <2>4. CASE /\ b = <<"fill">>
             /\ \E h \in 1..Len(s.data) :
                  GapAt(scn, i, h, k) /\ \A j \in h..Len(s.data) : ~Covers(scn, i, j, k)
    BY <1>3, <2>1, <2>4
  <2>5. ASSUME NEW j \in 1..Len(s.data), Covers(scn, i, j, k),
               b = DataByte(i, j, s.data[j], k - s.data[j].off),
               \A h \in j + 1..Len(s.data) : ~Covers(scn, i, h, k) /\ ~GapAt(scn, i, h, k)
        PROVE  b = ScnByte(i, k) /\ ~Erased(i, k)
    <3>1. j \in cover
      BY <1>3, <2>3, <2>5
    <3>2. \A h \in cover : h <= j
      <4> SUFFICES ASSUME NEW h \in cover, ~(h <= j) PROVE FALSE
        OBVIOUS
      <4>1. h \in DOMAIN s.data /\ Covers(scn, i, h, k)
        BY <2>3
      <4>2. h \in j + 1..Len(s.data)
        BY <1>3, <2>5, <4>1
      <4> QED BY <2>5, <4>1, <4>2
    <3>3. \A c \in cover : (\A h \in cover : h <= c) => c = j
      <4> SUFFICES ASSUME NEW c \in cover, \A h \in cover : h <= c PROVE c = j
        OBVIOUS
      <4>1. c <= j /\ j <= c /\ c \in Nat /\ j \in Nat
        BY <1>3, <3>1, <3>2
      <4> QED BY <4>1
    <3> DEFINE last == CHOOSE c \in cover : \A h \in cover : h <= c
    <3>4. last = j
      <4> HIDE DEF cover
      <4>1. last \in cover /\ \A h \in cover : h <= last
        BY <3>1, <3>2
      <4> HIDE DEF last
      <4> QED BY <3>3, <4>1
    <3>5. cover # {}
      BY <3>1
    <3>6. ScnByte(i, k) = IF s.data = <<>> THEN <<"raw", s.rawoff + k>>
                          ELSE IF cover = {} THEN <<"fill">>
                          ELSE DataByte(i, last, s.data[last], k - s.data[last].off)
      BY DEF ScnByte
    <3>7. ~Erased(i, k)
      <4> SUFFICES ASSUME NEW h \in DOMAIN s.data, GapAt(scn, i, h, k),
                          \A g \in h..Len(s.data) : ~Covers(scn, i, g, k)
                   PROVE  FALSE
        BY <2>1
      <4>1. ~(j \in h..Len(s.data))
        BY <2>5
      <4>2. h \in j + 1..Len(s.data)
        BY <1>3, <2>5, <4>1
      <4> QED BY <2>5, <4>2
    <3> HIDE DEF cover, last
    <3> QED BY <1>5, <2>5, <3>4, <3>5, <3>6, <3>7
  <2> QED BY <1>3, <2>2, <2>4, <2>5 DEF PartByte
<1> QED BY <1>4, <1>5

\* The image elf_update writes holds every table and every section at its place,
\* and the fill value everywhere else: whatever the object, the layout and the calls
\* before, no byte of the buffer is left as malloc gave it, of the descriptors that
\* hold a byte the last one listed decides, and a byte gives way to the fill exactly
\* when a descriptor listed later leaves a gap over it.
THEOREM ImageAlwaysRight == Spec => []ImageRight
<1>2. IndInv /\ ImgInv => ImageRight
  <2> SUFFICES ASSUME IndInv, ImgInv, pc = "written", NEW k \in DOMAIN img
               PROVE  LET in == {x \in ToSet(ext) : x.start <= k /\ k < End(x)}
                          x == CHOOSE x \in in : TRUE
                      IN  IF in = {} THEN img[k] = <<"fill">>
                          ELSE IF x.kind # "SECTION" THEN img[k] = <<x.kind, k - x.start>>
                          ELSE img[k] = IF Erased(x.s, k - x.start) THEN <<"fill">>
                                        ELSE ScnByte(x.s, k - x.start)
    BY DEF ImageRight
  <2> DEFINE in == {x \in ToSet(ext) : x.start <= k /\ k < End(x)}
             x == CHOOSE x \in in : TRUE
  <2>1. f.wrc = f.rc /\ f.rc \in Nat /\ k \in 0..f.rc - 1
    BY DEF ImgInv, IndInv, CallInv, CallType, Frame
  <2>2. Right(ext, scn, img[k], k)
    BY <2>1 DEF ImgInv
  <2>3. \A h \in DOMAIN ext : Holds(ext[h], k) <=> ext[h] \in in
    BY DEF Holds, ToSet
  <2>4. CASE in = {}
    BY <2>2, <2>3, <2>4 DEF Right
  <2>5. CASE in # {}
    <3>1. x \in in
      BY <2>5
    <3> HIDE DEF x
    <3>2. PICK h \in DOMAIN ext : ext[h] = x
      BY <3>1 DEF ToSet
    <3>3. RightIn(x, scn, img[k], k)
      BY <2>2, <2>3, <3>1, <3>2 DEF Right
    <3>4. ext[h] \in ExtRec
      BY ElementOfSeq, LenProperties DEF IndInv, CallInv, CallType
    <3>5. x.start \in Nat /\ x.start <= k
      BY <3>1, <3>2, <3>4 DEF ExtRec
    <3>6. k - x.start \in Nat
      BY <2>1, <3>5
    <3>7. x.kind = "SECTION" => x.s \in DOMAIN scn
      BY <3>2 DEF IndInv, CallInv, LoopInv
    <3>8. x.kind = "SECTION" => img[k] = IF Erased(x.s, k - x.start) THEN <<"fill">>
                                         ELSE ScnByte(x.s, k - x.start)
      BY <3>3, <3>6, <3>7, WholeIsScnByte DEF RightIn, IndInv, ObjType
    <3>9. x.kind # "SECTION" => img[k] = <<x.kind, k - x.start>>
      BY <3>3 DEF RightIn
    <3> HIDE DEF in
    <3> QED BY <2>5, <3>8, <3>9 DEF x, in
  <2> QED BY <2>4, <2>5
<1> QED BY <1>2, ImageInvariant, Invariant, PTL

\* A gap before a descriptor holds nothing of those listed before it when all of
\* them end in their order.
LEMMA OrderedKeeps ==
    ASSUME NEW i \in DOMAIN scn, NEW k \in Nat, scn \in Seq(ScnRec), InOrder(i), Erased(i, k)
    PROVE  ScnByte(i, k) = <<"fill">>
<1> DEFINE s == scn[i]
           n == Len(s.data)
<1>1. s.data \in Seq(DataRec)
  <2>1. s \in ScnRec
    BY ElementOfSeq, LenProperties
  <2> QED BY <2>1 DEF ScnRec
<1>2. DOMAIN s.data = 1..n /\ n \in Nat
  BY <1>1, LenProperties
<1>3. \A j \in DOMAIN s.data : Ends(scn, i, j) \in Nat
  <2> SUFFICES ASSUME NEW j \in DOMAIN s.data PROVE Ends(scn, i, j) \in Nat
    OBVIOUS
  <2>1. s.data[j] \in DataRec
    BY <1>1, ElementOfSeq, LenProperties
  <2>2. s.data[j].off \in Nat /\ s.data[j].size \in Nat
    BY <2>1 DEF DataRec
  <2> QED BY <2>2 DEF Ends
<1>4. PICK h \in DOMAIN s.data :
           GapAt(scn, i, h, k) /\ \A j \in h..n : ~Covers(scn, i, j, k)
  BY DEF Erased, GapAt, Covers, Ends
<1>5. \A j, g \in DOMAIN s.data : j < g => Ends(scn, i, j) <= Ends(scn, i, g)
  BY DEF InOrder, Ends
<1> HIDE DEF n
<1>6. ASSUME NEW j \in DOMAIN s.data PROVE ~Covers(scn, i, j, k)
  <2>1. CASE j \in h..n
    BY <1>4, <2>1
  <2>2. CASE j \notin h..n
    <3>1. j < h /\ h # 1 /\ h - 1 \in DOMAIN s.data
      BY <1>2, <1>4, <2>2
    <3>2. Ends(scn, i, j) <= Ends(scn, i, h - 1)
      <4>1. CASE j = h - 1
        BY <1>3, <3>1, <4>1
      <4>2. CASE j # h - 1
        <5>1. j < h - 1
          BY <1>2, <3>1, <4>2
        <5> QED BY <1>5, <3>1, <5>1
      <4> QED BY <4>1, <4>2
    <3>3. Ends(scn, i, h - 1) <= k
      BY <1>4, <3>1 DEF GapAt
    <3>4. ~(k < Ends(scn, i, j))
      BY <1>3, <3>1, <3>2, <3>3
    <3> QED BY <3>4 DEF Covers
  <2> QED BY <2>1, <2>2
<1>7. {j \in DOMAIN s.data : s.data[j].off <= k /\ k < s.data[j].off + s.data[j].size} = {}
  BY <1>6 DEF Covers, Ends
<1>8. s.data # <<>>
  BY <1>4
<1> QED BY <1>7, <1>8 DEF ScnByte

\* A section whose descriptors end in the order they are listed in loses nothing to
\* the fill: every byte of it is the one of the last descriptor that holds it.
THEOREM OrderedAlwaysPlaced == Spec => []OrderedPlaced
<1>1. IndInv /\ ImgInv => OrderedPlaced
  <2> SUFFICES ASSUME IndInv, ImgInv, pc = "written", NEW x \in ToSet(ext),
                      x.kind = "SECTION", InOrder(x.s), NEW k \in DOMAIN img,
                      x.start <= k, k < End(x)
               PROVE  img[k] = ScnByte(x.s, k - x.start)
    BY DEF OrderedPlaced
  <2>1. f.wrc = f.rc /\ f.rc \in Nat /\ k \in 0..f.rc - 1
    BY DEF ImgInv, IndInv, CallInv, CallType, Frame
  <2>2. Right(ext, scn, img[k], k)
    BY <2>1 DEF ImgInv
  <2>3. PICK h \in DOMAIN ext : ext[h] = x
    BY DEF ToSet
  <2>4. WholeByte(scn, x.s, img[k], k - x.start)
    BY <2>2, <2>3 DEF Right, Holds, RightIn
  <2>5. x \in ExtRec
    BY <2>3, ElementOfSeq, LenProperties DEF IndInv, CallInv, CallType
  <2>6. x.start \in Nat
    BY <2>5 DEF ExtRec
  <2>7. k - x.start \in Nat
    BY <2>1, <2>6
  <2>8. x.s \in DOMAIN scn /\ scn \in Seq(ScnRec)
    BY <2>3 DEF IndInv, CallInv, LoopInv, ObjType
  <2> QED BY <2>4, <2>7, <2>8, WholeIsScnByte, OrderedKeeps
<1> QED BY <1>1, ImageInvariant, Invariant, PTL

----------------------------------------------------------------------------
(* Laying out twice. *)

\* r is the largest of the numbers in S.
Greatest(r, S) == r \in S /\ \A e \in S : e <= r

Occupies(s) == s.type \in DOMAIN FAlign /\ s.size > 0

\* Where the first m sections of t that are in the file end, and the first m
\* descriptors d of a section.
ScnEnds(t, m) == {t[k].off + t[k].size : k \in {h \in DOMAIN t : h <= m /\ Occupies(t[h])}}

DataEnds(d, m) == {d[j].off + d[j].size : j \in {h \in DOMAIN d : h <= m}}

DataAligns(d, m) == {d[j].align : j \in {h \in DOMAIN d : h <= m}}

\* What the running size is the greatest of: in the object, whose headers end at h,
\* after m sections; in a section, after m descriptors.
Reached(h, t, m) == {h} \cup ScnEnds(t, m)

Filling(d, m) == {0} \cup DataEnds(d, m)

HeadEnd == IF phnum > 0 THEN PhOff + PhentSize * phnum ELSE EhdrSize

\* The size of the object when its headers and sections end at r.
Total(r) ==
    Bigger(r, (IF scn = <<>> THEN 0 ELSE IF layout THEN eh.shoff ELSE roundup(r, ShdrAlign))
              + ShentSize * Len(scn))

\* Offset o is where alignment a allows it behind what ends in E.
Behind(o, a, E) == \E r \in E : Greatest(r, E) /\ o = roundup(r, a)

\* A descriptor, and a section of an object opened with c, are where the library
\* would place them again.
DataSettled(d, j) == Behind(d[j].off, d[j].align, Filling(d, j - 1))

Sized(s, c) ==
    /\ s.data = <<>> => c = "WRITE"
    /\ Greatest(s.size, Filling(s.data, Len(s.data)))
    /\ \A j \in DOMAIN s.data : s.data[j].align <= s.align /\ DataSettled(s.data, j)

Settled(s, c, E) ==
    s.type \in DOMAIN FAlign =>
      /\ s.align # 0
      /\ Behind(s.off, s.align, E)
      /\ s.data # <<>> \/ s.dirty => Sized(s, c)

AllSettled(h, t, c, m) ==
    \A k \in DOMAIN t : k <= m => Settled(t[k], c, Reached(h, t, k - 1))

\* n is the size of the object as it is, and the library would not move anything.
FixedAt(n) ==
    /\ \E r \in Reached(HeadEnd, scn, Len(scn)) :
         Greatest(r, Reached(HeadEnd, scn, Len(scn))) /\ n = Total(r)
    /\ ~layout => AllSettled(HeadEnd, scn, cmd, Len(scn))

\* The section being sized, after f.di - 1 descriptors.
Sizing ==
    LET s == scn[f.si]
    IN  /\ s.data # <<>> \/ s.dirty
        /\ s.data = <<>> => cmd = "WRITE"
        /\ Greatest(f.ssz, Filling(s.data, f.di - 1))
        /\ Greatest(f.sal, {0} \cup DataAligns(s.data, f.di - 1))
        /\ ~layout => \A j \in DOMAIN s.data : j < f.di => DataSettled(s.data, j)

StableInv ==
    /\ pc \in {"ehdr", "phdr"} => f.si = 1
    /\ pc = "phdr" => phnum > 0
    /\ pc \in {"scn", "data"} =>
         /\ Greatest(f.rc, Reached(HeadEnd, scn, f.si - 1))
         /\ ~layout => AllSettled(HeadEnd, scn, cmd, f.si - 1)
    /\ pc = "data" => Sizing
    /\ pc = "resynced" => FixedAt(f.rc)
    /\ prev # -1 => FixedAt(prev)

\* Only one number is the greatest of a set.
LEMMA GreatestUnique ==
    ASSUME NEW S, S \subseteq Nat, NEW a, NEW b, Greatest(a, S), Greatest(b, S)
    PROVE  a = b
<1>1. a \in Nat /\ b \in Nat /\ a <= b /\ b <= a
  BY DEF Greatest
<1> QED BY <1>1

\* The greatest when one number is added.
LEMMA GreatestAdded ==
    ASSUME NEW S, S \subseteq Nat, NEW a, Greatest(a, S), NEW e \in Nat
    PROVE  Greatest(Bigger(a, e), S \cup {e})
<1>1. a \in Nat /\ a \in S /\ \A x \in S : x <= a /\ x \in Nat
  BY DEF Greatest
<1>2. CASE a > e
  BY <1>1, <1>2 DEF Bigger, Greatest
<1>3. CASE ~(a > e)
  <2>1. Bigger(a, e) = e
    BY <1>3 DEF Bigger
  <2>2. \A x \in S : x <= e
    BY <1>1, <1>3
  <2> QED BY <2>1, <2>2 DEF Greatest
<1> QED BY <1>2, <1>3

\* A number placed behind what ends in S again comes to the same place.
LEMMA BehindUnique ==
    ASSUME NEW S, S \subseteq Nat, NEW r, Greatest(r, S), NEW o, NEW a, Behind(o, a, S)
    PROVE  o = roundup(r, a)
<1>1. PICK q \in S : Greatest(q, S) /\ o = roundup(q, a)
  BY DEF Behind
<1>2. q = r
  BY <1>1, GreatestUnique
<1> QED BY <1>1, <1>2

\* The ends of sections are natural numbers.
LEMMA ReachedNat ==
    ASSUME NEW h \in Nat, NEW t \in Seq(ScnRec), NEW m
    PROVE  Reached(h, t, m) \subseteq Nat
<1>1. ASSUME NEW k \in DOMAIN t PROVE t[k].off + t[k].size \in Nat
  <2>1. t[k] \in ScnRec
    BY ElementOfSeq, LenProperties
  <2>2. t[k].off \in Nat /\ t[k].size \in Nat
    BY <2>1 DEF ScnRec
  <2> QED BY <2>2
<1> QED BY <1>1 DEF Reached, ScnEnds

\* The ends and the alignments of descriptors are natural numbers.
LEMMA FillingNat ==
    ASSUME NEW d \in Seq(DataRec), NEW m
    PROVE  Filling(d, m) \subseteq Nat /\ DataAligns(d, m) \subseteq Nat
<1>1. ASSUME NEW j \in DOMAIN d PROVE d[j].off + d[j].size \in Nat /\ d[j].align \in Nat
  <2>1. d[j] \in DataRec
    BY ElementOfSeq, LenProperties
  <2>2. d[j].off \in Nat /\ d[j].size \in Nat /\ d[j].align \in Nat
    BY <2>1 DEF DataRec
  <2> QED BY <2>2
<1> QED BY <1>1 DEF Filling, DataEnds, DataAligns

\* One more section.
LEMMA ReachedNext ==
    ASSUME NEW h, NEW t \in Seq(ScnRec), NEW n \in Nat \ {0}
    PROVE  Reached(h, t, n) = IF n \in DOMAIN t /\ Occupies(t[n])
                              THEN Reached(h, t, n - 1) \cup {t[n].off + t[n].size}
                              ELSE Reached(h, t, n - 1)
<1>1. DOMAIN t \subseteq Nat
  BY LenProperties
<1>2. \A k \in DOMAIN t : k <= n <=> k <= n - 1 \/ k = n
  BY <1>1
<1>3. \A k \in DOMAIN t : k <= n - 1 => k # n
  BY <1>1
<1> DEFINE A == {g \in DOMAIN t : g <= n /\ Occupies(t[g])}
           B == {g \in DOMAIN t : g <= n - 1 /\ Occupies(t[g])}
<1>4. A = IF n \in DOMAIN t /\ Occupies(t[n]) THEN B \cup {n} ELSE B
  BY <1>2
<1>5. ScnEnds(t, n) = {t[k].off + t[k].size : k \in A} /\ ScnEnds(t, n - 1) = {t[k].off + t[k].size : k \in B}
  BY DEF ScnEnds
<1> HIDE DEF A, B
<1>6. ScnEnds(t, n) = IF n \in DOMAIN t /\ Occupies(t[n]) THEN ScnEnds(t, n - 1) \cup {t[n].off + t[n].size}
                      ELSE ScnEnds(t, n - 1)
  BY <1>4, <1>5
<1> QED BY <1>6 DEF Reached

\* One more descriptor.
LEMMA FillingNext ==
    ASSUME NEW d \in Seq(DataRec), NEW n \in DOMAIN d
    PROVE  /\ Filling(d, n) = Filling(d, n - 1) \cup {d[n].off + d[n].size}
           /\ DataAligns(d, n) = DataAligns(d, n - 1) \cup {d[n].align}
<1>1. DOMAIN d \subseteq Nat
  BY LenProperties
<1>2. \A k \in DOMAIN d : k <= n <=> k <= n - 1 \/ k = n
  BY <1>1
<1> DEFINE A == {g \in DOMAIN d : g <= n}
           B == {g \in DOMAIN d : g <= n - 1}
<1>3. A = B \cup {n}
  BY <1>2
<1>4. /\ DataEnds(d, n) = {d[k].off + d[k].size : k \in A}
      /\ DataEnds(d, n - 1) = {d[k].off + d[k].size : k \in B}
      /\ DataAligns(d, n) = {d[k].align : k \in A}
      /\ DataAligns(d, n - 1) = {d[k].align : k \in B}
  BY DEF DataEnds, DataAligns
<1> HIDE DEF A, B
<1>5. /\ DataEnds(d, n) = DataEnds(d, n - 1) \cup {d[n].off + d[n].size}
      /\ DataAligns(d, n) = DataAligns(d, n - 1) \cup {d[n].align}
  BY <1>3, <1>4
<1> QED BY <1>5 DEF Filling

\* Beyond the last section, or descriptor, nothing is added.
LEMMA ReachedEnd ==
    ASSUME NEW h, NEW t \in Seq(ScnRec), NEW m \in Nat, m >= Len(t)
    PROVE  Reached(h, t, m) = Reached(h, t, Len(t))
<1>1. \A k \in DOMAIN t : k <= m /\ k <= Len(t)
  BY LenProperties
<1> QED BY <1>1 DEF Reached, ScnEnds

\* The same for the descriptors of a section.
LEMMA FillingEnd ==
    ASSUME NEW d \in Seq(DataRec), NEW m \in Nat, m >= Len(d)
    PROVE  Filling(d, m) = Filling(d, Len(d))
<1>1. \A k \in DOMAIN d : k <= m /\ k <= Len(d)
  BY LenProperties
<1> QED BY <1>1 DEF Filling, DataEnds

\* What the end of a section depends on.
Footprint(s) == <<s.type, s.off, s.size>>

\* Sections with the same footprints reach the same offsets.
LEMMA ReachedSame ==
    ASSUME NEW h, NEW t, NEW u, NEW m, DOMAIN u = DOMAIN t,
           \A k \in DOMAIN t : k <= m => Footprint(u[k]) = Footprint(t[k])
    PROVE  Reached(h, u, m) = Reached(h, t, m)
<1> DEFINE A(w) == {g \in DOMAIN w : g <= m /\ Occupies(w[g])}
<1>1. \A k \in DOMAIN t : k <= m =>
        u[k].type = t[k].type /\ u[k].off = t[k].off /\ u[k].size = t[k].size
  BY DEF Footprint
<1>2. A(u) = A(t)
  BY <1>1 DEF Occupies
<1>3. \A k \in A(t) : u[k].off + u[k].size = t[k].off + t[k].size
  BY <1>1
<1>4. ScnEnds(t, m) = {t[k].off + t[k].size : k \in A(t)} /\ ScnEnds(u, m) = {u[k].off + u[k].size : k \in A(u)}
  BY DEF ScnEnds
<1> HIDE DEF A
<1>5. ScnEnds(t, m) = ScnEnds(u, m)
  BY <1>2, <1>3, <1>4
<1> QED BY <1>5 DEF Reached

\* What being settled depends on.
Layout(s) == <<s.type, s.align, s.off, s.size, s.dirty, s.data>>

\* A section with the same layout is as settled.
LEMMA SettledSame ==
    ASSUME NEW s, NEW t, NEW c, NEW E, Layout(s) = Layout(t)
    PROVE  Settled(s, c, E) <=> Settled(t, c, E)
<1>1. /\ s.type = t.type /\ s.align = t.align /\ s.off = t.off /\ s.size = t.size
      /\ s.data = t.data /\ s.dirty = t.dirty
  BY DEF Layout
<1> QED BY <1>1, Zenon DEF Settled, Sized

\* So are the sections before section m when those keep their layout.
LEMMA AllSettledSame ==
    ASSUME NEW h, NEW c, NEW t \in Seq(ScnRec), NEW u, NEW m \in Int, DOMAIN u = DOMAIN t,
           \A k \in DOMAIN t : k <= m => Layout(u[k]) = Layout(t[k]), AllSettled(h, t, c, m)
    PROVE  AllSettled(h, u, c, m)
<1> SUFFICES ASSUME NEW k \in DOMAIN t, k <= m PROVE Settled(u[k], c, Reached(h, u, k - 1))
  BY DEF AllSettled
<1>1. Settled(t[k], c, Reached(h, t, k - 1))
  BY DEF AllSettled
<1>2. DOMAIN t \subseteq Nat
  BY LenProperties
<1>3. \A g \in DOMAIN t : g <= k - 1 => g <= m
  BY <1>2
<1>4. \A g \in DOMAIN t : g <= k - 1 => Footprint(u[g]) = Footprint(t[g])
  BY <1>3 DEF Layout, Footprint
<1>5. Reached(h, u, k - 1) = Reached(h, t, k - 1)
  BY <1>4, ReachedSame
<1> QED BY <1>1, <1>5, SettledSame

\* Descriptors that are the same fill a section to the same offsets.
LEMMA FillingSame ==
    ASSUME NEW d, NEW e, NEW m, DOMAIN e = DOMAIN d,
           \A j \in DOMAIN d : j <= m => e[j] = d[j]
    PROVE  Filling(e, m) = Filling(d, m)
<1> DEFINE A(w) == {g \in DOMAIN w : g <= m}
<1>1. A(e) = A(d) /\ \A j \in A(d) : e[j] = d[j]
  OBVIOUS
<1>2. DataEnds(d, m) = {d[j].off + d[j].size : j \in A(d)} /\ DataEnds(e, m) = {e[j].off + e[j].size : j \in A(e)}
  BY DEF DataEnds
<1> HIDE DEF A
<1>3. DataEnds(d, m) = DataEnds(e, m)
  BY <1>1, <1>2
<1> QED BY <1>3 DEF Filling

\* Where the headers end, and the whole object, given what a call does not change.
LEMMA HeadNat == ASSUME IndInv PROVE HeadEnd \in Nat
<1>1. PhOff \in Nat /\ PhentSize \in Nat /\ phnum \in Nat /\ EhdrSize \in Nat
  BY PhOffNat, SizesAssumption DEF IndInv, ObjType
<1>2. PhentSize * phnum \in Nat
  BY <1>1
<1>3. PhOff + PhentSize * phnum \in Nat
  BY <1>1, <1>2
<1> QED BY <1>1, <1>3 DEF HeadEnd

\* A step that changes neither leaves the end of the headers where it is.
LEMMA HeadKept ==
    ASSUME IndInv, UNCHANGED <<layout, phnum>>, layout => eh' = eh
    PROVE  HeadEnd' = HeadEnd /\ HeadEnd \in Nat
  BY HeadNat DEF HeadEnd, PhOff

\* The size found is still that of the object.
LEMMA FixedKept ==
    ASSUME IndInv, prev # -1, prev' = prev, FixedAt(prev), UNCHANGED <<cmd, layout, phnum>>,
           layout => eh' = eh, DOMAIN scn' = DOMAIN scn, Len(scn') = Len(scn),
           scn' \in Seq(ScnRec),
           \A k \in DOMAIN scn : Footprint(scn'[k]) = Footprint(scn[k]),
           ~layout => \A k \in DOMAIN scn : Layout(scn'[k]) = Layout(scn[k])
    PROVE  FixedAt(prev)'
<1>1. HeadEnd' = HeadEnd
  BY HeadKept
<1>2. scn \in Seq(ScnRec) /\ Len(scn) \in Int
  BY LenProperties DEF IndInv, ObjType
<1>3. Reached(HeadEnd, scn', Len(scn)) = Reached(HeadEnd, scn, Len(scn))
  BY ReachedSame
<1>4. ~layout => AllSettled(HeadEnd, scn', cmd, Len(scn))
  BY <1>2, AllSettledSame DEF FixedAt
<1>5. (scn' = <<>>) = (scn = <<>>)
  BY <1>2, EmptySeq, LenProperties
<1>6. PICK r \in Reached(HeadEnd, scn, Len(scn)) :
        Greatest(r, Reached(HeadEnd, scn, Len(scn))) /\ prev = Total(r)
  BY DEF FixedAt
<1>7. prev' = Total(r)'
  BY <1>5, <1>6 DEF Total
<1> QED BY <1>1, <1>3, <1>4, <1>6, <1>7 DEF FixedAt

\* A call that ends without a size.
LEMMA StableReleased == ASSUME prev' = -1, pc' = "idle" PROVE StableInv'
  BY DEF StableInv

\* A step that leaves the object alone leaves its size what it was.
LEMMA FixedStill ==
    ASSUME IndInv, prev # -1, prev' = prev, FixedAt(prev), UNCHANGED obj
    PROVE  FixedAt(prev)'
  BY DEF FixedAt, obj, HeadEnd, PhOff, Total

\* A step that leaves the object alone and is not in the loops over sections.
LEMMA StableSkip ==
    ASSUME IndInv, StableInv, UNCHANGED obj, prev' = prev \/ prev' = -1,
           pc' \notin {"ehdr", "phdr", "scn", "data", "resynced"}
    PROVE  StableInv'
  BY FixedStill DEF StableInv

\* A step in the middle of a section.
LEMMA StableSizing ==
    ASSUME IndInv, StableInv, scn' \in Seq(ScnRec), UNCHANGED objButScn, pc \in {"scn", "data"},
           prev' = prev, pc' = "data", f'.rc = f.rc, f'.si = f.si, f.si \in DOMAIN scn,
           DOMAIN scn' = DOMAIN scn, \A k \in DOMAIN scn : k # f.si => scn'[k] = scn[k],
           Footprint(scn'[f.si]) = Footprint(scn[f.si]), Sizing',
           ~layout /\ prev # -1 => Layout(scn'[f.si]) = Layout(scn[f.si])
    PROVE  StableInv'
<1>1. UNCHANGED <<cmd, layout, phnum, eh>> /\ HeadEnd' = HeadEnd
  BY HeadKept DEF objButScn
<1>2. /\ scn \in Seq(ScnRec) /\ Len(scn) = Len(scn') /\ DOMAIN scn \subseteq Int
      /\ \A k \in DOMAIN scn : k <= f.si - 1 => k # f.si
  BY LenProperties DEF IndInv, ObjType
<1>3. \A k \in DOMAIN scn : Footprint(scn'[k]) = Footprint(scn[k])
  OBVIOUS
<1>4. Reached(HeadEnd, scn', f.si - 1) = Reached(HeadEnd, scn, f.si - 1)
  BY <1>3, ReachedSame
<1>5. ~layout => AllSettled(HeadEnd, scn', cmd, f.si - 1)
  <2>1. f.si - 1 \in Int
    BY <1>2
  <2>2. \A k \in DOMAIN scn : k <= f.si - 1 => Layout(scn'[k]) = Layout(scn[k])
    BY <1>2
  <2> QED BY <1>2, <2>1, <2>2, AllSettledSame DEF StableInv
<1>6. prev # -1 => FixedAt(prev)'
  <2> SUFFICES ASSUME prev # -1 PROVE FixedAt(prev)'
    OBVIOUS
  <2>1. ~layout => \A k \in DOMAIN scn : Layout(scn'[k]) = Layout(scn[k])
    OBVIOUS
  <2> QED BY <1>1, <1>2, <1>3, <2>1, FixedKept DEF StableInv
<1> QED BY <1>1, <1>4, <1>5, <1>6 DEF StableInv

\* Placing a section.
LEMMA StablePlaceScn ==
    ASSUME IndInv, StableInv, scn' \in Seq(ScnRec), UNCHANGED objButScn, pc \in {"scn", "data"},
           f.si \in DOMAIN scn, NEW s \in ScnRec, s.type \in DOMAIN FAlign, PlaceScn(s),
           ~layout => Settled(s, cmd, Reached(HeadEnd, scn, f.si - 1)),
           prev # -1 => /\ Footprint(s) = Footprint(scn[f.si])
                        /\ ~layout => Layout(s) = Layout(scn[f.si])
    PROVE  StableInv'
<1> DEFINE r == [s EXCEPT !.soff = s.off, !.ssize = s.size]
<1>1. /\ r.type = s.type /\ r.off = s.off /\ r.size = s.size
      /\ Layout(r) = Layout(s) /\ Footprint(r) = Footprint(s)
  BY DEF ScnRec, Layout, Footprint
<1>2. scn' = [scn EXCEPT ![f.si] = r]
  BY DEF PlaceScn
<1> HIDE DEF r
<1>3. /\ DOMAIN scn' = DOMAIN scn /\ scn'[f.si] = r
      /\ \A k \in DOMAIN scn : k # f.si => scn'[k] = scn[k]
  BY <1>2
<1>4. UNCHANGED <<cmd, layout, phnum, eh>> /\ HeadEnd' = HeadEnd /\ HeadEnd \in Nat
  BY HeadKept DEF objButScn
<1>5. /\ scn \in Seq(ScnRec) /\ Len(scn) = Len(scn') /\ DOMAIN scn \subseteq Nat \ {0}
      /\ \A k \in DOMAIN scn : k <= f.si - 1 => k # f.si
  BY <1>3, LenProperties DEF IndInv, ObjType
<1>6. f \in Frame /\ f.si \in Nat \ {0} /\ f.rc \in Nat /\ s.off \in Nat /\ s.size \in Nat
  BY DEF IndInv, CallInv, CallType, Frame, ScnRec
<1>7. Reached(HeadEnd, scn', f.si - 1) = Reached(HeadEnd, scn, f.si - 1)
  <2>1. \A k \in DOMAIN scn : k <= f.si - 1 => Footprint(scn'[k]) = Footprint(scn[k])
    BY <1>3, <1>5
  <2> QED BY <1>3, <2>1, ReachedSame
<1>8. Reached(HeadEnd, scn', f.si) = IF s.size > 0 THEN Reached(HeadEnd, scn, f.si - 1) \cup {s.off + s.size}
                                     ELSE Reached(HeadEnd, scn, f.si - 1)
  BY <1>1, <1>3, <1>6, <1>7, ReachedNext DEF Occupies
<1>9. CASE pc' = "idle" /\ prev' = -1
  BY <1>9, StableReleased
<1>10. ASSUME pc' = "scn", prev' = prev, f'.si = f.si + 1,
              f'.rc = IF s.size > 0 THEN Bigger(f.rc, s.off + s.size) ELSE f.rc
       PROVE  StableInv'
  <2>1. Greatest(f'.rc, Reached(HeadEnd, scn', f.si))
    <3>1. Greatest(f.rc, Reached(HeadEnd, scn, f.si - 1))
      BY DEF StableInv
    <3>2. Reached(HeadEnd, scn, f.si - 1) \subseteq Nat /\ s.off + s.size \in Nat
      BY <1>4, <1>5, <1>6, ReachedNat
    <3> QED BY <1>8, <1>10, <3>1, <3>2, GreatestAdded
  <2>2. ~layout => AllSettled(HeadEnd, scn', cmd, f.si)
    <3> SUFFICES ASSUME ~layout, NEW k \in DOMAIN scn, k <= f.si
                 PROVE  Settled(scn'[k], cmd, Reached(HeadEnd, scn', k - 1))
      BY <1>3 DEF AllSettled
    <3>1. CASE k = f.si
      BY <1>1, <1>3, <1>7, <3>1, SettledSame
    <3>2. CASE k # f.si
      <4>1. AllSettled(HeadEnd, scn', cmd, f.si - 1)
        <5>1. \A g \in DOMAIN scn : g <= f.si - 1 => Layout(scn'[g]) = Layout(scn[g])
          BY <1>3, <1>5
        <5>2. f.si - 1 \in Int
          BY <1>6
        <5> QED BY <1>3, <1>5, <5>1, <5>2, AllSettledSame DEF StableInv
      <4>2. k <= f.si - 1
        BY <1>5, <1>6, <3>2
      <4> QED BY <1>3, <4>1, <4>2 DEF AllSettled
    <3> QED BY <3>1, <3>2
  <2>3. prev # -1 => FixedAt(prev)'
    <3> SUFFICES ASSUME prev # -1 PROVE FixedAt(prev)'
      OBVIOUS
    <3>1. \A k \in DOMAIN scn : Footprint(scn'[k]) = Footprint(scn[k])
      BY <1>1, <1>3
    <3>2. ~layout => \A k \in DOMAIN scn : Layout(scn'[k]) = Layout(scn[k])
      BY <1>1, <1>3
    <3> QED BY <1>3, <1>4, <1>5, <1>10, <3>1, <3>2, FixedKept DEF StableInv
  <2>4. f'.si - 1 = f.si
    BY <1>6, <1>10
  <2> QED BY <1>4, <1>10, <2>1, <2>2, <2>3, <2>4 DEF StableInv
<1>11. CASE s.size = 0 /\ f' = [f EXCEPT !.si = @ + 1] /\ Continue("scn")
  <2>1. f'.si = f.si + 1 /\ f'.rc = f.rc /\ pc' = "scn" /\ prev' = prev /\ ~(s.size > 0)
    BY <1>6, <1>11 DEF Frame, Continue
  <2> QED BY <1>10, <2>1
<1>12. CASE /\ s.size > 0 /\ f' = [f EXCEPT !.si = @ + 1, !.rc = Bigger(@, s.off + s.size)]
            /\ Continue("scn")
  <2>1. f'.si = f.si + 1 /\ f'.rc = Bigger(f.rc, s.off + s.size) /\ pc' = "scn" /\ prev' = prev
    BY <1>6, <1>12 DEF Frame, Continue
  <2> QED BY <1>10, <1>12, <2>1
<1>13. CASE RefuseExtent(s.off, s.size)
  BY <1>9, <1>13 DEF RefuseExtent, Fail, Return, Failed
<1> QED BY <1>11, <1>12, <1>13 DEF PlaceScn

\* The executable header.
LEMMA StableEhdr == ASSUME IndInv, StableInv, ResyncEhdr PROVE StableInv'
<1>1. CASE RefuseExtent(0, EhdrSize)
  BY <1>1, StableReleased DEF RefuseExtent, Fail, Return, Failed
<1>2. CASE /\ f' = [f EXCEPT !.rc = EhdrSize]
           /\ Continue(IF phnum > 0 THEN "phdr" ELSE "scn")
  <2>1. /\ UNCHANGED obj /\ prev' = prev /\ pc' = (IF phnum > 0 THEN "phdr" ELSE "scn")
        /\ f \in Frame /\ scn \in Seq(ScnRec) /\ f.si = 1 /\ phnum \in Nat
    BY <1>2 DEF ResyncEhdr, Continue, IndInv, ObjType, CallInv, CallType, StableInv
  <2>2. f'.si = 1 /\ f'.rc = EhdrSize
    BY <1>2, <2>1 DEF Frame
  <2>3. scn' = scn /\ HeadEnd' = HeadEnd /\ phnum' = phnum /\ cmd' = cmd
    BY <2>1, HeadKept DEF obj
  <2>4. prev # -1 => FixedAt(prev)'
    BY <2>1, FixedStill DEF StableInv
  <2>5. CASE phnum > 0
    BY <2>1, <2>2, <2>3, <2>4, <2>5 DEF StableInv
  <2>6. CASE ~(phnum > 0)
    <3>1. HeadEnd = EhdrSize /\ pc' = "scn"
      BY <2>1, <2>6 DEF HeadEnd
    <3>2. \A k \in DOMAIN scn : ~(k <= 1 - 1)
      BY <2>1, LenProperties
    <3>3. Reached(HeadEnd, scn, 1 - 1) = {HeadEnd} /\ AllSettled(HeadEnd, scn, cmd, 1 - 1)
      BY <3>2 DEF Reached, ScnEnds, AllSettled
    <3>4. HeadEnd <= HeadEnd
      BY HeadKept, <2>1 DEF obj
    <3>5. Greatest(HeadEnd, {HeadEnd})
      BY <3>4 DEF Greatest
    <3> QED BY <2>1, <2>2, <2>3, <2>4, <3>1, <3>3, <3>5 DEF StableInv
  <2> QED BY <2>5, <2>6
<1>3. CASE Fail(EhdrError)
  BY <1>3, StableReleased DEF Fail, Return, Failed
<1> QED BY <1>1, <1>2, <1>3 DEF ResyncEhdr

\* The program header table.
LEMMA StablePhdr == ASSUME IndInv, StableInv, ResyncPhdr PROVE StableInv'
<1> DEFINE fsz == PhentSize * phnum
<1>1. CASE RefuseExtent(PhOff, fsz) \/ Fail("LAYOUT")
  BY <1>1, StableReleased DEF RefuseExtent, Fail, Return, Failed
<1>2. CASE f' = [f EXCEPT !.rc = PhOff + fsz] /\ Continue("scn")
  <2>1. /\ UNCHANGED obj /\ prev' = prev /\ pc' = "scn"
        /\ f \in Frame /\ scn \in Seq(ScnRec) /\ f.si = 1 /\ phnum > 0
    BY <1>2 DEF ResyncPhdr, Continue, IndInv, ObjType, CallInv, CallType, StableInv
  <2>2. f'.si = 1 /\ f'.rc = HeadEnd
    BY <1>2, <2>1 DEF Frame, HeadEnd
  <2>3. scn' = scn /\ HeadEnd' = HeadEnd /\ cmd' = cmd
    BY <2>1, HeadKept DEF obj
  <2>4. prev # -1 => FixedAt(prev)'
    BY <2>1, FixedStill DEF StableInv
  <2>5. \A k \in DOMAIN scn : ~(k <= 1 - 1)
    BY <2>1, LenProperties
  <2>6. Reached(HeadEnd, scn, 1 - 1) = {HeadEnd} /\ AllSettled(HeadEnd, scn, cmd, 1 - 1)
    BY <2>5 DEF Reached, ScnEnds, AllSettled
  <2>7. HeadEnd <= HeadEnd
    BY HeadKept, <2>1 DEF obj
  <2>8. Greatest(HeadEnd, {HeadEnd})
    BY <2>7 DEF Greatest
  <2> QED BY <2>1, <2>2, <2>3, <2>4, <2>6, <2>8 DEF StableInv
<1> HIDE DEF fsz
<1> QED BY <1>1, <1>2 DEF ResyncPhdr, fsz

\* A section that has no place in the file.
LEMMA StableScnSkip == ASSUME IndInv, StableInv, ResyncScnSkip PROVE StableInv'
<1>1. /\ UNCHANGED obj /\ prev' = prev /\ pc = "scn" /\ pc' = "scn" /\ f' = [f EXCEPT !.si = @ + 1]
      /\ f \in Frame /\ f.si \in Nat \ {0} /\ f.rc \in Nat /\ scn \in Seq(ScnRec)
      /\ scn[f.si].type \notin DOMAIN FAlign
  BY SizesAssumption DEF ResyncScnSkip, InFile, IndInv, ObjType, CallInv, CallType, Frame
<1>2. f'.si = f.si + 1 /\ f'.rc = f.rc /\ f'.si - 1 = f.si
  BY <1>1 DEF Frame
<1>3. scn' = scn /\ HeadEnd' = HeadEnd /\ cmd' = cmd /\ layout' = layout
  BY <1>1, HeadKept DEF obj
<1>4. prev # -1 => FixedAt(prev)'
  BY <1>1, FixedStill DEF StableInv
<1>5. Reached(HeadEnd, scn, f.si) = Reached(HeadEnd, scn, f.si - 1)
  BY <1>1, ReachedNext DEF Occupies
<1>6. ~layout => AllSettled(HeadEnd, scn, cmd, f.si)
  <2> SUFFICES ASSUME ~layout, NEW k \in DOMAIN scn, k <= f.si
               PROVE  Settled(scn[k], cmd, Reached(HeadEnd, scn, k - 1))
    BY DEF AllSettled
  <2>1. CASE k = f.si
    BY <1>1, <2>1 DEF Settled
  <2>2. CASE k # f.si
    <3>1. k <= f.si - 1
      BY <1>1, <2>2, LenProperties
    <3> QED BY <1>1, <3>1 DEF StableInv, AllSettled
  <2> QED BY <2>1, <2>2
<1> QED BY <1>1, <1>2, <1>3, <1>4, <1>5, <1>6 DEF StableInv

\* A section of an object whose size was found is settled.
LEMMA SettledNow ==
    ASSUME IndInv, StableInv, prev # -1, ~layout, NEW k \in DOMAIN scn
    PROVE  Settled(scn[k], cmd, Reached(HeadEnd, scn, k - 1))
<1>1. k <= Len(scn)
  BY LenProperties DEF IndInv, ObjType
<1> QED BY <1>1 DEF StableInv, FixedAt, AllSettled

\* What is known of the section the loop is at.
LEMMA AtScn ==
    ASSUME IndInv, StableInv, pc \in {"scn", "data"}, f.si \in DOMAIN scn
    PROVE  /\ scn \in Seq(ScnRec) /\ scn[f.si] \in ScnRec /\ f.si \in Nat \ {0} /\ f.rc \in Nat
           /\ f \in Frame /\ Reached(HeadEnd, scn, f.si - 1) \subseteq Nat
           /\ Greatest(f.rc, Reached(HeadEnd, scn, f.si - 1))
<1>1. scn \in Seq(ScnRec) /\ f \in Frame
  BY DEF IndInv, ObjType, CallInv, CallType
<1>2. scn[f.si] \in ScnRec
  BY <1>1, ElementOfSeq, LenProperties
<1>3. HeadEnd \in Nat
  BY HeadNat
<1> QED BY <1>1, <1>2, <1>3, ReachedNat DEF Frame, StableInv

\* A section placed from its header.
LEMMA StableScnClean == ASSUME IndInv, IndInv', StableInv, ResyncScnClean PROVE StableInv'
<1> DEFINE s == scn[f.si]
           t == [s EXCEPT !.align = ShAlign(s), !.off = roundup(f.rc, ShAlign(s))]
           E == Reached(HeadEnd, scn, f.si - 1)
<1>1. /\ pc = "scn" /\ f.si <= Len(scn) /\ s.type \in DOMAIN FAlign /\ s.data = <<>> /\ s.dirty = FALSE
      /\ PlaceScn(IF layout THEN s ELSE t) /\ UNCHANGED objButScn
  <2>1. f.si <= Len(scn) /\ ~s.dirty
    BY DEF ResyncScnClean
  <2>2. s \in ScnRec
    BY <2>1, CurrentScn
  <2>3. s.dirty \in BOOLEAN
    BY <2>2 DEF ScnRec
  <2>4. s.dirty = FALSE
    BY <2>1, <2>3, Zenon
  <2> QED BY <2>4 DEF ResyncScnClean
<1>2. f.si \in DOMAIN scn
  BY <1>1, CurrentScn
<1>3. /\ scn \in Seq(ScnRec) /\ s \in ScnRec /\ f.rc \in Nat /\ E \subseteq Nat
      /\ Greatest(f.rc, E) /\ scn' \in Seq(ScnRec)
  BY <1>1, <1>2, AtScn DEF IndInv, ObjType
<1>4. ShAlign(s) \in Nat \ {0} /\ roundup(f.rc, ShAlign(s)) \in Nat
  BY <1>1, <1>3, ShAlignPositive, RoundupNat
<1>5. /\ t \in ScnRec /\ t.type = s.type /\ t.size = s.size /\ t.data = s.data /\ t.dirty = s.dirty
      /\ t.align = ShAlign(s) /\ t.off = roundup(f.rc, ShAlign(s))
  <2> HIDE DEF s
  <2> QED BY <1>3, <1>4 DEF ScnRec
<1> HIDE DEF t
<1>6. Settled(t, cmd, E)
  <2>1. Behind(t.off, t.align, E)
    BY <1>3, <1>5 DEF Behind, Greatest
  <2>2. ~(t.data # <<>> \/ t.dirty) /\ t.align # 0
    BY <1>1, <1>4, <1>5
  <2> QED BY <2>1, <2>2 DEF Settled
<1>7. ~layout /\ prev # -1 => Layout(t) = Layout(s)
  <2> SUFFICES ASSUME ~layout, prev # -1 PROVE Layout(t) = Layout(s)
    OBVIOUS
  <2>1. s.align # 0 /\ Behind(s.off, s.align, E)
    BY <1>1, <1>2, SettledNow DEF Settled
  <2>2. s.off = roundup(f.rc, s.align)
    BY <1>3, <2>1, BehindUnique
  <2>3. ShAlign(s) = s.align
    BY <2>1 DEF ShAlign
  <2> QED BY <1>5, <2>2, <2>3 DEF Layout
<1>8. Layout(t) = Layout(s) => Footprint(t) = Footprint(s)
  BY DEF Layout, Footprint
<1> HIDE DEF s, E
<1>9. CASE layout
  BY <1>1, <1>2, <1>3, <1>9, StablePlaceScn DEF s
<1>10. CASE ~layout
  <2>1. PlaceScn(t)
    BY <1>1, <1>10
  <2> QED BY <1>1, <1>2, <1>3, <1>5, <1>6, <1>7, <1>8, <1>10, <2>1, StablePlaceScn DEF s, E
<1> QED BY <1>9, <1>10

\* A section to be sized is loaded.
LEMMA StableScnBegin == ASSUME IndInv, IndInv', StableInv, ResyncScnBegin PROVE StableInv'
<1> DEFINE s == scn[f.si]
           load == s.data = <<>> /\ cmd # "WRITE"
           t == scn'[f.si]
<1>1. /\ pc = "scn" /\ f.si <= Len(scn) /\ s.type \in DOMAIN FAlign /\ (s.data # <<>> \/ s.dirty)
      /\ scn' = IF load THEN [scn EXCEPT ![f.si].data = <<Loaded(s)>>] ELSE scn
      /\ f' = [f EXCEPT !.di = 1, !.ssz = 0, !.sal = 0] /\ pc' = "data" /\ prev' = prev
      /\ UNCHANGED objButScn
  BY DEF ResyncScnBegin, Continue
<1>2. f.si \in DOMAIN scn
  BY <1>1, CurrentScn
<1>3. /\ scn \in Seq(ScnRec) /\ s \in ScnRec /\ f \in Frame /\ scn' \in Seq(ScnRec)
  BY <1>1, <1>2, AtScn DEF IndInv, ObjType
<1>4. f'.rc = f.rc /\ f'.si = f.si /\ f'.di = 1 /\ f'.ssz = 0 /\ f'.sal = 0
  BY <1>1, <1>3, FrameStart DEF Frame
<1>5. DOMAIN scn' = DOMAIN scn /\ \A k \in DOMAIN scn : k # f.si => scn'[k] = scn[k]
  BY <1>1
<1>6. /\ t.type = s.type /\ t.off = s.off /\ t.size = s.size /\ t.dirty = s.dirty
      /\ t.data = IF load THEN <<Loaded(s)>> ELSE s.data
  <2>1. CASE load
    <3>1. t = [s EXCEPT !.data = <<Loaded(s)>>]
      BY <1>1, <1>2, <2>1
    <3> HIDE DEF t, s
    <3> QED BY <1>3, <2>1, <3>1 DEF ScnRec
  <2>2. CASE ~load
    BY <1>1, <2>2
  <2> QED BY <2>1, <2>2
<1>7. <<Loaded(s)>> # <<>>
  OBVIOUS
<1>8. t.data # <<>> \/ t.dirty
  <2>1. CASE load
    BY <1>6, <1>7, <2>1
  <2>2. CASE ~load
    BY <1>1, <1>6, <2>2, Zenon
  <2> QED BY <2>1, <2>2
<1>9. t.data = <<>> => cmd' = "WRITE"
  BY <1>1, <1>6, <1>7 DEF objButScn
<1>10. DOMAIN t.data = 1..Len(t.data)
  <2>1. t \in ScnRec
    BY <1>2, <1>3, <1>5, ElementOfSeq, LenProperties
  <2>2. t.data \in Seq(DataRec)
    BY <2>1 DEF ScnRec
  <2> QED BY <2>2, LenProperties
<1> HIDE DEF t
<1>11. Sizing'
  <2>1. \A j \in DOMAIN t.data : ~(j <= 1 - 1) /\ ~(j < 1)
    BY <1>10
  <2>2. Filling(t.data, 1 - 1) = {0} /\ DataAligns(t.data, 1 - 1) = {}
    BY <2>1 DEF Filling, DataEnds, DataAligns
  <2>3. Greatest(0, {0}) /\ {0} \cup {} = {0}
    BY DEF Greatest
  <2>4. t = scn'[f'.si]
    BY <1>4 DEF t
  <2>5. /\ t.data # <<>> \/ t.dirty
        /\ t.data = <<>> => cmd' = "WRITE"
        /\ Greatest(f'.ssz, Filling(t.data, f'.di - 1))
        /\ Greatest(f'.sal, {0} \cup DataAligns(t.data, f'.di - 1))
        /\ \A j \in DOMAIN t.data : ~(j < f'.di)
    BY <1>4, <1>8, <1>9, <2>1, <2>2, <2>3
  <2> HIDE DEF s
  <2> QED BY <2>4, <2>5, Zenon DEF Sizing
<1>12. ~layout /\ prev # -1 => Layout(t) = Layout(s)
  <2> SUFFICES ASSUME ~layout, prev # -1 PROVE Layout(t) = Layout(s)
    OBVIOUS
  <2>1. Settled(s, cmd, Reached(HeadEnd, scn, f.si - 1))
    BY <1>2, SettledNow
  <2>2. Sized(s, cmd)
    BY <1>1, <2>1, Zenon DEF Settled
  <2>3. ~load
    BY <2>2 DEF Sized
  <2> QED BY <1>1, <2>3 DEF t
<1>13. Footprint(t) = Footprint(s)
  BY <1>6 DEF Footprint
<1> QED BY <1>1, <1>2, <1>3, <1>4, <1>5, <1>11, <1>12, <1>13, StableSizing DEF t

\* A section that cannot be sized ends the call.
LEMMA StableScnError == ASSUME ResyncScnError PROVE StableInv'
  BY StableReleased DEF ResyncScnError, Fail, Return, Failed

\* A descriptor is placed.
LEMMA StableData == ASSUME IndInv, IndInv', StableInv, ResyncData PROVE StableInv'
<1> DEFINE s == scn[f.si]
           d == s.data[f.di]
           t == scn'[f.si]
           e == t.data
<1>1. CASE Fail(DataError(d))
  <2> HIDE DEF d
  <2> QED BY <1>1, StableReleased DEF Fail, Return, Failed
<1>2. CASE /\ scn' = [scn EXCEPT ![f.si].data[f.di].off = DataOff(d)]
           /\ f' = [f EXCEPT !.di = @ + 1, !.ssz = Bigger(@, DataEnd(d)), !.sal = Bigger(@, d.align)]
           /\ Continue("data")
  <2>1. /\ pc = "data" /\ pc' = "data" /\ prev' = prev /\ f.di <= Len(s.data) /\ UNCHANGED objButScn
        /\ f.si \in DOMAIN scn
    BY <1>2 DEF ResyncData, Continue, IndInv, CallInv, LoopInv
  <2>2. scn \in Seq(ScnRec) /\ s \in ScnRec /\ f \in Frame /\ scn' \in Seq(ScnRec) /\ s.type \in DOMAIN FAlign
    BY <2>1, AtScn DEF IndInv, ObjType, CallInv, LoopInv
  <2>3. s.data \in Seq(DataRec) /\ f.di \in Nat \ {0} /\ f.ssz \in Nat /\ f.sal \in Nat
    BY <2>2 DEF ScnRec, Frame
  <2>4. f.di \in DOMAIN s.data /\ DOMAIN s.data = 1..Len(s.data) /\ Len(s.data) \in Nat
    BY <2>1, <2>3, LenProperties
  <2>5. d \in DataRec
    BY <2>3, <2>4, ElementOfSeq
  <2>6. d.size \in Nat /\ d.align \in Nat /\ d.off \in Nat
    BY <2>5 DEF DataRec
  <2>7. DOMAIN scn' = DOMAIN scn /\ \A k \in DOMAIN scn : k # f.si => scn'[k] = scn[k]
    BY <1>2
  <2>8. t = [s EXCEPT !.data = [s.data EXCEPT ![f.di] = [d EXCEPT !.off = DataOff(d)]]]
    BY <1>2, <2>1
  <2>9. e = [s.data EXCEPT ![f.di] = [d EXCEPT !.off = DataOff(d)]]
    <3> HIDE DEF t, s, d
    <3> QED BY <2>2, <2>8 DEF ScnRec
  <2>10. /\ t.type = s.type /\ t.off = s.off /\ t.size = s.size /\ t.dirty = s.dirty /\ t.align = s.align
    <3> HIDE DEF t, s, d
    <3> QED BY <2>2, <2>8 DEF ScnRec
  <2>11. t \in ScnRec
    BY <2>1, <2>2, <2>7, ElementOfSeq, LenProperties
  <2>12. e \in Seq(DataRec)
    BY <2>11 DEF ScnRec
  <2> HIDE DEF t
  <2>13. DOMAIN e = DOMAIN s.data /\ \A j \in DOMAIN s.data : j # f.di => e[j] = s.data[j]
    BY <2>9
  <2>14. e[f.di] = [d EXCEPT !.off = DataOff(d)]
    BY <2>4, <2>9
  <2> HIDE DEF e, s
  <2>15. e[f.di].off = DataOff(d) /\ e[f.di].size = d.size /\ e[f.di].align = d.align
    <3> HIDE DEF d
    <3> QED BY <2>5, <2>14 DEF DataRec
  <2>16. f'.di = f.di + 1 /\ f'.ssz = Bigger(f.ssz, DataEnd(d)) /\ f'.sal = Bigger(f.sal, d.align)
         /\ f'.rc = f.rc /\ f'.si = f.si /\ f'.di - 1 = f.di
    <3> HIDE DEF d
    <3> QED BY <1>2, <2>2, <2>3 DEF Frame
  <2>17. /\ Greatest(f.ssz, Filling(s.data, f.di - 1)) /\ Greatest(f.sal, {0} \cup DataAligns(s.data, f.di - 1))
         /\ s.data = <<>> => cmd = "WRITE"
         /\ s.data # <<>> \/ s.dirty
         /\ ~layout => \A j \in DOMAIN s.data : j < f.di => DataSettled(s.data, j)
    BY <2>1 DEF StableInv, Sizing, s
  <2>18. ASSUME NEW m \in Int, m < f.di
         PROVE  Filling(e, m) = Filling(s.data, m)
    <3>1. \A j \in DOMAIN s.data : j <= m => e[j] = s.data[j]
      BY <2>3, <2>4, <2>13, <2>18
    <3> QED BY <2>13, <3>1, FillingSame
  <2>19. DataAligns(e, f.di - 1) = DataAligns(s.data, f.di - 1)
    <3>1. \A j \in DOMAIN s.data : e[j].align = s.data[j].align
      BY <2>13, <2>15 DEF d
    <3> QED BY <2>13, <3>1 DEF DataAligns
  <2>20. Greatest(f'.ssz, Filling(e, f'.di - 1))
    <3>1. f.di - 1 \in Int /\ f.di - 1 < f.di
      BY <2>3
    <3>2. Filling(e, f.di) = Filling(e, f.di - 1) \cup {DataEnd(d)}
      BY <2>4, <2>12, <2>13, <2>15, FillingNext DEF DataEnd
    <3>3. DataEnd(d) \in Nat /\ Filling(e, f.di - 1) \subseteq Nat
      <4>1. e[f.di] \in DataRec
        BY <2>4, <2>12, <2>13, ElementOfSeq, LenProperties
      <4>2. e[f.di].off \in Nat /\ e[f.di].size \in Nat
        BY <4>1 DEF DataRec
      <4>3. \A a, b \in Nat : a + b \in Nat
        OBVIOUS
      <4>4. DataEnd(d) = e[f.di].off + e[f.di].size
        BY <2>15 DEF DataEnd
      <4> QED BY <2>12, <4>2, <4>3, <4>4, FillingNat
    <3> HIDE DEF d
    <3> QED BY <2>16, <2>17, <2>18, <3>1, <3>2, <3>3, GreatestAdded
  <2>21. Greatest(f'.sal, {0} \cup DataAligns(e, f'.di - 1))
    <3>1. DataAligns(e, f.di) = DataAligns(e, f.di - 1) \cup {d.align}
      BY <2>4, <2>12, <2>13, <2>15, FillingNext
    <3>2. {0} \cup DataAligns(e, f.di - 1) \subseteq Nat
      BY <2>12, FillingNat
    <3>3. ({0} \cup DataAligns(e, f.di - 1)) \cup {d.align} = {0} \cup DataAligns(e, f.di)
      BY <3>1
    <3> HIDE DEF d
    <3> QED BY <2>6, <2>16, <2>17, <2>19, <3>2, <3>3, GreatestAdded
  <2>22. ASSUME ~layout, NEW j \in DOMAIN e, j < f'.di
         PROVE  DataSettled(e, j)
    <3>1. j \in Int /\ j - 1 \in Int /\ j <= f.di /\ j - 1 < f.di
      BY <2>3, <2>4, <2>13, <2>16, <2>22
    <3>2. Filling(e, j - 1) = Filling(s.data, j - 1)
      BY <2>18, <3>1
    <3>3. CASE j = f.di
      <4>1. e[j].off = roundup(f.ssz, e[j].align)
        BY <2>15, <2>22, <3>3 DEF DataOff
      <4>2. Greatest(f.ssz, Filling(e, j - 1))
        BY <2>17, <3>2, <3>3
      <4> QED BY <4>1, <4>2 DEF DataSettled, Behind, Greatest
    <3>4. CASE j # f.di
      <4>1. DataSettled(s.data, j) /\ e[j] = s.data[j]
        BY <2>3, <2>13, <2>17, <2>22, <3>1, <3>4
      <4> QED BY <3>2, <4>1 DEF DataSettled
    <3> QED BY <3>3, <3>4
  <2>23. e # <<>> /\ cmd' = cmd /\ layout' = layout
    BY <2>1, <2>4, <2>13 DEF objButScn
  <2>24. Sizing'
    <3>1. e = scn'[f'.si].data
      BY <2>16 DEF e, t
    <3> HIDE DEF d
    <3> QED BY <2>20, <2>21, <2>22, <2>23, <3>1, Zenon DEF Sizing
  <2>25. ~layout /\ prev # -1 => Layout(t) = Layout(s)
    <3> SUFFICES ASSUME ~layout, prev # -1 PROVE Layout(t) = Layout(s)
      OBVIOUS
    <3>1. Settled(s, cmd, Reached(HeadEnd, scn, f.si - 1))
      BY <2>1, SettledNow DEF s
    <3>2. Sized(s, cmd)
      BY <2>2, <2>17, <3>1, Zenon DEF Settled
    <3>3. Behind(d.off, d.align, Filling(s.data, f.di - 1))
      BY <2>4, <3>2 DEF Sized, DataSettled
    <3>4. Filling(s.data, f.di - 1) \subseteq Nat
      BY <2>3, FillingNat
    <3>5. d.off = roundup(f.ssz, d.align)
      BY <2>17, <3>3, <3>4, BehindUnique
    <3>6. DataOff(d) = d.off
      BY <3>5 DEF DataOff
    <3>7. [d EXCEPT !.off = DataOff(d)] = d
      <4> HIDE DEF d
      <4> QED BY <2>5, <3>6 DEF DataRec
    <3>8. e = s.data
      BY <2>3, <2>4, <2>9, <3>7, LenProperties
    <3> QED BY <2>10, <3>8 DEF Layout, e
  <2>26. Footprint(t) = Footprint(s)
    BY <2>10 DEF Footprint
  <2> HIDE DEF d
  <2> QED BY <2>1, <2>2, <2>7, <2>16, <2>24, <2>25, <2>26, StableSizing DEF t, s
<1> QED BY <1>1, <1>2 DEF ResyncData

\* A section is sized.
LEMMA StableScnEnd == ASSUME IndInv, IndInv', StableInv, ResyncScnEnd PROVE StableInv'
<1> DEFINE s == scn[f.si]
           t == ComputedShdr(s)
           al == Bigger(ShAlign(s), f.sal)
           E == Reached(HeadEnd, scn, f.si - 1)
<1>1. CASE Fail("LAYOUT")
  BY <1>1, StableReleased DEF Fail, Return, Failed
<1>2. /\ pc = "data" /\ f.di > Len(s.data) /\ UNCHANGED objButScn /\ f.si \in DOMAIN scn
      /\ s.type \in DOMAIN FAlign
  BY DEF ResyncScnEnd, IndInv, CallInv, LoopInv
<1>3. /\ scn \in Seq(ScnRec) /\ s \in ScnRec /\ f.rc \in Nat /\ E \subseteq Nat
      /\ Greatest(f.rc, E) /\ scn' \in Seq(ScnRec) /\ f \in Frame
  BY <1>2, AtScn DEF IndInv, ObjType
<1>4. /\ s.data \in Seq(DataRec) /\ s.align \in Nat /\ f.sal \in Nat /\ f.ssz \in Nat
      /\ f.di \in Nat \ {0}
  BY <1>3 DEF ScnRec, Frame
<1>5. CASE layout /\ PlaceScn(s)
  <2> HIDE DEF s
  <2> QED BY <1>2, <1>3, <1>5, StablePlaceScn DEF s
<1>6. CASE ~layout /\ PlaceScn(t)
  <2>1. t \in ScnRec
    BY <1>2, <1>3, ComputedShdrType
  <2>2. ShAlign(s) \in Nat \ {0}
    BY <1>2, <1>3, ShAlignPositive
  <2>3. /\ t.type = s.type /\ t.data = s.data /\ t.dirty = s.dirty
        /\ t.align = al /\ t.size = f.ssz /\ t.off = roundup(f.rc, al)
    <3> HIDE DEF s, al
    <3>1. t = [s EXCEPT !.align = al, !.size = f.ssz, !.off = roundup(f.rc, al)]
      BY DEF ComputedShdr, al
    <3> HIDE DEF t
    <3> QED BY <1>3, <3>1 DEF ScnRec
  <2>4. al \in Nat /\ al # 0 /\ al >= f.sal
    <3>1. ASSUME NEW a \in Nat \ {0}, NEW b \in Nat
          PROVE  Bigger(a, b) \in Nat /\ Bigger(a, b) # 0 /\ Bigger(a, b) >= b
      BY DEF Bigger
    <3> HIDE DEF s
    <3> QED BY <1>4, <2>2, <3>1
  <2> HIDE DEF t
  <2>5. /\ Greatest(f.ssz, Filling(s.data, f.di - 1)) /\ Greatest(f.sal, {0} \cup DataAligns(s.data, f.di - 1))
        /\ s.data = <<>> => cmd = "WRITE"
        /\ s.data # <<>> \/ s.dirty
        /\ \A j \in DOMAIN s.data : j < f.di => DataSettled(s.data, j)
    BY <1>2, <1>6 DEF StableInv, Sizing
  <2>6. DOMAIN s.data = 1..Len(s.data) /\ Len(s.data) \in Nat
    BY <1>4, LenProperties
  <2> HIDE DEF s
  <2>7. f.di - 1 \in Nat /\ f.di - 1 >= Len(s.data) /\ \A j \in DOMAIN s.data : j < f.di /\ j <= f.di - 1
    BY <1>2, <1>4, <2>6
  <2>8. Filling(s.data, f.di - 1) = Filling(s.data, Len(s.data))
    BY <1>4, <2>7, FillingEnd
  <2>9. \A j \in DOMAIN s.data : s.data[j].align \in DataAligns(s.data, f.di - 1)
    BY <2>7 DEF DataAligns
  <2>10. DataAligns(s.data, f.di - 1) \subseteq Nat /\ Filling(s.data, f.di - 1) \subseteq Nat
    BY <1>4, FillingNat
  <2>11. \A j \in DOMAIN s.data : s.data[j].align <= al
    <3> SUFFICES ASSUME NEW j \in DOMAIN s.data PROVE s.data[j].align <= al
      OBVIOUS
    <3> DEFINE a == s.data[j].align
    <3>1. a \in Nat /\ a <= f.sal
      BY <2>5, <2>9, <2>10 DEF Greatest
    <3> HIDE DEF a, al
    <3>2. a <= al
      BY <1>4, <2>4, <3>1
    <3> QED BY <3>2 DEF a
  <2> HIDE DEF al
  <2>12. Settled(t, cmd, E)
    <3>1. Behind(t.off, t.align, E)
      BY <1>3, <2>3 DEF Behind, Greatest
    <3>2. Sized(t, cmd)
      BY <2>3, <2>5, <2>7, <2>8, <2>11 DEF Sized
    <3> QED BY <2>3, <2>4, <3>1, <3>2 DEF Settled
  <2>13. prev # -1 => Layout(t) = Layout(s)
    <3> SUFFICES ASSUME prev # -1 PROVE Layout(t) = Layout(s)
      OBVIOUS
    <3>1. Settled(s, cmd, E)
      BY <1>2, <1>6, SettledNow DEF s
    <3>2. s.align # 0 /\ Behind(s.off, s.align, E) /\ Sized(s, cmd)
      BY <1>2, <2>5, <3>1, Zenon DEF Settled
    <3>3. s.size = f.ssz
      BY <2>5, <2>8, <2>10, <3>2, GreatestUnique DEF Sized
    <3>4. f.sal <= s.align
      <4>1. f.sal = 0 \/ f.sal \in DataAligns(s.data, f.di - 1)
        BY <2>5 DEF Greatest
      <4>2. \A a \in DataAligns(s.data, f.di - 1) : a <= s.align
        BY <3>2 DEF Sized, DataAligns
      <4>3. f.sal = 0 => f.sal <= s.align
        BY <1>4
      <4> QED BY <4>1, <4>2, <4>3
    <3>5. ShAlign(s) = s.align
      BY <3>2 DEF ShAlign
    <3>6. al = s.align
      <4>1. ASSUME NEW a \in Nat, NEW b \in Nat, b <= a PROVE Bigger(a, b) = a
        BY <4>1 DEF Bigger
      <4> QED BY <1>4, <3>4, <3>5, <4>1 DEF al
    <3>7. s.off = roundup(f.rc, s.align)
      BY <1>3, <3>2, BehindUnique
    <3> QED BY <2>3, <3>3, <3>6, <3>7 DEF Layout
  <2>14. Layout(t) = Layout(s) => Footprint(t) = Footprint(s)
    BY DEF Layout, Footprint
  <2> HIDE DEF E
  <2> QED BY <1>2, <1>3, <1>6, <2>1, <2>3, <2>12, <2>13, <2>14, StablePlaceScn DEF s, E
<1> QED BY <1>1, <1>5, <1>6 DEF ResyncScnEnd

\* The section header table completes the object.
LEMMA StableShdr == ASSUME IndInv, IndInv', StableInv, ResyncShdr PROVE StableInv'
<1> DEFINE fsz == ShentSize * Len(scn)
           shoff == IF scn = <<>> THEN 0
                    ELSE IF layout THEN eh.shoff ELSE roundup(f.rc, ShdrAlign)
<1>1. CASE Fail("LAYOUT") \/ RefuseExtent(shoff, fsz)
  BY <1>1, StableReleased DEF RefuseExtent, Fail, Return, Failed
<1>2. CASE /\ eh' = UpdatedEh(shoff)
           /\ f' = [f EXCEPT !.rc = Bigger(@, shoff + fsz)]
           /\ Continue("resynced")
  <2>1. /\ pc = "scn" /\ pc' = "resynced" /\ prev' = prev /\ f.si > Len(scn)
        /\ UNCHANGED <<cmd, layout, phnum, scn>> /\ (layout => eh' = eh)
        /\ f \in Frame /\ scn \in Seq(ScnRec)
    BY <1>2 DEF ResyncShdr, Continue, UpdatedEh, IndInv, ObjType, CallInv, CallType
  <2>2. f'.rc = Bigger(f.rc, shoff + fsz)
    BY <1>2, <2>1 DEF Frame
  <2> PICK r : r = f.rc
    OBVIOUS
  <2>3. f'.rc = Total(r)'
    <3>1. f'.rc = Total(r)
      BY <2>2 DEF Total
    <3> HIDE DEF shoff, fsz
    <3>2. Total(r)' = Total(r)
      BY <2>1 DEF Total
    <3> QED BY <3>1, <3>2
  <2>4. HeadEnd' = HeadEnd
    BY <2>1, HeadKept
  <2>5. f.si - 1 \in Nat /\ f.si - 1 >= Len(scn) /\ f.si \in Nat \ {0} /\ Len(scn) \in Nat
    <3>1. f.si \in Nat \ {0} /\ Len(scn) \in Nat
      BY <2>1, LenProperties DEF Frame
    <3> QED BY <2>1, <3>1
  <2>6. Reached(HeadEnd, scn, f.si - 1) = Reached(HeadEnd, scn, Len(scn))
    BY <2>1, <2>5, ReachedEnd
  <2>7. Greatest(r, Reached(HeadEnd, scn, Len(scn)))
    BY <2>1, <2>6 DEF StableInv
  <2>8. ~layout => AllSettled(HeadEnd, scn, cmd, Len(scn))
    <3>1. \A k \in DOMAIN scn : k <= f.si - 1
      BY <2>1, <2>5, LenProperties
    <3> QED BY <2>1, <3>1 DEF StableInv, AllSettled
  <2>9. FixedAt(f.rc)'
    BY <2>1, <2>3, <2>4, <2>7, <2>8 DEF FixedAt, Greatest
  <2>10. prev # -1 => FixedAt(prev)'
    <3>1. DOMAIN scn' = DOMAIN scn /\ Len(scn') = Len(scn) /\ scn' \in Seq(ScnRec)
      BY <2>1
    <3>2. \A k \in DOMAIN scn : Footprint(scn'[k]) = Footprint(scn[k]) /\ Layout(scn'[k]) = Layout(scn[k])
      BY <2>1
    <3> QED BY <2>1, <3>1, <3>2, FixedKept DEF StableInv
  <2> QED BY <2>1, <2>9, <2>10 DEF StableInv
<1> HIDE DEF shoff, fsz
<1> QED BY <1>1, <1>2 DEF ResyncShdr, shoff, fsz

\* elf_update returns the size, or goes on to write.
LEMMA StableAfterResync == ASSUME IndInv, StableInv, AfterResync PROVE StableInv'
<1>1. UNCHANGED obj /\ pc = "resynced" /\ FixedAt(f.rc)
  BY DEF AfterResync, StableInv
<1>2. CASE Return([ok |-> TRUE, rc |-> f.rc, err |-> "none"])
  <2>1. pc' = "idle" /\ prev' = f.rc
    BY <1>2 DEF Return
  <2>2. FixedAt(prev)'
    BY <1>1, <2>1 DEF FixedAt, obj, HeadEnd, PhOff, Total
  <2> QED BY <2>1, <2>2 DEF StableInv
<1>3. CASE Fail(IF fd THEN "RESOURCE" ELSE "SEQUENCE")
  BY <1>3, StableReleased DEF Fail, Return, Failed
<1>4. CASE Continue("write")
  BY <1>1, <1>4, StableSkip DEF Continue
<1> QED BY <1>2, <1>3, <1>4 DEF AfterResync

\* Every step of the specification keeps the invariant.
LEMMA StableNext == IndInv /\ IndInv' /\ StableInv /\ [Next]_vars => StableInv'
<1> SUFFICES ASSUME IndInv, IndInv', StableInv, [Next]_vars PROVE StableInv'
  OBVIOUS
<1>1. CASE AppNext
  <2>1. pc' = "idle" /\ prev' = -1
    BY <1>1 DEF AppNext, AppStep, FlagLayout, FdDone, NewPhdr, SetEhdr,
       NewScn, SetShdr, FlagScn, GetData, NewData, SetData
  <2> QED BY <2>1, StableReleased
<1>2. ASSUME NEW c \in {"NULL", "WRITE"}, BeginUpdate(c) PROVE StableInv'
  <2>1. UNCHANGED <<obj, prev>>
    BY <1>2 DEF BeginUpdate
  <2>2. CASE pc' = "idle"
    BY <2>1, <2>2, StableSkip
  <2>3. CASE pc' = "ehdr" /\ f' = [NoFrame EXCEPT !.op = c]
    <3>1. f'.si = 1
      BY <2>3 DEF NoFrame
    <3>2. prev # -1 => FixedAt(prev)'
      BY <2>1, FixedStill DEF StableInv
    <3> QED BY <2>1, <2>3, <3>1, <3>2 DEF StableInv
  <2> QED BY <1>2, <2>2, <2>3 DEF BeginUpdate
<1>3. CASE ResyncStep
  BY <1>3, StableEhdr, StablePhdr, StableScnSkip, StableScnClean, StableScnBegin, StableScnError,
     StableData, StableScnEnd, StableShdr, StableAfterResync DEF ResyncStep
<1>4. CASE WriteStep
  <2>1. UNCHANGED obj /\ (prev' = prev \/ prev' = -1)
    BY <1>4 DEF WriteStep, WriteTable, WriteScnBegin, WriteRaw, WriteData, WriteScnEnd, Commit,
       Continue, Abort, Fail, Return, Failed
  <2>2. pc' \in {"idle", "write", "wraw", "wscn", "written", "aborted"}
    BY <1>4 DEF WriteStep, WriteTable, WriteScnBegin, WriteRaw, WriteData, WriteScnEnd, Commit,
       Continue, Abort, Fail, Return
  <2> QED BY <2>1, <2>2, StableSkip
<1>5. CASE UNCHANGED vars
  BY <1>5 DEF vars, obj, StableInv, Sizing, FixedAt, HeadEnd, PhOff, Total
<1> QED BY <1>1, <1>2, <1>3, <1>4, <1>5 DEF Next

\* elf_update(e, ELF_C_NULL), called again on an object nothing was done to, returns
\* the size it returned before: whatever the object, the layout, and whichever
\* sections were loaded, the fields the first pass wrote are those the second one
\* computes.
THEOREM UpdateTwiceIsOnce == Spec => ResyncStable
<1>1. Init => StableInv
  BY DEF Init, StableInv
<1>2. Spec => []StableInv
  BY <1>1, Invariant, StableNext, PTL DEF Spec
<1>3. IndInv /\ StableInv /\ [Next]_vars =>
        [pc # "idle" /\ pc' = "idle" /\ prev # -1 /\ ret'.ok => ret'.rc = prev]_vars
  <2> SUFFICES ASSUME IndInv, StableInv, Next, pc # "idle", pc' = "idle", prev # -1, ret'.ok
               PROVE  ret'.rc = prev
    OBVIOUS
  <2>1. ResyncStep \/ WriteStep
    BY OutsideCall
  <2>2. \A e \in Errors : ~Fail(e)
    BY DEF Fail, Return, Failed
  <2>3. pc = "resynced" /\ Return([ok |-> TRUE, rc |-> f.rc, err |-> "none"])
    <3>1. CASE ResyncStep
      BY <2>2, <3>1, Zenon DEF ResyncStep, ResyncEhdr, ResyncPhdr, ResyncScnSkip, ResyncScnClean,
         ResyncScnBegin, ResyncScnError, ResyncData, ResyncScnEnd, ResyncShdr, AfterResync,
         PlaceScn, RefuseExtent, Fail, Return, Continue, Failed
    <3>2. CASE WriteStep
      BY <3>2 DEF WriteStep, WriteTable, WriteScnBegin, WriteRaw, WriteData, WriteScnEnd, Commit,
         Continue, Abort, Fail, Return, Failed
    <3> QED BY <2>1, <3>1, <3>2
  <2>4. ret'.rc = f.rc
    BY <2>3 DEF Return
  <2>5. FixedAt(f.rc) /\ FixedAt(prev)
    BY <2>3 DEF StableInv
  <2>6. Reached(HeadEnd, scn, Len(scn)) \subseteq Nat
    <3>1. HeadEnd \in Nat /\ scn \in Seq(ScnRec)
      BY HeadNat DEF IndInv, ObjType
    <3> QED BY <3>1, ReachedNat
  <2>7. PICK a \in Reached(HeadEnd, scn, Len(scn)) :
          Greatest(a, Reached(HeadEnd, scn, Len(scn))) /\ f.rc = Total(a)
    BY <2>5 DEF FixedAt
  <2>8. PICK b \in Reached(HeadEnd, scn, Len(scn)) :
          Greatest(b, Reached(HeadEnd, scn, Len(scn))) /\ prev = Total(b)
    BY <2>5 DEF FixedAt
  <2>9. a = b
    BY <2>6, <2>7, <2>8, GreatestUnique
  <2> QED BY <2>4, <2>7, <2>8, <2>9
<1> QED BY <1>2, <1>3, Invariant, PTL DEF Spec, ResyncStable
=============================================================================
