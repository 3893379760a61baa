-------------------------- MODULE ElfHandlesProofs --------------------------
(***************************************************************************)
(* Theorems about ElfHandles: for any finite set of descriptors and any    *)
(* bound on activations, no call frees what the application, or a member   *)
(* the application holds, still uses, nothing is freed twice, and what     *)
(* elf_end defers is reclaimed.                                            *)
(***************************************************************************)
EXTENDS ElfHandles, FiniteSetTheorems, TLAPS

\* A structure that is not allocated, and one an open abandoned, is blank; so is
\* its slot in the tree.
DeadIsFresh == \A h \in Handles : h \notin Live => elf[h] = Fresh

\* The flags say what is allocated.
FlagsTrue ==
    \A h \in Handles :
        /\ elf[h].file => "raw" \in res[h]
        /\ elf[h].arh => "arhdr" \in res[h]

\* elf_end works on an allocated descriptor without activations ...
EndingLive == cur # None => cur \in Live /\ elf[cur].act = 0

\* ... and any other one without activations is an archive with members.
KeptHasChildren == \A h \in Live : elf[h].act = 0 /\ h # cur => Children(h) # {}

HandlesInv ==
    /\ TypeOK /\ HeldIsLive /\ DeadIsFresh /\ FlagsTrue /\ EndingLive
    /\ MemberHasArchive /\ ChildrenCounted /\ KeptHasChildren

----------------------------------------------------------------------------
\* A blank structure is a structure.
LEMMA FreshType == Fresh \in ElfRec
  BY DEF Fresh, ElfRec

\* The members of an archive are finitely many, and counted by their number.
LEMMA ChildrenFinite ==
  ASSUME NEW a PROVE IsFiniteSet(Children(a)) /\ Cardinality(Children(a)) \in Nat
<1>1. Children(a) \subseteq Handles
  BY DEF Children, Live
<1>2. IsFiniteSet(Children(a))
  BY <1>1, HandlesAssumption, FS_Subset
<1> QED BY <1>2, FS_CardinalityType

\* A descriptor that is not allocated has no members and no activation.
LEMMA UnusedFacts ==
  ASSUME HandlesInv, NEW h \in Unused
  PROVE  /\ h \in Handles /\ h \notin Live /\ res[h] = {}
         /\ own[h] = 0 /\ elf[h] = Fresh
         /\ \A k \in Handles : elf[k].parent # h
<1>1. h \in Handles /\ res[h] = {} /\ h \notin Live
  BY DEF Unused, Live
<1>2. elf[h] = Fresh
  BY <1>1 DEF HandlesInv, DeadIsFresh
<1>3. own[h] = 0
  BY <1>1 DEF HandlesInv, HeldIsLive, TypeOK
<1>4. ASSUME NEW k \in Handles, elf[k].parent = h PROVE FALSE
  <2>1. h # None
    BY <1>1, HandlesAssumption
  <2>2. k \in Live
    BY <1>4, <2>1 DEF HandlesInv, DeadIsFresh, Fresh
  <2>3. h \in Live
    BY <1>4, <2>1, <2>2 DEF HandlesInv, MemberHasArchive
  <2> QED BY <2>3, <1>1
<1> QED BY <1>1, <1>2, <1>3, <1>4

\* The invariant holds before any descriptor is opened.
LEMMA HandlesInit == Init => HandlesInv
<1> SUFFICES ASSUME Init PROVE HandlesInv
  OBVIOUS
<1>1. Live = {}
  BY DEF Init, Live
<1>2. TypeOK
  BY FreshType DEF Init, TypeOK
<1>3. HeldIsLive /\ DeadIsFresh /\ FlagsTrue /\ EndingLive
  BY <1>1 DEF Init, HeldIsLive, DeadIsFresh, FlagsTrue, EndingLive, Fresh
<1>4. MemberHasArchive /\ ChildrenCounted /\ KeptHasChildren
  BY <1>1 DEF MemberHasArchive, ChildrenCounted, KeptHasChildren
<1> QED BY <1>2, <1>3, <1>4 DEF HandlesInv

----------------------------------------------------------------------------
\* A descriptor given to the application that is not a member of an archive.
LEMMA ReturnKeeps ==
  ASSUME HandlesInv, Call, NEW h \in Unused, NEW e \in ElfRec, NEW r \in SUBSET Resources,
         e.parent = None, e.act = 1, e.nch = 0, ~e.arh, e.file => "raw" \in r,
         "elf" \in r, Return(h, e, r)
  PROVE  HandlesInv'
<1>1. /\ h \in Handles /\ h \notin Live /\ elf[h] = Fresh
      /\ \A k \in Handles : elf[k].parent # h
  BY UnusedFacts
<1>2. TypeOK'
  BY <1>1 DEF HandlesInv, TypeOK, Return, Call
<1>3. /\ elf'[h] = e /\ res'[h] = r /\ own'[h] = 1
      /\ \A k \in Handles : k # h => elf'[k] = elf[k] /\ res'[k] = res[k] /\ own'[k] = own[k]
  BY <1>1 DEF HandlesInv, TypeOK, Return
<1>4. Live' = Live \cup {h}
  BY <1>1, <1>3 DEF Live
<1>5. \A a \in Handles : Children(a)' = Children(a)
  BY <1>1, <1>3, <1>4, HandlesAssumption DEF Children, Live
<1>6. Children(h) = {}
  BY <1>1 DEF Children, Live
<1>7. HeldIsLive'
  BY <1>3, <1>4 DEF HandlesInv, HeldIsLive
<1>8. DeadIsFresh' /\ FlagsTrue' /\ EndingLive'
  BY <1>3, <1>4 DEF HandlesInv, DeadIsFresh, FlagsTrue, EndingLive, Call
<1>9. MemberHasArchive'
  <2> SUFFICES ASSUME NEW k \in Live', elf'[k].parent # None
               PROVE  LET p == elf'[k].parent
                      IN  p \in Live' /\ elf'[p].kind = "AR" /\ (elf'[p].file => "raw" \in res'[p])
    BY DEF MemberHasArchive
  <2>1. k # h /\ k \in Live /\ elf'[k] = elf[k] /\ elf[k].parent # h
    BY <1>1, <1>3, <1>4 DEF Live
  <2> QED BY <2>1, <1>3, <1>4 DEF HandlesInv, MemberHasArchive, Live
<1>10. ChildrenCounted'
  <2> SUFFICES ASSUME NEW a \in Live', elf'[a].kind = "AR"
               PROVE  elf'[a].nch = Cardinality(Children(a)')
    BY DEF ChildrenCounted
  <2>1. CASE a = h
    BY <2>1, <1>1, <1>3, <1>5, <1>6, FS_EmptySet
  <2>2. CASE a # h
    BY <2>2, <1>3, <1>4, <1>5 DEF HandlesInv, ChildrenCounted, Live
  <2> QED BY <2>1, <2>2
<1>11. KeptHasChildren'
  <2> SUFFICES ASSUME NEW k \in Live', elf'[k].act = 0, k # cur'
               PROVE  Children(k)' # {}
    BY DEF KeptHasChildren
  <2>1. k # h /\ k \in Live /\ elf[k].act = 0 /\ k # cur
    BY <1>3, <1>4 DEF Live, Call
  <2> QED BY <2>1, <1>5 DEF HandlesInv, KeptHasChildren, Live
<1> QED BY <1>2, <1>7, <1>8, <1>9, <1>10, <1>11 DEF HandlesInv

\* An open that fails leaves memory that belongs to nobody, and the tree alone.
LEMMA AbandonKeeps ==
  ASSUME HandlesInv, Call, NEW h \in Unused, NEW r \in {{"elf"}, {"raw"}}, Abandon(h, r)
  PROVE  HandlesInv'
<1>1. /\ h \in Handles /\ h \notin Live /\ elf[h] = Fresh /\ own[h] = 0 /\ res[h] = {}
      /\ \A k \in Handles : elf[k].parent # h
  BY UnusedFacts
<1>2. TypeOK'
  BY <1>1, FreshType DEF HandlesInv, TypeOK, Abandon, Call, Resources
<1>3. /\ elf' = elf /\ own' = own /\ res'[h] = r
      /\ \A k \in Handles : k # h => res'[k] = res[k]
  BY <1>1 DEF HandlesInv, TypeOK, Abandon
<1>4. Live \subseteq Live' /\ Live' \subseteq Live \cup {h}
  BY <1>1, <1>3 DEF Live
<1>5. \A a \in Handles : Children(a)' = Children(a)
  BY <1>1, <1>3, <1>4, HandlesAssumption DEF Children, Live, Fresh
<1>6. HeldIsLive' /\ DeadIsFresh' /\ EndingLive'
  BY <1>3, <1>4 DEF HandlesInv, HeldIsLive, DeadIsFresh, EndingLive, Call
<1>7. FlagsTrue'
  BY <1>1, <1>3 DEF HandlesInv, FlagsTrue
<1>8. MemberHasArchive'
  <2> SUFFICES ASSUME NEW k \in Live', elf[k].parent # None
               PROVE  LET p == elf[k].parent
                      IN  p \in Live' /\ elf[p].kind = "AR" /\ (elf[p].file => "raw" \in res'[p])
    BY <1>3 DEF MemberHasArchive
  <2>1. k \in Live /\ elf[k].parent # h
    BY <1>1, <1>4 DEF Live, Fresh
  <2> QED BY <2>1, <1>3, <1>4 DEF HandlesInv, MemberHasArchive, Live
<1>9. ChildrenCounted' /\ KeptHasChildren'
  BY <1>1, <1>3, <1>4, <1>5 DEF HandlesInv, ChildrenCounted, KeptHasChildren, Live, Fresh, Call
<1> QED BY <1>2, <1>6, <1>7, <1>8, <1>9 DEF HandlesInv

\* A member keeps its archive, which counts it.
LEMMA OpenMemberKeeps ==
  ASSUME HandlesInv, NEW h \in Handles, NEW a \in Handles, NEW what \in Contents,
         OpenMember(h, a, what)
  PROVE  HandlesInv'
<1>1. CASE Rejected(what, TRUE)
  BY <1>1, AbandonKeeps DEF OpenMember
<1>2. CASE ~Rejected(what, TRUE)
  <2> DEFINE e == [Fresh EXCEPT !.kind = Kind(what), !.parent = a]
  <2>1. /\ Call /\ h \in Unused /\ own[a] > 0 /\ elf[a].kind = "AR" /\ elf[a].cmd = "READ"
        /\ elf' = [elf EXCEPT ![h] = e, ![a] = Adopted(a)]
        /\ res' = [res EXCEPT ![h] = {"elf"}] /\ own' = [own EXCEPT ![h] = 1]
    BY <1>2 DEF OpenMember
  <2>2. /\ h \notin Live /\ elf[h] = Fresh /\ own[h] = 0 /\ res[h] = {}
        /\ \A k \in Handles : elf[k].parent # h
    BY <2>1, UnusedFacts
  <2>3. a \in Live /\ elf[a].act = own[a] /\ a # h /\ a # None
    BY <2>1, <2>2, HandlesAssumption DEF HandlesInv, HeldIsLive
  <2>4. e \in ElfRec /\ e.act = 1 /\ e.nch = 0 /\ e.parent = a /\ ~e.file /\ ~e.arh
    BY DEF Fresh, ElfRec, Kind
  <2>5. elf[a] \in ElfRec
    BY DEF HandlesInv, TypeOK
  <2>6. /\ Adopted(a) \in ElfRec /\ Adopted(a).nch = elf[a].nch + 1
        /\ Adopted(a).kind = elf[a].kind /\ Adopted(a).act = elf[a].act
        /\ Adopted(a).parent = elf[a].parent /\ Adopted(a).file = elf[a].file
        /\ Adopted(a).arh = elf[a].arh
    BY <2>5 DEF Adopted, ElfRec
  <2> HIDE DEF e
  <2>7. /\ elf'[h] = e /\ elf'[a] = Adopted(a)
        /\ \A k \in Handles : k # h /\ k # a => elf'[k] = elf[k]
        /\ \A k \in Handles : k # h => res'[k] = res[k] /\ own'[k] = own[k]
        /\ res'[h] = {"elf"} /\ own'[h] = 1
    BY <2>1, <2>3 DEF HandlesInv, TypeOK
  <2>8. TypeOK'
    BY <2>1, <2>4, <2>6 DEF HandlesInv, TypeOK, Call, Resources
  <2>9. Live' = Live \cup {h}
    BY <2>2, <2>7 DEF Live
  <2>10. \A k \in Handles : k # a => Children(k)' = Children(k)
    BY <2>2, <2>4, <2>6, <2>7, <2>9 DEF Children, Live
  <2>11. Children(a)' = Children(a) \cup {h} /\ h \notin Children(a)
    BY <2>2, <2>3, <2>4, <2>6, <2>7, <2>9 DEF Children, Live
  <2>12. HeldIsLive'
    BY <2>3, <2>4, <2>6, <2>7, <2>9 DEF HandlesInv, HeldIsLive
  <2>13. DeadIsFresh' /\ FlagsTrue' /\ EndingLive'
    <3>1. DeadIsFresh'
      BY <2>3, <2>7, <2>9 DEF HandlesInv, DeadIsFresh
    <3>2. FlagsTrue'
      BY <2>3, <2>4, <2>6, <2>7 DEF HandlesInv, FlagsTrue
    <3>3. EndingLive'
      BY <2>1 DEF EndingLive, Call
    <3> QED BY <3>1, <3>2, <3>3
  <2>14. MemberHasArchive'
    <3> SUFFICES ASSUME NEW k \in Live', elf'[k].parent # None
                 PROVE  LET p == elf'[k].parent
                        IN  p \in Live' /\ elf'[p].kind = "AR" /\ (elf'[p].file => "raw" \in res'[p])
      BY DEF MemberHasArchive
    <3>1. CASE k = h
      BY <3>1, <2>1, <2>3, <2>4, <2>6, <2>7, <2>9 DEF HandlesInv, FlagsTrue
    <3>2. CASE k # h
      <4>1. k \in Live /\ elf'[k].parent = elf[k].parent /\ elf[k].parent # h
        BY <3>2, <2>2, <2>6, <2>7, <2>9 DEF Live
      <4> QED BY <4>1, <2>6, <2>7, <2>9 DEF HandlesInv, MemberHasArchive, Live
    <3> QED BY <3>1, <3>2
  <2>15. ChildrenCounted'
    <3> SUFFICES ASSUME NEW k \in Live', elf'[k].kind = "AR"
                 PROVE  elf'[k].nch = Cardinality(Children(k)')
      BY DEF ChildrenCounted
    <3>1. CASE k = a
      <4>1. elf[a].nch = Cardinality(Children(a))
        BY <2>1, <2>3 DEF HandlesInv, ChildrenCounted
      <4>2. Cardinality(Children(a)') = Cardinality(Children(a)) + 1
        BY <2>11, ChildrenFinite, FS_AddElement
      <4> QED BY <3>1, <4>1, <4>2, <2>6, <2>7
    <3>2. CASE k = h
      <4>1. Children(h) = {}
        BY <2>2 DEF Children, Live
      <4> QED BY <3>2, <4>1, <2>3, <2>4, <2>7, <2>10, FS_EmptySet
    <3>3. CASE k # a /\ k # h
      BY <3>3, <2>7, <2>9, <2>10 DEF HandlesInv, ChildrenCounted, Live
    <3> QED BY <3>1, <3>2, <3>3
  <2>16. KeptHasChildren'
    <3> SUFFICES ASSUME NEW k \in Live', elf'[k].act = 0, k # cur'
                 PROVE  Children(k)' # {}
      BY DEF KeptHasChildren
    <3>1. k # h /\ k \in Live /\ k \in Handles
      BY <2>4, <2>7, <2>9 DEF Live
    <3>2. elf[k].act = 0
      BY <3>1, <2>6, <2>7
    <3>3. k # cur
      BY <2>1 DEF Call
    <3>4. Children(k) # {}
      BY <3>1, <3>2, <3>3 DEF HandlesInv, KeptHasChildren
    <3> QED BY <3>1, <3>4, <2>10, <2>11 DEF Live
  <2> QED BY <2>8, <2>12, <2>13, <2>14, <2>15, <2>16 DEF HandlesInv
<1> QED BY <1>1, <1>2

\* Every way of opening keeps the invariant.
LEMMA OpenKeeps ==
  ASSUME HandlesInv, NEW h \in Handles, Open(h) PROVE HandlesInv'
<1>1. CASE BeginWrite(h)
  <2> DEFINE e == [Fresh EXCEPT !.kind = "ELF", !.cmd = "WRITE"]
  <2>1. /\ e \in ElfRec /\ e.parent = None /\ e.act = 1 /\ e.nch = 0 /\ ~e.arh /\ ~e.file
    BY DEF Fresh, ElfRec
  <2>2. Call /\ h \in Unused /\ Return(h, e, {"elf"}) /\ {"elf"} \in SUBSET Resources
    BY <1>1 DEF BeginWrite, Resources
  <2> HIDE DEF e
  <2> QED BY <2>1, <2>2, ReturnKeeps
<1>2. ASSUME NEW what \in Contents, NEW rep \in BOOLEAN, OpenMemory(h, what, rep)
      PROVE  HandlesInv'
  <2> DEFINE e == [Fresh EXCEPT !.kind = Kind(what)]
  <2>1. /\ e \in ElfRec /\ e.parent = None /\ e.act = 1 /\ e.nch = 0 /\ ~e.arh /\ ~e.file
    BY DEF Fresh, ElfRec, Kind
  <2>2. /\ Call /\ h \in Unused /\ {"elf"} \in SUBSET Resources
        /\ Abandon(h, {"elf"}) \/ Return(h, e, {"elf"})
    BY <1>2 DEF OpenMemory, Resources
  <2> HIDE DEF e
  <2> QED BY <2>1, <2>2, ReturnKeeps, AbandonKeeps
<1>3. ASSUME NEW what \in Contents, NEW rep \in BOOLEAN, NEW c \in {"READ", "RDWR"},
             OpenFile(h, c, what, rep)
      PROVE  HandlesInv'
  <2> DEFINE e == [Fresh EXCEPT !.kind = Kind(what), !.cmd = c, !.file = TRUE]
  <2>1. /\ e \in ElfRec /\ e.parent = None /\ e.act = 1 /\ e.nch = 0 /\ ~e.arh
    BY DEF Fresh, ElfRec, Kind
  <2>2. /\ Call /\ h \in Unused /\ {"elf", "raw"} \in SUBSET Resources
        /\ Abandon(h, {"elf"}) \/ Abandon(h, {"raw"}) \/ Return(h, e, {"elf", "raw"})
    BY <1>3 DEF OpenFile, Resources
  <2> HIDE DEF e
  <2> QED BY <2>1, <2>2, ReturnKeeps, AbandonKeeps
<1> QED BY <1>1, <1>2, <1>3, OpenMemberKeeps DEF Open

----------------------------------------------------------------------------
\* A step of an open descriptor that leaves the tree and every file alone.
LEMMA SameTree ==
  ASSUME HandlesInv, cur = None, cur' = None, TypeOK', NEW h \in Live,
         \A k \in Handles : k # h => elf'[k] = elf[k] /\ own'[k] = own[k] /\ res'[k] = res[k],
         elf'[h].kind = elf[h].kind, elf'[h].parent = elf[h].parent,
         elf'[h].file = elf[h].file, elf'[h].nch = elf[h].nch,
         res[h] \subseteq res'[h], elf'[h].arh => "arhdr" \in res'[h],
         elf'[h].act = own'[h], own'[h] > 0
  PROVE  HandlesInv'
<1>1. h \in Handles /\ "elf" \in res'[h]
  BY DEF Live
<1>2. Live' = Live
  BY <1>1 DEF Live
<1>3. \A a \in Handles : Children(a)' = Children(a)
  BY <1>1, <1>2 DEF Children, Live
<1>4. HeldIsLive'
  BY <1>1, <1>2 DEF HandlesInv, HeldIsLive
<1>5. DeadIsFresh' /\ EndingLive'
  BY <1>1, <1>2 DEF HandlesInv, DeadIsFresh, EndingLive
<1>6. FlagsTrue'
  BY <1>1 DEF HandlesInv, FlagsTrue
<1>7. MemberHasArchive'
  <2> SUFFICES ASSUME NEW k \in Live, elf'[k].parent # None
               PROVE  LET p == elf'[k].parent
                      IN  p \in Live /\ elf'[p].kind = "AR" /\ (elf'[p].file => "raw" \in res'[p])
    BY <1>2 DEF MemberHasArchive
  <2>1. k \in Handles /\ elf'[k].parent = elf[k].parent
    BY DEF Live
  <2> DEFINE p == elf[k].parent
  <2>2. p \in Live /\ p \in Handles /\ elf[p].kind = "AR" /\ (elf[p].file => "raw" \in res[p])
    BY <2>1 DEF HandlesInv, MemberHasArchive, Live
  <2> QED BY <2>1, <2>2, <1>1
<1>8. ChildrenCounted'
  <2> SUFFICES ASSUME NEW a \in Live, elf'[a].kind = "AR"
               PROVE  elf'[a].nch = Cardinality(Children(a)')
    BY <1>2 DEF ChildrenCounted
  <2>1. a \in Handles /\ elf[a].kind = "AR" /\ elf'[a].nch = elf[a].nch
    BY DEF Live
  <2> QED BY <2>1, <1>3 DEF HandlesInv, ChildrenCounted
<1>9. KeptHasChildren'
  <2> SUFFICES ASSUME NEW k \in Live, elf'[k].act = 0 PROVE Children(k)' # {}
    BY <1>2 DEF KeptHasChildren
  <2>1. k \in Handles /\ k # h /\ elf[k].act = 0 /\ k # cur
    BY HandlesAssumption DEF Live
  <2> QED BY <2>1, <1>3 DEF HandlesInv, KeptHasChildren
<1> QED BY <1>4, <1>5, <1>6, <1>7, <1>8, <1>9 DEF HandlesInv

\* A descriptor with an activation is allocated.
LEMMA HeldFacts ==
  ASSUME HandlesInv, NEW h \in Handles, own[h] > 0
  PROVE  h \in Live /\ elf[h].act = own[h] /\ own[h] \in Nat /\ elf[h] \in ElfRec
         /\ res[h] \in SUBSET Resources
  BY DEF HandlesInv, HeldIsLive, TypeOK

\* Every use of an open descriptor keeps the invariant.
LEMMA UseKeeps ==
  ASSUME HandlesInv, NEW h \in Handles, Use(h) PROVE HandlesInv'
<1> USE DEF Call
<1>1. CASE Reopen(h)
  <2>1. own[h] > 0
    BY <1>1, HandlesAssumption DEF Reopen, HandlesInv, TypeOK
  <2>2. h \in Live /\ elf[h].act = own[h] /\ own[h] \in Nat /\ elf[h] \in ElfRec
    BY <2>1, HeldFacts
  <2>3. /\ Activated(elf[h]) \in ElfRec /\ Activated(elf[h]).act = elf[h].act + 1
        /\ Activated(elf[h]).kind = elf[h].kind /\ Activated(elf[h]).parent = elf[h].parent
        /\ Activated(elf[h]).file = elf[h].file /\ Activated(elf[h]).nch = elf[h].nch
        /\ Activated(elf[h]).arh = elf[h].arh
    BY <2>2 DEF Activated, ElfRec
  <2>4. TypeOK'
    BY <1>1, <2>2, <2>3 DEF Reopen, HandlesInv, TypeOK
  <2>5. /\ elf'[h] = Activated(elf[h]) /\ own'[h] = own[h] + 1 /\ res' = res
        /\ \A k \in Handles : k # h => elf'[k] = elf[k] /\ own'[k] = own[k]
    BY <1>1 DEF Reopen, HandlesInv, TypeOK
  <2>6. elf[h].arh => "arhdr" \in res[h]
    BY DEF HandlesInv, FlagsTrue
  <2>7. cur = None /\ cur' = None
    BY <1>1 DEF Reopen
  <2> QED BY <2>2, <2>3, <2>4, <2>5, <2>6, <2>7, SameTree
<1>2. CASE GetArhdr(h)
  <2>1. h \in Live /\ elf[h].act = own[h] /\ own[h] > 0 /\ elf[h] \in ElfRec
        /\ res[h] \in SUBSET Resources
    BY <1>2, HeldFacts DEF GetArhdr
  <2> DEFINE e == [elf[h] EXCEPT !.arh = TRUE]
  <2>2. /\ e \in ElfRec /\ e.act = elf[h].act /\ e.kind = elf[h].kind /\ e.nch = elf[h].nch
        /\ e.parent = elf[h].parent /\ e.file = elf[h].file
    BY <2>1 DEF ElfRec
  <2>3. /\ elf' = [elf EXCEPT ![h] = e] /\ res' = [res EXCEPT ![h] = res[h] \cup {"arhdr"}]
        /\ own' = own /\ cur = None /\ cur' = None /\ freed' = {}
    BY <1>2 DEF GetArhdr
  <2> HIDE DEF e
  <2>4. TypeOK'
    BY <2>1, <2>2, <2>3 DEF HandlesInv, TypeOK, Resources
  <2>5. /\ elf'[h] = e /\ res'[h] = res[h] \cup {"arhdr"}
        /\ \A k \in Handles : k # h => elf'[k] = elf[k] /\ res'[k] = res[k]
    BY <2>3 DEF HandlesInv, TypeOK
  <2> QED BY <2>1, <2>2, <2>3, <2>4, <2>5, SameTree
<1>3. CASE GetArsym(h) \/ Load(h)
  <2>1. h \in Live /\ elf[h].act = own[h] /\ own[h] > 0 /\ res[h] \in SUBSET Resources
    BY <1>3, HeldFacts DEF GetArsym, Load
  <2>2. PICK x \in {"symtab", "scns"} : res' = [res EXCEPT ![h] = res[h] \cup {x}]
    BY <1>3 DEF GetArsym, Load
  <2>3. elf' = elf /\ own' = own /\ cur = None /\ cur' = None /\ freed' = {}
    BY <1>3 DEF GetArsym, Load
  <2>4. TypeOK'
    BY <2>1, <2>2, <2>3 DEF HandlesInv, TypeOK, Resources
  <2>5. /\ res[h] \subseteq res'[h]
        /\ \A k \in Handles : k # h => res'[k] = res[k]
    BY <2>2 DEF HandlesInv, TypeOK
  <2>6. elf[h].arh => "arhdr" \in res[h]
    BY DEF HandlesInv, FlagsTrue
  <2> QED BY <2>1, <2>3, <2>4, <2>5, <2>6, SameTree
<1> QED BY <1>1, <1>2, <1>3 DEF Use

----------------------------------------------------------------------------
\* elf_end takes one activation away.
LEMMA EndBeginKeeps ==
  ASSUME HandlesInv, NEW h \in Handles, EndBegin(h) PROVE HandlesInv'
<1> DEFINE e == [elf[h] EXCEPT !.act = @ - 1]
<1>1. /\ h \in Live /\ elf[h].act = own[h] /\ own[h] > 0 /\ own[h] \in Nat
      /\ elf[h] \in ElfRec
  BY HeldFacts DEF EndBegin
<1>2. /\ e \in ElfRec /\ e.act = elf[h].act - 1 /\ e.kind = elf[h].kind /\ e.nch = elf[h].nch
      /\ e.parent = elf[h].parent /\ e.file = elf[h].file /\ e.arh = elf[h].arh
  BY <1>1 DEF ElfRec
<1>3. /\ elf' = [elf EXCEPT ![h] = e] /\ own' = [own EXCEPT ![h] = own[h] - 1]
      /\ res' = res /\ cur = None /\ freed' = {}
      /\ cur' = IF elf[h].act = 1 THEN h ELSE None
  BY DEF EndBegin
<1> HIDE DEF e
<1>4. TypeOK'
  BY <1>1, <1>2, <1>3 DEF HandlesInv, TypeOK
<1>5. /\ elf'[h] = e /\ own'[h] = own[h] - 1
      /\ \A k \in Handles : k # h => elf'[k] = elf[k] /\ own'[k] = own[k]
  BY <1>3 DEF HandlesInv, TypeOK
<1>6. elf[h].arh => "arhdr" \in res[h]
  BY DEF HandlesInv, FlagsTrue
<1>7. CASE elf[h].act # 1
  BY <1>1, <1>2, <1>3, <1>4, <1>5, <1>6, <1>7, SameTree
<1>8. CASE elf[h].act = 1
  <2>1. Live' = Live /\ cur' = h /\ own'[h] = 0 /\ e.act = 0
    BY <1>1, <1>2, <1>3, <1>5, <1>8 DEF Live
  <2>2. \A a \in Handles : Children(a)' = Children(a)
    BY <1>2, <1>5, <2>1 DEF Children, Live
  <2>3. HeldIsLive' /\ DeadIsFresh' /\ EndingLive'
    BY <1>1, <1>5, <2>1 DEF HandlesInv, HeldIsLive, DeadIsFresh, EndingLive
  <2>4. FlagsTrue'
    BY <1>2, <1>3, <1>5 DEF HandlesInv, FlagsTrue
  <2>5. MemberHasArchive'
    <3> SUFFICES ASSUME NEW k \in Live, elf'[k].parent # None
                 PROVE  LET p == elf'[k].parent
                        IN  p \in Live /\ elf'[p].kind = "AR" /\ (elf'[p].file => "raw" \in res[p])
      BY <1>3, <2>1 DEF MemberHasArchive
    <3>1. k \in Handles /\ elf'[k].parent = elf[k].parent
      BY <1>2, <1>5 DEF Live
    <3> DEFINE p == elf[k].parent
    <3>2. p \in Live /\ p \in Handles /\ elf[p].kind = "AR" /\ (elf[p].file => "raw" \in res[p])
      BY <3>1 DEF HandlesInv, MemberHasArchive, Live
    <3> QED BY <3>1, <3>2, <1>2, <1>5
  <2>6. ChildrenCounted'
    <3> SUFFICES ASSUME NEW a \in Live, elf'[a].kind = "AR"
                 PROVE  elf'[a].nch = Cardinality(Children(a)')
      BY <2>1 DEF ChildrenCounted
    <3>1. a \in Handles /\ elf[a].kind = "AR" /\ elf'[a].nch = elf[a].nch
      BY <1>2, <1>5 DEF Live
    <3> QED BY <3>1, <2>2 DEF HandlesInv, ChildrenCounted
  <2>7. KeptHasChildren'
    <3> SUFFICES ASSUME NEW k \in Live, elf'[k].act = 0, k # h PROVE Children(k)' # {}
      BY <2>1 DEF KeptHasChildren
    <3>1. k \in Handles /\ elf[k].act = 0 /\ k # cur
      BY <1>3, <1>5, HandlesAssumption DEF Live
    <3> QED BY <3>1, <2>2 DEF HandlesInv, KeptHasChildren
  <2> QED BY <1>4, <2>3, <2>4, <2>5, <2>6, <2>7 DEF HandlesInv
<1> QED BY <1>7, <1>8

\* An archive with members is left for the last of them.
LEMMA EndDeferKeeps == ASSUME HandlesInv, EndDefer PROVE HandlesInv'
<1>1. /\ cur \in Live /\ cur \in Handles /\ elf[cur].kind = "AR" /\ elf[cur].nch > 0
      /\ cur' = None /\ freed' = {} /\ elf' = elf /\ res' = res /\ own' = own
  BY DEF EndDefer, Deferred, HandlesInv, EndingLive, Live
<1>2. Children(cur) # {}
  <2>1. elf[cur].nch = Cardinality(Children(cur))
    BY <1>1 DEF HandlesInv, ChildrenCounted
  <2>2. Cardinality(Children(cur)) # 0
    BY <1>1, <2>1
  <2> QED BY <2>2, FS_EmptySet
<1>3. Live' = Live /\ \A a : Children(a)' = Children(a)
  BY <1>1 DEF Children, Live
<1>4. KeptHasChildren'
  BY <1>1, <1>2, <1>3 DEF HandlesInv, KeptHasChildren
<1>5. EndingLive'
  BY <1>1 DEF EndingLive
<1>6. TypeOK' /\ HeldIsLive' /\ DeadIsFresh' /\ FlagsTrue'
  BY <1>1, <1>3 DEF HandlesInv, TypeOK, HeldIsLive, DeadIsFresh, FlagsTrue
<1>7. MemberHasArchive' /\ ChildrenCounted'
  BY <1>1, <1>3 DEF HandlesInv, MemberHasArchive, ChildrenCounted
<1> QED BY <1>4, <1>5, <1>6, <1>7 DEF HandlesInv

\* What is released has no members left, and all of it was allocated.
LEMMA ReleaseFacts ==
  ASSUME HandlesInv, EndRelease
  PROVE  /\ cur \in Live /\ cur \in Handles /\ elf[cur].act = 0 /\ own[cur] = 0
         /\ \A k \in Live : elf[k].parent # cur
         /\ Releases(cur) \subseteq res[cur] /\ "elf" \in Releases(cur)
<1>1. cur \in Live /\ cur \in Handles /\ elf[cur].act = 0
  BY DEF EndRelease, HandlesInv, EndingLive, Live
<1>2. own[cur] = 0
  BY <1>1 DEF HandlesInv, HeldIsLive, TypeOK
<1>3. ASSUME NEW k \in Live, elf[k].parent = cur PROVE FALSE
  <2>1. cur # None
    BY DEF EndRelease
  <2>2. elf[cur].kind = "AR"
    BY <1>3, <2>1 DEF HandlesInv, MemberHasArchive
  <2>3. elf[cur].nch = Cardinality(Children(cur))
    BY <1>1, <2>2 DEF HandlesInv, ChildrenCounted
  <2>4. Cardinality(Children(cur)) # 0
    BY <1>3, ChildrenFinite, FS_EmptySet DEF Children
  <2> QED BY <2>2, <2>3, <2>4, ChildrenFinite DEF EndRelease, Deferred
<1>4. "elf" \in res[cur] /\ (elf[cur].file => "raw" \in res[cur])
      /\ (elf[cur].arh => "arhdr" \in res[cur])
  BY <1>1 DEF Live, HandlesInv, FlagsTrue
<1>5. Releases(cur) \subseteq res[cur] /\ "elf" \in Releases(cur)
  BY <1>4 DEF Releases
<1> QED BY <1>1, <1>2, <1>3, <1>5

\* Releasing a descriptor takes it out of the tree; elf_end goes on to its archive
\* when nothing else keeps that.
LEMMA EndReleaseKeeps == ASSUME HandlesInv, EndRelease PROVE HandlesInv'
<1> DEFINE p == elf[cur].parent
           e == [elf[p] EXCEPT !.nch = @ - 1]
<1>1. /\ cur \in Live /\ cur \in Handles /\ elf[cur].act = 0 /\ own[cur] = 0
      /\ \A k \in Live : elf[k].parent # cur
      /\ Releases(cur) \subseteq res[cur] /\ "elf" \in Releases(cur)
  BY ReleaseFacts
<1>2. p # None => /\ p \in Live /\ p \in Handles /\ p # cur /\ elf[p].kind = "AR"
                  /\ elf[p] \in ElfRec /\ elf[p].nch = Cardinality(Children(p))
                  /\ (elf[p].file => "raw" \in res[p])
  BY <1>1 DEF HandlesInv, MemberHasArchive, ChildrenCounted, TypeOK, Live
<1>3. p # None => cur \in Children(p)
  BY <1>1 DEF Children
<1>4. p # None => Cardinality(Children(p)) > 0
  <2> SUFFICES ASSUME p # None PROVE Cardinality(Children(p)) > 0
    OBVIOUS
  <2>1. Cardinality(Children(p)) \in Nat /\ Cardinality(Children(p)) # 0
    BY <1>3, ChildrenFinite, FS_EmptySet
  <2> QED BY <2>1
<1>5. p # None => /\ e \in ElfRec /\ e.act = elf[p].act /\ e.kind = elf[p].kind
                  /\ e.nch = elf[p].nch - 1 /\ e.parent = elf[p].parent
                  /\ e.file = elf[p].file /\ e.arh = elf[p].arh
  <2> SUFFICES ASSUME p # None PROVE /\ e \in ElfRec /\ e.act = elf[p].act /\ e.kind = elf[p].kind
                  /\ e.nch = elf[p].nch - 1 /\ e.parent = elf[p].parent
                  /\ e.file = elf[p].file /\ e.arh = elf[p].arh
    OBVIOUS
  <2>1. elf[p] \in ElfRec /\ elf[p].nch > 0
    BY <1>2, <1>4
  <2> QED BY <2>1 DEF ElfRec
<1>6. /\ freed' = Releases(cur) \X {cur} /\ own' = own /\ cur' = Climb(p)
      /\ res' = [res EXCEPT ![cur] = @ \ Releases(cur)]
      /\ elf' = [h \in Handles |-> IF h = cur THEN Fresh ELSE IF h = p THEN e ELSE elf[h]]
  BY DEF EndRelease
<1>7. elf[cur].parent \in Handles \cup {None}
  BY <1>1 DEF HandlesInv, TypeOK, ElfRec
<1> HIDE DEF e, p
<1>8. /\ elf'[cur] = Fresh /\ (p # None => elf'[p] = e)
      /\ \A k \in Handles : k # cur /\ k # p => elf'[k] = elf[k]
  BY <1>1, <1>2, <1>6
<1>9. /\ res'[cur] = res[cur] \ Releases(cur)
      /\ \A k \in Handles : k # cur => res'[k] = res[k]
  BY <1>1, <1>6 DEF HandlesInv, TypeOK
<1>10. Live' = Live \ {cur}
  BY <1>1, <1>9 DEF Live
<1>11. \A k \in Handles : k # cur => elf'[k].parent = elf[k].parent /\ elf'[k].act = elf[k].act
                          /\ elf'[k].kind = elf[k].kind /\ elf'[k].file = elf[k].file
                          /\ elf'[k].arh = elf[k].arh
  BY <1>2, <1>5, <1>8, HandlesAssumption
<1>12. \A a \in Handles : Children(a)' = Children(a) \ {cur}
  BY <1>10, <1>11 DEF Children, Live
<1>13. \A a \in Handles : a # p => cur \notin Children(a)
  BY DEF Children, p
<1>14. TypeOK'
  <2>1. elf' \in [Handles -> ElfRec]
    BY <1>5, <1>6, FreshType, HandlesAssumption DEF HandlesInv, TypeOK
  <2>2. res' \in [Handles -> SUBSET Resources] /\ own' \in [Handles -> Nat]
    BY <1>6 DEF HandlesInv, TypeOK
  <2>3. cur' \in Handles \cup {None}
    BY <1>6, <1>7 DEF Climb, p
  <2>4. freed' \in SUBSET (Resources \X Handles)
    BY <1>1, <1>6 DEF HandlesInv, TypeOK
  <2> QED BY <2>1, <2>2, <2>3, <2>4 DEF TypeOK
<1>15. HeldIsLive'
  BY <1>1, <1>6, <1>10, <1>11 DEF HandlesInv, HeldIsLive
<1>16. DeadIsFresh'
  <2> SUFFICES ASSUME NEW k \in Handles, k \notin Live' PROVE elf'[k] = Fresh
    BY DEF DeadIsFresh
  <2>1. CASE k = cur
    BY <2>1, <1>8
  <2>2. CASE k # cur
    <3>1. k \notin Live /\ k # p
      BY <2>2, <1>2, <1>10, HandlesAssumption
    <3> QED BY <3>1, <2>2, <1>8 DEF HandlesInv, DeadIsFresh
  <2> QED BY <2>1, <2>2
<1>17. FlagsTrue'
  <2> SUFFICES ASSUME NEW k \in Handles
               PROVE  (elf'[k].file => "raw" \in res'[k]) /\ (elf'[k].arh => "arhdr" \in res'[k])
    BY DEF FlagsTrue
  <2>1. CASE k = cur
    BY <2>1, <1>8 DEF Fresh
  <2>2. CASE k # cur
    BY <2>2, <1>9, <1>11 DEF HandlesInv, FlagsTrue
  <2> QED BY <2>1, <2>2
<1>18. EndingLive'
  <2> SUFFICES ASSUME cur' # None PROVE cur' \in Live' /\ elf'[cur'].act = 0
    BY DEF EndingLive
  <2>1. cur' = p /\ p # None /\ elf[p].act = 0
    BY <1>6 DEF Climb
  <2> QED BY <2>1, <1>2, <1>5, <1>8, <1>10
<1>19. MemberHasArchive'
  <2> SUFFICES ASSUME NEW k \in Live', elf'[k].parent # None
               PROVE  LET q == elf'[k].parent
                      IN  q \in Live' /\ elf'[q].kind = "AR" /\ (elf'[q].file => "raw" \in res'[q])
    BY DEF MemberHasArchive
  <2> DEFINE q == elf[k].parent
  <2>1. k \in Live /\ k \in Handles /\ k # cur /\ elf'[k].parent = q /\ q # cur
    BY <1>1, <1>10, <1>11 DEF Live
  <2>2. q \in Live /\ q \in Handles /\ elf[q].kind = "AR" /\ (elf[q].file => "raw" \in res[q])
    BY <2>1 DEF HandlesInv, MemberHasArchive, Live
  <2> HIDE DEF q
  <2> QED BY <2>1, <2>2, <1>9, <1>10, <1>11
<1>20. ChildrenCounted'
  <2> SUFFICES ASSUME NEW a \in Live', elf'[a].kind = "AR"
               PROVE  elf'[a].nch = Cardinality(Children(a)')
    BY DEF ChildrenCounted
  <2>1. a \in Live /\ a \in Handles /\ a # cur /\ elf[a].kind = "AR"
    BY <1>10, <1>11 DEF Live
  <2>2. elf[a].nch = Cardinality(Children(a))
    BY <2>1 DEF HandlesInv, ChildrenCounted
  <2>3. CASE a = p
    <3>1. p # None
      BY <2>1, <2>3, HandlesAssumption
    <3>2. Cardinality(Children(p) \ {cur}) = Cardinality(Children(p)) - 1
      BY <3>1, <1>3, ChildrenFinite, FS_RemoveElement
    <3> QED BY <2>1, <2>2, <2>3, <3>1, <3>2, <1>5, <1>8, <1>12
  <2>4. CASE a # p
    <3>1. Children(a)' = Children(a)
      BY <2>1, <2>4, <1>12, <1>13
    <3> QED BY <2>1, <2>2, <2>4, <3>1, <1>8
  <2> QED BY <2>3, <2>4
<1>21. KeptHasChildren'
  <2> SUFFICES ASSUME NEW k \in Live', elf'[k].act = 0, k # cur' PROVE Children(k)' # {}
    BY DEF KeptHasChildren
  <2>1. k \in Live /\ k \in Handles /\ k # cur /\ elf[k].act = 0
    BY <1>10, <1>11 DEF Live
  <2>2. k # p
    BY <2>1, <1>6, HandlesAssumption DEF Climb
  <2>3. Children(k) # {}
    BY <2>1 DEF HandlesInv, KeptHasChildren
  <2> QED BY <2>1, <2>2, <2>3, <1>12, <1>13
<1> QED BY <1>14, <1>15, <1>16, <1>17, <1>18, <1>19, <1>20, <1>21 DEF HandlesInv

----------------------------------------------------------------------------
\* Every step keeps the invariant.
LEMMA HandlesNext == HandlesInv /\ [Next]_vars => HandlesInv'
<1> SUFFICES ASSUME HandlesInv, [Next]_vars PROVE HandlesInv'
  OBVIOUS
<1>1. ASSUME NEW h \in Handles, Open(h) \/ Use(h) \/ EndBegin(h) PROVE HandlesInv'
  BY <1>1, OpenKeeps, UseKeeps, EndBeginKeeps
<1>2. CASE EndDefer \/ EndRelease
  BY <1>2, EndDeferKeeps, EndReleaseKeeps
<1>3. CASE UNCHANGED vars
  BY <1>3 DEF vars, HandlesInv, TypeOK, HeldIsLive, DeadIsFresh, FlagsTrue, EndingLive,
     MemberHasArchive, ChildrenCounted, KeptHasChildren, Live, Children
<1> QED BY <1>1, <1>2, <1>3 DEF Next

\* Along every sequence of calls the invariant holds.
THEOREM HandlesInvariant == Spec => []HandlesInv
  BY HandlesInit, HandlesNext, PTL DEF Spec

\* A descriptor the application holds is never reclaimed: it is allocated, and has
\* as many activations as the application has to end (elf_begin, elf_end).
THEOREM HeldAlwaysLive == Spec => []HeldIsLive
<1>1. HandlesInv => HeldIsLive
  BY DEF HandlesInv
<1> QED BY <1>1, HandlesInvariant, PTL

\* Whatever order archives and members are ended in, an open member has its
\* archive and the bytes its contents are in (elf_end.c:68).
THEOREM MembersKeepArchive == Spec => []MemberHasArchive
<1>1. HandlesInv => MemberHasArchive
  BY DEF HandlesInv
<1> QED BY <1>1, HandlesInvariant, PTL

\* e_nchildren is the number of open members (libelf_ar.c, elf_end.c).
THEOREM ChildrenAlwaysCounted == Spec => []ChildrenCounted
<1>1. HandlesInv => ChildrenCounted
  BY DEF HandlesInv
<1> QED BY <1>1, HandlesInvariant, PTL

\* Nothing the application has let go of stays allocated for want of a call: when
\* elf_end returns, every descriptor without activations is an archive with
\* members.
THEOREM NothingEverKept == Spec => []NothingKept
<1>1. HandlesInv => NothingKept
  <2> SUFFICES ASSUME HandlesInv, cur = None, NEW h \in Live, elf[h].act = 0
               PROVE  Children(h) # {}
    BY DEF NothingKept
  <2>1. h # cur
    BY HandlesAssumption DEF Live
  <2> QED BY <2>1 DEF HandlesInv, KeptHasChildren
<1> QED BY <1>1, HandlesInvariant, PTL

\* elf_end never frees what is not allocated.
THEOREM OnlyAllocatedFreed == Spec => FreesOnlyAllocated
<1>1. HandlesInv /\ [Next]_vars => [\A x \in freed' : x[1] \in res[x[2]]]_vars
  <2> SUFFICES ASSUME HandlesInv, Next PROVE \A x \in freed' : x[1] \in res[x[2]]
    OBVIOUS
  <2>1. CASE EndRelease
    <3>1. freed' = Releases(cur) \X {cur} /\ Releases(cur) \subseteq res[cur]
      BY <2>1, ReleaseFacts DEF EndRelease
    <3> QED BY <3>1
  <2>2. CASE freed' = {}
    BY <2>2
  <2>3. freed' = {} \/ EndRelease
    BY DEF Next, Open, Use, BeginWrite, OpenFile, OpenMemory, OpenMember, Reopen, GetArhdr,
       GetArsym, Load, Call, EndBegin, EndDefer
  <2> QED BY <2>1, <2>2, <2>3
<1> QED BY <1>1, HandlesInvariant, PTL DEF Spec, FreesOnlyAllocated
=============================================================================
