-------------------------- MODULE ElfCopyFileProofs --------------------------
EXTENDS ElfCopyFile, SequenceTheorems, TLAPS

(***************************************************************************)
(* Proofs about ElfCopyFile, for any files on the command line, any names  *)
(* on the disk and any archives: wherever elfcopy, strip or mcs stops, the *)
(* contents of the file it was editing in place are under one name or the  *)
(* other.  FileInv follows a file from phase to phase: which of its own    *)
(* name and the temporary one holds the old or the new contents, and that  *)
(* the files further on the command line are not touched yet.              *)
(***************************************************************************)

\* A job is in progress.
Working == job.phase \notin {"none", "exit", "uncopied"}
\* The file is there, as it was or as it shall be.
Whole(p) == disk[p] \in {"old", "new"}
\* What CasesAssumption says of the files on the command line, of those left.
FilesApart(fs, paths) ==
    /\ fs \in Seq({fs[k] : k \in DOMAIN fs})
    /\ \A k \in DOMAIN fs :
          /\ fs[k].path # Temp
          /\ fs[k].dst = "" => fs[k].path \in paths
          /\ fs[k].dst # "" =>
                /\ fs[k].dst # Temp
                /\ Len(fs) = 1 \/ (fs[k].otf = "ELF" /\ \A j \in DOMAIN fs : fs[j].path # fs[k].dst)

\* Where the contents are, in the phases of a job that works in place.
InPlaceInv ==
    /\ F.path \in DOMAIN disk
    /\ job.phase \in {"read", "sync", "write", "other"} => Whole(F.path) /\ disk[Temp] = "part"
    /\ job.phase = "convert" => Whole(F.path) /\ disk[Temp] = "elf"
    /\ job.phase = "move" => Whole(F.path) /\ disk[Temp] = "new"
    /\ job.phase = "copy" => disk[Temp] = "new"
    /\ job.phase = "unlink" => disk[F.path] = "new" /\ disk[Temp] = "new"
    /\ job.phase = "close" => disk[F.path] = "new" /\ disk[Temp] = "none"

\* A job that writes a second file is the last, or needs no temporary file and
\* touches no other.
SecondInv ==
    todo = <<>> \/ /\ F.otf = "ELF" /\ disk[Temp] = "none" /\ F.dst # Temp
                   /\ \A k \in DOMAIN todo : todo[k].path # F.dst
                   /\ job.phase \in {"read", "sync", "write", "move"}

\* The inductive invariant.
FileInv ==
    /\ job = [phase |-> job.phase, file |-> F, member |-> job.member]
    /\ job.phase \in {"none", "read", "sync", "write", "convert", "other", "move", "copy",
                      "unlink", "close", "exit", "uncopied"}
    /\ disk = [p \in DOMAIN disk |-> disk[p]] /\ Temp \in DOMAIN disk
    /\ FilesApart(todo, DOMAIN disk)
    /\ \A k \in DOMAIN todo :
          todo[k].dst = "" => Whole(todo[k].path) \/ (Working /\ InPlace /\ todo[k].path = F.path)
    /\ job.phase = "none" /\ todo # <<>> => disk[Temp] = "none"
    /\ job.phase \in {"exit", "uncopied"} => todo = <<>>
    /\ Working => F.path # Temp /\ (IF InPlace THEN InPlaceInv ELSE SecondInv)
    /\ job.phase = "exit" /\ InPlace => Whole(F.path) \/ disk[Temp] = "new"

\* Before the first job every file is as it was.
LEMMA InitFile == Init => FileInv
<1> SUFFICES ASSUME Init PROVE FileInv
  OBVIOUS
<1>1. PICK c \in Cases : /\ todo = c.files
                         /\ disk = [p \in c.paths \cup {Temp} |-> IF p \in c.present THEN "old" ELSE "none"]
  BY DEF Init
<1>2. job = [phase |-> "none", file |-> "none", member |-> 0]
  BY DEF Init, NoJob
<1>3. ASSUME NEW k \in DOMAIN todo
      PROVE  /\ todo[k].dst = "" => todo[k].path \in c.present /\ c.present \subseteq c.paths /\ Temp \notin c.paths
             /\ todo[k].path # Temp
             /\ todo[k].dst # "" =>
                  /\ todo[k].dst # Temp
                  /\ Len(todo) = 1 \/ (todo[k].otf = "ELF" /\ \A j \in DOMAIN todo : todo[j].path # todo[k].dst)
  BY <1>1, CasesAssumption
<1>4. FilesApart(todo, DOMAIN disk)
  BY <1>1, <1>3, CasesAssumption DEF FilesApart
<1>5. \A k \in DOMAIN todo : todo[k].dst = "" => disk[todo[k].path] = "old"
  BY <1>1, <1>3
<1>6. disk = [p \in DOMAIN disk |-> disk[p]] /\ Temp \in DOMAIN disk /\ disk[Temp] = "none"
  BY <1>1, CasesAssumption
<1>7. job = [phase |-> job.phase, file |-> F, member |-> job.member] /\ job.phase = "none"
  BY <1>2 DEF F
<1> QED BY <1>4, <1>5, <1>6, <1>7 DEF FileInv, Working, Whole

\* A sequence is one of its own elements.
LEMMA SeqOfOwn ==
    ASSUME NEW S, NEW s \in Seq(S)
    PROVE  s \in Seq({s[k] : k \in DOMAIN s})
<1>1. Len(s) \in Nat /\ DOMAIN s = 1..Len(s) /\ s = [k \in 1..Len(s) |-> s[k]]
  OBVIOUS
<1>2. \A k \in 1..Len(s) : s[k] \in {s[j] : j \in DOMAIN s}
  BY <1>1
<1>3. \A U : (\A k \in 1..Len(s) : s[k] \in U) => [k \in 1..Len(s) |-> s[k]] \in Seq(U)
  BY <1>1
<1> QED BY <1>1, <1>2, <1>3

\* Files further on the command line are as they were.
LEMMA RestApart ==
    ASSUME NEW fs, NEW paths, fs # <<>>, FilesApart(fs, paths)
    PROVE  /\ FilesApart(Tail(fs), paths) /\ Head(fs) = fs[1] /\ 1 \in DOMAIN fs
           /\ \A k \in DOMAIN Tail(fs) : k + 1 \in DOMAIN fs /\ Tail(fs)[k] = fs[k + 1]
           /\ Len(fs) = 1 => Tail(fs) = <<>>
<1> DEFINE S == {fs[k] : k \in DOMAIN fs}
<1>1. fs \in Seq(S)
  BY DEF FilesApart
<1> HIDE DEF S
<1>2. /\ Tail(fs) \in Seq(S) /\ Len(Tail(fs)) = Len(fs) - 1 /\ Len(fs) \in Nat /\ Len(fs) > 0
      /\ \A k \in 1..Len(Tail(fs)) : Tail(fs)[k] = fs[k + 1]
  BY <1>1, HeadTailProperties
<1>3. DOMAIN Tail(fs) = 1..Len(fs) - 1 /\ DOMAIN fs = 1..Len(fs)
  BY <1>1, <1>2
<1>4. /\ Head(fs) = fs[1] /\ 1 \in DOMAIN fs
      /\ \A k \in DOMAIN Tail(fs) : k + 1 \in DOMAIN fs /\ Tail(fs)[k] = fs[k + 1]
  BY <1>1, <1>2, <1>3
<1>5. Tail(fs) \in Seq({Tail(fs)[k] : k \in DOMAIN Tail(fs)})
  BY <1>2, SeqOfOwn, ZenonT(60)
<1>6. Len(fs) = 1 => Tail(fs) = <<>>
  <2>1. Tail(fs) # <<>> => Len(Tail(fs)) \in Nat \ {0}
    BY <1>2, EmptySeq
  <2> QED BY <1>2, <2>1
<1>7. ASSUME NEW k \in DOMAIN Tail(fs), Tail(fs)[k].dst # ""
      PROVE  Tail(fs)[k].otf = "ELF" /\ \A j \in DOMAIN Tail(fs) : Tail(fs)[j].path # Tail(fs)[k].dst
  <2>1. k + 1 \in DOMAIN fs /\ Tail(fs)[k] = fs[k + 1] /\ fs[k + 1].dst # ""
    BY <1>4, <1>7
  <2>2. Len(fs) # 1
    BY <1>2, <1>3
  <2>3. fs[k + 1].otf = "ELF" /\ \A j \in DOMAIN fs : fs[j].path # fs[k + 1].dst
    BY <2>1, <2>2 DEF FilesApart
  <2> QED BY <2>1, <2>3, <1>4
<1>8. \A k \in DOMAIN Tail(fs) :
          /\ Tail(fs)[k].path # Temp
          /\ Tail(fs)[k].dst = "" => Tail(fs)[k].path \in paths
          /\ Tail(fs)[k].dst # "" => Tail(fs)[k].dst # Temp
  BY <1>4 DEF FilesApart
<1> QED BY <1>4, <1>5, <1>6, <1>7, <1>8 DEF FilesApart

\* No file left.
LEMMA EmptyApart == DOMAIN <<>> = {} /\ \A paths : FilesApart(<<>>, paths)
<1>1. DOMAIN <<>> = {}
  OBVIOUS
<1> QED BY <1>1, EmptySeq DEF FilesApart

\* A step that leaves the files alone.
LEMMA SameBut ==
    ASSUME FileInv, UNCHANGED <<disk, todo>>, NEW n, job' = [phase |-> job.phase, file |-> F, member |-> n]
    PROVE  FileInv'
<1>1. job'.phase = job.phase /\ F' = F /\ InPlace' = InPlace /\ disk' = disk /\ todo' = todo
  BY DEF F, InPlace
<1>2. job' = [phase |-> job'.phase, file |-> F', member |-> job'.member]
  BY <1>1
<1>3. /\ InPlaceInv' <=> InPlaceInv
      /\ SecondInv' <=> SecondInv
  BY <1>1 DEF InPlaceInv, SecondInv, Whole
<1> QED BY <1>1, <1>2, <1>3 DEF FileInv, Working, Whole

\* Nor does a step that leaves the job alone too.
LEMMA SameAll == FileInv /\ UNCHANGED <<job, disk, todo>> => FileInv'
<1> SUFFICES ASSUME FileInv, UNCHANGED <<job, disk, todo>> PROVE FileInv'
  OBVIOUS
<1>1. job' = [phase |-> job.phase, file |-> F, member |-> job.member]
  BY DEF FileInv
<1> QED BY <1>1, SameBut

\* A process that ends while it works leaves the contents somewhere.
LEMMA EndsWhole ==
    ASSUME FileInv, Working, job' = [job EXCEPT !.phase = "exit"], todo' = <<>>, disk' = disk
    PROVE  FileInv'
<1>1. /\ job = [phase |-> job.phase, file |-> F, member |-> job.member]
      /\ disk = [q \in DOMAIN disk |-> disk[q]] /\ Temp \in DOMAIN disk
  BY DEF FileInv
<1>2. job' = [phase |-> "exit", file |-> F, member |-> job.member]
  BY <1>1
<1>3. job'.phase = "exit" /\ F' = F /\ InPlace' = InPlace
  BY <1>2 DEF F, InPlace
<1>4. InPlace => Whole(F.path) \/ disk[Temp] = "new"
  BY DEF FileInv, Working, InPlaceInv, Whole
<1> QED BY <1>1, <1>2, <1>3, <1>4, EmptyApart DEF FileInv, Working, Whole

\* A step of an archive job that leaves the files alone.
LEMMA SameFiles ==
    ASSUME FileInv, Working, UNCHANGED <<disk, todo>>, NEW ph, job' = [job EXCEPT !.phase = ph],
           (job.phase = "read" /\ ph = "sync") \/ (job.phase = "sync" /\ ph = "write")
    PROVE  FileInv'
<1>0. job = [phase |-> job.phase, file |-> F, member |-> job.member]
  BY DEF FileInv
<1>1. job' = [phase |-> ph, file |-> F, member |-> job.member]
  BY <1>0
<1>2. job'.phase = ph /\ F' = F /\ InPlace' = InPlace /\ disk' = disk /\ todo' = todo
  BY <1>1 DEF F, InPlace
<1>3. job' = [phase |-> job'.phase, file |-> F', member |-> job'.member]
  BY <1>1, <1>2
<1>4. InPlaceInv => InPlaceInv'
  BY <1>2 DEF InPlaceInv, Whole
<1>5. SecondInv => SecondInv'
  BY <1>2 DEF SecondInv
<1>6. \A k \in DOMAIN todo : todo[k].dst = "" => Whole(todo[k].path) \/ (InPlace /\ todo[k].path = F.path)
  BY DEF FileInv
<1> QED BY <1>2, <1>3, <1>4, <1>5, <1>6, ZenonT(60) DEF FileInv, Working, Whole

\* create_file starts on the next file: it is still as it was, and the temporary
\* file is new.
LEMMA OpenStep == ASSUME FileInv, OpenFiles PROVE FileInv'
<1> DEFINE f == Head(todo)
           p == IF f.dst = "" THEN Temp ELSE f.dst
<1>1. /\ job.phase = "none" /\ todo # <<>> /\ todo' = Tail(todo)
      /\ job' = [phase |-> "read", file |-> f, member |-> 1]
      /\ disk' = [disk EXCEPT ![p] = IF @ = "none" THEN "part" ELSE @]
  BY DEF OpenFiles
<1>2. FilesApart(todo, DOMAIN disk) /\ disk[Temp] = "none" /\ Temp \in DOMAIN disk
  BY <1>1 DEF FileInv
<1>3. /\ FilesApart(Tail(todo), DOMAIN disk) /\ f = todo[1] /\ 1 \in DOMAIN todo
      /\ \A k \in DOMAIN Tail(todo) : k + 1 \in DOMAIN todo /\ Tail(todo)[k] = todo[k + 1]
      /\ Len(todo) = 1 => Tail(todo) = <<>>
  BY <1>1, <1>2, RestApart
<1>4. job'.phase = "read" /\ F' = f /\ (InPlace' <=> f.dst = "")
  BY <1>1 DEF F, InPlace
<1>5. /\ f.path # Temp /\ (f.dst = "" => f.path \in DOMAIN disk /\ Whole(f.path))
      /\ f.dst # "" => /\ f.dst # Temp
                       /\ Tail(todo) = <<>> \/ (f.otf = "ELF" /\ \A j \in DOMAIN todo : todo[j].path # f.dst)
  BY <1>1, <1>2, <1>3 DEF FilesApart, FileInv, Working
<1> HIDE DEF f, p
<1>6. /\ disk' = [q \in DOMAIN disk' |-> disk'[q]] /\ DOMAIN disk' = DOMAIN disk
      /\ \A q \in DOMAIN disk : q # p => disk'[q] = disk[q]
      /\ p \in DOMAIN disk => disk'[p] = IF disk[p] = "none" THEN "part" ELSE disk[p]
  BY <1>1 DEF FileInv
<1>7. \A q : q \in DOMAIN disk /\ Whole(q) => Whole(q)'
  BY <1>6 DEF Whole
<1>8. FilesApart(todo', DOMAIN disk')
  BY <1>1, <1>3, <1>6
<1>9. ASSUME NEW k \in DOMAIN todo', todo'[k].dst = "" PROVE disk'[todo'[k].path] \in {"old", "new"}
  <2>1. todo'[k] = todo[k + 1] /\ k + 1 \in DOMAIN todo
    BY <1>1, <1>3, <1>9
  <2>2. Whole(todo[k + 1].path) /\ todo[k + 1].path \in DOMAIN disk
    BY <1>1, <1>2, <1>9, <2>1 DEF FileInv, FilesApart, Working
  <2> QED BY <2>1, <2>2, <1>7 DEF Whole
<1>0. job' = [phase |-> job'.phase, file |-> F', member |-> job'.member]
  BY <1>1, <1>4
<1>10. CASE f.dst = ""
  <2>1. p = Temp /\ disk'[Temp] = "part"
    BY <1>2, <1>6, <1>10 DEF p
  <2>2. InPlaceInv'
    BY <1>4, <1>5, <1>6, <1>7, <1>10, <2>1 DEF InPlaceInv
  <2> QED BY <1>0, <1>2, <1>4, <1>5, <1>6, <1>8, <1>9, <1>10, <2>2 DEF FileInv, Working, Whole
<1>11. CASE f.dst # ""
  <2>1. disk'[Temp] = "none"
    BY <1>2, <1>5, <1>6, <1>11 DEF p
  <2>2. SecondInv'
    BY <1>1, <1>3, <1>4, <1>5, <1>11, <2>1 DEF SecondInv
  <2> QED BY <1>0, <1>2, <1>4, <1>5, <1>6, <1>8, <1>9, <1>11, <2>2 DEF FileInv, Working, Whole
<1> QED BY <1>10, <1>11

\* What a step of a job at work that changes files keeps, if it changes none
\* that is still to be edited.
LEMMA ChangedFiles ==
    ASSUME FileInv, Working, todo' = todo, NEW ph, job' = [job EXCEPT !.phase = ph],
           disk' = [q \in DOMAIN disk |-> disk'[q]],
           \A q \in DOMAIN disk : disk'[q] # disk[q] => q \in {Temp, Target0},
           ph \in {"convert", "other", "move", "copy", "unlink", "close"},
           IF InPlace THEN InPlaceInv' ELSE SecondInv'
    PROVE  FileInv'
<1>0. job = [phase |-> job.phase, file |-> F, member |-> job.member]
  BY DEF FileInv
<1>1. job' = [phase |-> ph, file |-> F, member |-> job.member]
  BY <1>0
<1>2. job'.phase = ph /\ F' = F /\ InPlace' = InPlace /\ DOMAIN disk' = DOMAIN disk
  BY <1>1 DEF F, InPlace
<1>3. job' = [phase |-> job'.phase, file |-> F', member |-> job'.member]
  BY <1>1, <1>2
<1>4. FilesApart(todo', DOMAIN disk') /\ FilesApart(todo, DOMAIN disk)
  BY <1>2 DEF FileInv
<1>5. ASSUME NEW k \in DOMAIN todo, todo[k].dst = ""
      PROVE  disk'[todo[k].path] \in {"old", "new"} \/ (InPlace /\ todo[k].path = F.path)
  <2>1. todo[k].path \in DOMAIN disk /\ todo[k].path # Temp
    BY <1>4, <1>5 DEF FilesApart
  <2>2. disk[todo[k].path] \in {"old", "new"} \/ (InPlace /\ todo[k].path = F.path)
    BY <1>5 DEF FileInv, Whole
  <2>3. CASE InPlace
    BY <2>1, <2>2, <2>3 DEF Target0
  <2>4. CASE ~ InPlace
    <3>1. todo[k].path # F.dst
      <4>1. todo # <<>>
        BY EmptyApart
      <4>2. SecondInv'
        BY <2>4
      <4> QED BY <4>1, <4>2, <1>2 DEF SecondInv
    <3> QED BY <2>1, <2>2, <2>4, <3>1 DEF Target0
  <2> QED BY <2>3, <2>4
<1>6. F.path # Temp /\ Temp \in DOMAIN disk
  BY DEF FileInv
<1> QED BY <1>2, <1>3, <1>4, <1>5, <1>6 DEF FileInv, Working, Whole

\* Everything but the copy between two names is a step of this kind.
LEMMA JobStep ==
    ASSUME FileInv,
           WriteArchive \/ WriteObject \/ MakeSecondTemp \/ ConvertObject \/ Rename \/ Empty \/ CopyTemp \/ RemoveTemp
    PROVE  FileInv'
<1> DEFINE fresh(x) == [job EXCEPT !.phase = x]
<1>0. /\ job = [phase |-> job.phase, file |-> F, member |-> job.member]
      /\ disk = [q \in DOMAIN disk |-> disk[q]] /\ Temp \in DOMAIN disk
      /\ Working => F.path # Temp /\ (IF InPlace THEN InPlaceInv ELSE SecondInv)
  BY DEF FileInv
<1>a. ASSUME NEW x, job' = fresh(x) PROVE job'.phase = x /\ F' = F /\ InPlace' = InPlace
  <2>1. job' = [phase |-> x, file |-> F, member |-> job.member]
    BY <1>0, <1>a
  <2> QED BY <2>1 DEF F, InPlace
<1> HIDE DEF fresh
<1>1. CASE WriteArchive
  <2>1. /\ job.phase = "write" /\ job' = fresh("move") /\ todo' = todo
        /\ disk' = [disk EXCEPT ![OutPath] = IF @ = "old" THEN "tail" ELSE "new"]
    BY <1>1 DEF WriteArchive, fresh
  <2>2. OutPath \in {Temp, Target0} /\ (InPlace => OutPath = Temp) /\ (~ InPlace => OutPath = F.dst)
    BY <2>1 DEF OutPath, Target0
  <2>3. disk' = [q \in DOMAIN disk |-> disk'[q]] /\ \A q \in DOMAIN disk : disk'[q] # disk[q] => q = OutPath
    BY <1>0, <2>1
  <2>4. CASE InPlace
    <3>1. InPlaceInv /\ F.path # Temp
      BY <1>0, <2>1, <2>4 DEF Working
    <3>2. disk'[Temp] = "new" /\ disk'[F.path] = disk[F.path] /\ F.path \in DOMAIN disk'
      BY <1>0, <2>1, <2>2, <2>3, <2>4, <3>1 DEF InPlaceInv
    <3>3. InPlaceInv'
      BY <1>a, <2>1, <3>1, <3>2 DEF InPlaceInv, Whole
    <3> QED BY <2>1, <2>2, <2>3, <2>4, <3>3, ChangedFiles DEF Working, fresh
  <2>5. CASE ~ InPlace
    <3>1. SecondInv
      BY <1>0, <2>1, <2>5 DEF Working
    <3>2. SecondInv'
      BY <1>0, <1>a, <2>1, <2>2, <2>3, <2>5, <3>1 DEF SecondInv
    <3> QED BY <2>1, <2>2, <2>3, <2>5, <3>2, ChangedFiles DEF Working, fresh
  <2> QED BY <2>4, <2>5
<1>3. CASE MakeSecondTemp \/ ConvertObject
  <2> DEFINE x == IF job.phase = "convert" THEN "other" ELSE "move"
             v == IF job.phase = "convert" THEN "part" ELSE "new"
  <2>1. /\ job.phase \in {"convert", "other"} /\ job' = fresh(x) /\ todo' = todo
        /\ disk' = [disk EXCEPT ![Temp] = v]
    BY <1>3 DEF MakeSecondTemp, ConvertObject, fresh
  <2>3. /\ disk' = [q \in DOMAIN disk |-> disk'[q]] /\ disk'[Temp] = v
        /\ \A q \in DOMAIN disk : disk'[q] # disk[q] => q = Temp
    BY <1>0, <2>1
  <2>4. CASE InPlace
    <3>1. InPlaceInv /\ F.path # Temp
      BY <1>0, <2>1, <2>4 DEF Working
    <3>3. InPlaceInv'
      BY <1>a, <2>1, <2>3, <3>1 DEF InPlaceInv, Whole
    <3> QED BY <2>1, <2>3, <2>4, <3>3, ChangedFiles DEF Working, fresh
  <2>5. CASE ~ InPlace
    <3>1. todo = <<>>
      BY <1>0, <2>1, <2>5 DEF Working, SecondInv
    <3>2. SecondInv'
      BY <2>1, <3>1 DEF SecondInv
    <3> QED BY <2>1, <2>3, <2>5, <3>2, ChangedFiles DEF Working, fresh
  <2> QED BY <2>4, <2>5
<1>4. CASE Rename
  <2>1. /\ job.phase = "move" /\ job' = fresh("close") /\ todo' = todo /\ UsesTemp
        /\ disk' = [disk EXCEPT ![Target0] = disk[Temp], ![Temp] = "none"]
    BY <1>4 DEF Rename, fresh
  <2>3. /\ disk' = [q \in DOMAIN disk |-> disk'[q]] /\ disk'[Temp] = "none"
        /\ \A q \in DOMAIN disk : disk'[q] # disk[q] => q \in {Temp, Target0}
        /\ Target0 \in DOMAIN disk /\ Target0 # Temp => disk'[Target0] = disk[Temp]
    BY <1>0, <2>1
  <2>4. CASE InPlace
    <3>1. InPlaceInv /\ F.path # Temp /\ Target0 = F.path
      BY <1>0, <2>1, <2>4 DEF Working, Target0
    <3>2. F.path \in DOMAIN disk /\ disk[Temp] = "new"
      BY <2>1, <3>1 DEF InPlaceInv
    <3>3. InPlaceInv'
      BY <1>a, <2>1, <2>3, <3>1, <3>2 DEF InPlaceInv
    <3> QED BY <2>1, <2>3, <2>4, <3>3, ChangedFiles DEF Working, fresh
  <2>5. CASE ~ InPlace
    <3>1. todo = <<>> \/ F.otf = "ELF"
      BY <1>0, <2>1, <2>5 DEF Working, SecondInv
    <3>2. SecondInv'
      BY <2>1, <2>5, <3>1 DEF SecondInv, UsesTemp
    <3> QED BY <2>1, <2>3, <2>5, <3>2, ChangedFiles DEF Working, fresh
  <2> QED BY <2>4, <2>5
<1>5. CASE Empty
  <2>1. /\ job.phase = "move" /\ job' = fresh("copy") /\ todo' = todo /\ UsesTemp
        /\ disk' = [disk EXCEPT ![Target0] = IF KeepsInode THEN "part" ELSE "none"]
    BY <1>5 DEF Empty, fresh
  <2>3. /\ disk' = [q \in DOMAIN disk |-> disk'[q]]
        /\ \A q \in DOMAIN disk : disk'[q] # disk[q] => q = Target0
    BY <1>0, <2>1
  <2>4. CASE InPlace
    <3>1. InPlaceInv /\ F.path # Temp /\ Target0 = F.path
      BY <1>0, <2>1, <2>4 DEF Working, Target0
    <3>2. F.path \in DOMAIN disk /\ disk'[Temp] = "new"
      BY <1>0, <2>1, <2>3, <3>1 DEF InPlaceInv
    <3>3. InPlaceInv'
      BY <1>a, <2>1, <2>3, <3>1, <3>2 DEF InPlaceInv
    <3> QED BY <2>1, <2>3, <2>4, <3>3, ChangedFiles DEF Working, fresh
  <2>5. CASE ~ InPlace
    <3>1. SecondInv'
      BY <1>0, <2>1, <2>5 DEF Working, SecondInv, UsesTemp
    <3> QED BY <2>1, <2>3, <2>5, <3>1, ChangedFiles DEF Working, fresh
  <2> QED BY <2>4, <2>5
<1>6. CASE CopyTemp
  <2>1. job.phase = "copy" /\ job' = fresh("unlink") /\ todo' = todo /\ disk' = [disk EXCEPT ![Target0] = disk[Temp]]
    BY <1>6 DEF CopyTemp, fresh
  <2>3. /\ disk' = [q \in DOMAIN disk |-> disk'[q]]
        /\ \A q \in DOMAIN disk : disk'[q] # disk[q] => q = Target0
        /\ Target0 \in DOMAIN disk => disk'[Target0] = disk[Temp]
    BY <1>0, <2>1
  <2>4. CASE InPlace
    <3>1. InPlaceInv /\ F.path # Temp /\ Target0 = F.path
      BY <1>0, <2>1, <2>4 DEF Working, Target0
    <3>2. F.path \in DOMAIN disk /\ disk[Temp] = "new" /\ disk'[Temp] = "new"
      BY <1>0, <2>1, <2>3, <3>1 DEF InPlaceInv
    <3>3. InPlaceInv'
      BY <1>a, <2>1, <2>3, <3>1, <3>2 DEF InPlaceInv
    <3> QED BY <2>1, <2>3, <2>4, <3>3, ChangedFiles DEF Working, fresh
  <2>5. CASE ~ InPlace
    <3>1. SecondInv'
      BY <1>0, <2>1, <2>5 DEF Working, SecondInv
    <3> QED BY <2>1, <2>3, <2>5, <3>1, ChangedFiles DEF Working, fresh
  <2> QED BY <2>4, <2>5
<1>7. CASE RemoveTemp
  <2>1. job.phase = "unlink" /\ job' = fresh("close") /\ todo' = todo /\ disk' = [disk EXCEPT ![Temp] = "none"]
    BY <1>7 DEF RemoveTemp, fresh
  <2>3. /\ disk' = [q \in DOMAIN disk |-> disk'[q]] /\ disk'[Temp] = "none"
        /\ \A q \in DOMAIN disk : disk'[q] # disk[q] => q = Temp
    BY <1>0, <2>1
  <2>4. CASE InPlace
    <3>1. InPlaceInv /\ F.path # Temp
      BY <1>0, <2>1, <2>4 DEF Working
    <3>3. InPlaceInv'
      BY <1>a, <2>1, <2>3, <3>1 DEF InPlaceInv
    <3> QED BY <2>1, <2>3, <2>4, <3>3, ChangedFiles DEF Working, fresh
  <2>5. CASE ~ InPlace
    <3>1. SecondInv'
      BY <1>0, <2>1, <2>5 DEF Working, SecondInv
    <3> QED BY <2>1, <2>3, <2>5, <3>1, ChangedFiles DEF Working, fresh
  <2> QED BY <2>4, <2>5
<1>8. CASE WriteObject
  <2>1. /\ job.phase = "read" /\ todo' = todo
        /\ disk' = [disk EXCEPT ![OutPath] = IF @ # "part" THEN "part" ELSE IF F.otf = "ELF" THEN "new" ELSE "elf"]
        /\ IF disk[OutPath] = "part" THEN job' = fresh(IF F.otf = "ELF" THEN "move" ELSE "convert") ELSE job' = job
    BY <1>8 DEF WriteObject, fresh
  <2>2. OutPath \in {Temp, Target0} /\ (InPlace => OutPath = Temp) /\ (~ InPlace => OutPath = F.dst)
    BY <2>1 DEF OutPath, Target0
  <2>3. disk' = [q \in DOMAIN disk |-> disk'[q]] /\ \A q \in DOMAIN disk : disk'[q] # disk[q] => q = OutPath
    BY <1>0, <2>1
  <2>4. CASE InPlace
    <3>1. InPlaceInv /\ F.path # Temp /\ disk[Temp] = "part" /\ Whole(F.path) /\ F.path \in DOMAIN disk
      BY <1>0, <2>1, <2>4 DEF Working, InPlaceInv
    <3>2. /\ disk'[Temp] = IF F.otf = "ELF" THEN "new" ELSE "elf"
          /\ job' = fresh(IF F.otf = "ELF" THEN "move" ELSE "convert")
      BY <1>0, <2>1, <2>2, <2>3, <2>4, <3>1
    <3>3. InPlaceInv'
      BY <1>a, <2>2, <2>3, <2>4, <3>1, <3>2, ZenonT(60) DEF InPlaceInv, Whole
    <3> QED BY <2>1, <2>2, <2>3, <2>4, <3>2, <3>3, ChangedFiles DEF Working, fresh
  <2>5. CASE ~ InPlace
    <3>1. SecondInv
      BY <1>0, <2>1, <2>5 DEF Working
    <3>2. CASE disk[OutPath] = "part"
      <4>1. job' = fresh(IF F.otf = "ELF" THEN "move" ELSE "convert")
        BY <2>1, <3>2
      <4>2. SecondInv'
        BY <1>0, <1>a, <2>1, <2>2, <2>3, <2>5, <3>1, <4>1 DEF SecondInv
      <4> QED BY <2>1, <2>2, <2>3, <2>5, <4>1, <4>2, ChangedFiles DEF Working, fresh
    <3>3. CASE disk[OutPath] # "part"
      <4>1. job' = job /\ F' = F /\ InPlace' = InPlace
        BY <2>1, <3>3 DEF F, InPlace
      <4>2. SecondInv'
        BY <1>0, <2>1, <2>2, <2>3, <2>5, <3>1, <4>1 DEF SecondInv
      <4>3. \A k \in DOMAIN todo : todo[k].dst = "" => Whole(todo[k].path)'
        <5> SUFFICES ASSUME NEW k \in DOMAIN todo, todo[k].dst = ""
                     PROVE  disk'[todo[k].path] \in {"old", "new"}
          BY <2>1 DEF Whole
        <5>1. todo[k].path \in DOMAIN disk /\ disk[todo[k].path] \in {"old", "new"}
          BY <2>5 DEF FileInv, FilesApart, Whole
        <5>2. todo # <<>>
          BY EmptyApart
        <5>3. todo[k].path # F.dst
          BY <5>2, <3>1 DEF SecondInv
        <5> QED BY <5>1, <5>3, <2>2, <2>3, <2>5
      <4> QED BY <1>0, <2>1, <2>3, <2>5, <4>1, <4>2, <4>3 DEF FileInv, Working
    <3> QED BY <3>2, <3>3
  <2> QED BY <2>4, <2>5
<1> QED BY <1>1, <1>3, <1>4, <1>5, <1>6, <1>7, <1>8

\* The end of a job: the file it worked on is whole again, and the name of the
\* temporary file is free.
LEMMA CloseStep == ASSUME FileInv, CloseFiles PROVE FileInv'
<1>1. /\ job.phase = "close" \/ (job.phase = "move" /\ ~ UsesTemp)
      /\ job' = [phase |-> "none", file |-> "none", member |-> 0] /\ disk' = disk /\ todo' = todo
  BY DEF CloseFiles, NoJob
<1>2. Working /\ (IF InPlace THEN InPlaceInv ELSE SecondInv)
  BY <1>1 DEF Working, FileInv
<1>3. todo # <<>> => disk[Temp] = "none"
  BY <1>1, <1>2 DEF InPlaceInv, SecondInv, UsesTemp
<1>4. ASSUME NEW k \in DOMAIN todo, todo[k].dst = "" PROVE Whole(todo[k].path)
  BY <1>1, <1>2, <1>4 DEF FileInv, InPlaceInv, UsesTemp, Whole
<1>5. job'.phase = "none" /\ job' = [phase |-> job'.phase, file |-> F', member |-> job'.member]
  BY <1>1 DEF F
<1> QED BY <1>1, <1>3, <1>4, <1>5 DEF FileInv, Working, Whole

\* A fatal error or a crash ends everything; only a failed copy_from_tempfile
\* leaves a file that is not whole.
LEMMA EndStep == ASSUME FileInv, GiveUp \/ Crash \/ CopyFailure PROVE FileInv'
<1>1. CASE GiveUp \/ Crash
  BY <1>1, EndsWhole DEF GiveUp, Crash, Working
<1>2. CASE CopyFailure
  <2>1. /\ job' = [job EXCEPT !.phase = "uncopied"] /\ todo' = <<>>
        /\ disk' = [disk EXCEPT ![Target0] = "part", ![Temp] = "none"]
    BY <1>2 DEF CopyFailure
  <2>2. /\ job = [phase |-> job.phase, file |-> F, member |-> job.member]
        /\ disk = [q \in DOMAIN disk |-> disk[q]] /\ Temp \in DOMAIN disk
    BY DEF FileInv
  <2>3. job' = [phase |-> "uncopied", file |-> F, member |-> job.member]
    BY <2>1, <2>2
  <2>4. job'.phase = "uncopied" /\ F' = F
    BY <2>3 DEF F
  <2>5. disk' = [q \in DOMAIN disk' |-> disk'[q]] /\ DOMAIN disk' = DOMAIN disk
    BY <2>1, <2>2
  <2> QED BY <2>1, <2>2, <2>3, <2>4, <2>5, EmptyApart DEF FileInv, Working
<1> QED BY <1>1, <1>2

\* Every step keeps the invariant.
LEMMA StepFile == FileInv /\ [Next]_fileVars => FileInv'
<1> SUFFICES ASSUME FileInv, [Next]_fileVars PROVE FileInv'
  OBVIOUS
<1>0. job = [phase |-> job.phase, file |-> F, member |-> job.member]
  BY DEF FileInv
<1>1. CASE OpenFiles
  BY <1>1, OpenStep
<1>2. CASE MakeElf
  <2>1. UNCHANGED <<job, disk, todo>>
    BY <1>2 DEF MakeElf
  <2> QED BY <2>1, SameAll
<1>3. CASE GiveUp \/ Crash \/ CopyFailure
  BY <1>3, EndStep
<1>4. CASE MemberDone
  <2>1. job.phase = "read" /\ UNCHANGED <<disk, todo>>
    BY <1>4 DEF MemberDone
  <2>2. CASE job' = [job EXCEPT !.phase = "sync"]
    BY <2>1, <2>2, SameFiles DEF Working
  <2>3. CASE job' = [job EXCEPT !.member = @ + 1]
    <3>1. job' = [phase |-> job.phase, file |-> F, member |-> job.member + 1]
      BY <1>0, <2>3
    <3> QED BY <2>1, <3>1, SameBut
  <2> QED BY <1>4, <2>2, <2>3 DEF MemberDone
<1>5. CASE SyncAr
  <2>1. job.phase = "sync" /\ disk' = disk
    BY <1>5 DEF SyncAr
  <2>2. CASE job' = [job EXCEPT !.phase = "exit"] /\ todo' = <<>>
    <3>1. Working
      BY <2>1 DEF Working
    <3> QED BY <2>1, <2>2, <3>1, EndsWhole
  <2>3. CASE job' = [job EXCEPT !.phase = "write"] /\ UNCHANGED todo
    BY <2>1, <2>3, SameFiles DEF Working
  <2> QED BY <1>5, <2>2, <2>3 DEF SyncAr
<1>6. CASE WriteArchive \/ WriteObject \/ MakeSecondTemp \/ ConvertObject \/ Rename \/ Empty \/ CopyTemp \/ RemoveTemp
  BY <1>6, JobStep
<1>7. CASE CloseFiles
  BY <1>7, CloseStep
<1>8. CASE UNCHANGED fileVars
  BY <1>8, SameAll DEF fileVars
<1> QED BY <1>1, <1>2, <1>3, <1>4, <1>5, <1>6, <1>7, <1>8 DEF Next

\* FileInv is an invariant of create_file and of the calls it makes, for any files.
THEOREM FileInvariant == Spec => []FileInv
<1> QED BY InitFile, StepFile, PTL DEF Spec

\* Wherever the process stops, the file edited is there, old or new, or its new
\* contents are complete in the temporary file; a failed copy excepted.
THEOREM NothingEverLost == Spec => []NothingLost
<1>1. FileInv => NothingLost
  BY DEF FileInv, NothingLost, Working, InPlaceInv, Whole
<1> QED BY <1>1, FileInvariant, PTL
=============================================================================
