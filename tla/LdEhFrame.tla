------------------------------ MODULE LdEhFrame ------------------------------
(***************************************************************************)
(* The .eh_frame sections of a link (ld_ehframe.c): FDEs of functions that *)
(* were discarded with their section group are cut out when relocations    *)
(* are read (ld_reloc.c), CIEs that an earlier section has too are dropped *)
(* before the layout, and after the relocation the search table of         *)
(* .eh_frame_hdr is made of what is left.                                  *)
(*                                                                         *)
(* The unit is four bytes, so a length, an identifier and a reference take *)
(* one each.  An entry has its number in the object in `from', which no    *)
(* step reads.  Lengths of eight bytes are left out, and so is a reference *)
(* to something discarded other than the start of an FDE.                  *)
(***************************************************************************)
EXTENDS Integers, Sequences, FiniteSets
LOCAL INSTANCE SequencesExt

CONSTANTS
    FrameJobs,    \* the links: [objs, hdr]; an object is [entries, align, gone]
    SymbolAt,     \* where a symbol ends up
    EhAddr,       \* and .eh_frame
    HdrAddr       \* and .eh_frame_hdr

VARIABLES
    frameJob,
    framePhase,   \* "load", "scan", "place", "write" or "done"
    frameAt,      \* the section that is next
    frames,       \* the sections: entries, relocations, FDEs found, is_reloff, is_shrink
    cieList,      \* ld_cie: the CIEs kept so far
    words,        \* what relocations wrote, by offset in the output section
    searchTable   \* the pairs of .eh_frame_hdr

frameVars == <<frameJob, framePhase, frameAt, frames, cieList, words, searchTable>>

LOCAL Start(es, k) == FoldLeft(LAMBDA acc, e : acc + e.size, 0, SubSeq(es, 1, k - 1))
LOCAL Length(es) == Start(es, Len(es) + 1)

-----------------------------------------------------------------------------
(* What the assembler wrote.  An FDE names its CIE by the distance from    *)
(* the word that says so.                                                  *)
Assembled(entries) ==
    [k \in DOMAIN entries |->
        LET e == entries[k]
        IN  [kind |-> e.kind, size |-> e.size, bytes |-> e.bytes, from |-> k, marked |-> FALSE,
             ptr |-> IF e.kind = "fde" THEN Start(entries, k) + 1 - Start(entries, e.cie) ELSE 0]]

\* Its relocations in the order of their offsets: the personality of a CIE,
\* the start of the function of an FDE and its language specific data.
References(entries) ==
    LET of(k) == LET e == entries[k]
                     at(n, sym, type) == [off |-> Start(entries, k) + n, sym |-> sym, type |-> type, from |-> <<k, sym>>]
                 IN  IF e.kind = "cie" THEN IF e.pers = "" THEN <<>> ELSE <<at(4, e.pers, "abs")>>
                     ELSE IF e.kind = "end" THEN <<>>
                     ELSE <<at(2, e.func, e.type)>> \o (IF e.lsda = "" THEN <<>> ELSE <<at(5, e.lsda, "abs")>>)
    IN  FlattenSeq([k \in DOMAIN entries |-> of(k)])

FrameInit ==
    /\ frameJob \in FrameJobs
    /\ framePhase = "load" /\ frameAt = 1
    /\ frames = [i \in DOMAIN frameJob.objs |->
                    [es |-> Assembled(frameJob.objs[i].entries), relocs |-> References(frameJob.objs[i].entries),
                     fdes |-> <<>>, reloff |-> 0, shrink |-> 0]]
    /\ cieList = <<>> /\ words = <<>> /\ searchTable = <<>>

-----------------------------------------------------------------------------
(* Reading the relocations of a section. *)

\* _discard_reloc: the FDE two words before is marked.  Called for a symbol
\* that was discarded.
DiscardReloc(s, at) ==
    LET k == SelectInSeq([i \in DOMAIN s.es |-> Start(s.es, i)], LAMBDA o : o = at - 2)
    IN  IF k = 0 \/ s.es[k].kind # "fde" THEN s
        ELSE [s EXCEPT !.es[k].marked = TRUE, !.shrink = @ + s.es[k].size]

\* _read_rel and _read_rela: what is left moves down by what was cut out.
ReadRelocs(s, gone) ==
    FoldLeft(LAMBDA acc, r : IF r.sym \in gone THEN DiscardReloc(acc, r.off)
                             ELSE [acc EXCEPT !.relocs = Append(@, [r EXCEPT !.off = @ - acc.shrink])],
             [s EXCEPT !.relocs = <<>>], s.relocs)

\* ld_ehframe_adjust: nothing follows the terminator.
EhframeAdjust(s) ==
    LET copy(acc, e) ==
            IF acc.over THEN acc
            ELSE IF e.kind = "end" THEN [acc EXCEPT !.over = TRUE, !.es = Append(@, e)]
            ELSE LET adjust == IF e.kind = "cie" THEN 0 ELSE acc.adjust
                 IN  IF e.marked THEN [acc EXCEPT !.adjust = adjust + e.size]
                     ELSE [acc EXCEPT !.adjust = adjust, !.es = Append(@, [e EXCEPT !.ptr = IF e.kind = "fde" THEN @ - adjust ELSE @])]
    IN  IF s.shrink = 0 THEN s
        ELSE [s EXCEPT !.es = FoldLeft(copy, [over |-> FALSE, adjust |-> 0, es |-> <<>>], s.es).es, !.shrink = 0]

LoadFrames ==
    /\ framePhase = "load"
    /\ frames' = [frames EXCEPT ![frameAt] = EhframeAdjust(ReadRelocs(@, frameJob.objs[frameAt].gone))]
    /\ IF frameAt < Len(frames) THEN frameAt' = frameAt + 1 /\ UNCHANGED framePhase
       ELSE frameAt' = 1 /\ framePhase' = "scan"
    /\ UNCHANGED <<frameJob, cieList, words, searchTable>>

-----------------------------------------------------------------------------
(* Dropping what an earlier section has. *)

\* _read_encoded: the bytes a value takes; an absolute pointer counts none.
EncodedLength(encoding) == CASE encoding = "udata4" -> 4 [] encoding = "pcrel" -> 4 [] OTHER -> 0

\* _parse_cie_augment: how the FDEs give the start of their function.
ParseAugment(bytes) ==
    LET one(acc, c) ==
            CASE acc.over -> acc
              [] c = "L" -> [acc EXCEPT !.at = @ + 1]
              [] c = "P" -> [acc EXCEPT !.at = @ + 1 + EncodedLength(bytes.data[acc.at])]
              [] c = "R" -> [acc EXCEPT !.at = @ + 1, !.encoding = bytes.data[acc.at]]
              [] OTHER -> [acc EXCEPT !.over = TRUE]
    IN  IF bytes.aug = <<>> \/ bytes.aug[1] # "z" THEN "absptr"
        ELSE FoldLeft(one, [at |-> 1, encoding |-> "absptr", over |-> FALSE], Tail(bytes.aug)).encoding

\* Where the CIE is that an FDE at off has: here, or in an earlier section.
CiePointer_Here(cie, off, reloff) == off + 1 - cie.off
CiePointer(cie, off, reloff) == IF cie.dup THEN off + 1 + reloff - cie.off ELSE off + 1 - cie.off

\* The first walk of _process_ehframe_section.
WalkEntries(s, list) ==
    LET step(acc, e) ==
            LET same == SelectInSeq(list, LAMBDA c : c.bytes = e.bytes /\ c.size = e.size)
                cie == [off |-> IF same # 0 THEN list[same].off ELSE acc.off, orig |-> acc.orig, size |-> e.size, bytes |-> e.bytes,
                        dup |-> same # 0, encoding |-> IF same # 0 THEN list[same].encoding ELSE ParseAugment(e.bytes)]
                mine == SelectInSeq(acc.cies, LAMBDA c : c.orig = acc.orig + 1 - e.ptr)
                past == [acc EXCEPT !.off = @ + e.size, !.orig = @ + e.size]
            IN  CASE acc.over \/ e.kind = "end" -> [acc EXCEPT !.over = TRUE, !.es = Append(@, e)]
                  [] e.kind = "cie" /\ same # 0 -> [acc EXCEPT !.orig = @ + e.size, !.cies = Append(@, cie)]
                  [] e.kind = "cie" /\ same = 0 -> [past EXCEPT !.es = Append(@, e), !.cies = Append(@, cie)]
                  [] e.kind = "fde" /\ mine = 0 -> [past EXCEPT !.es = Append(@, e)]
                  [] OTHER -> [past EXCEPT !.es = Append(@, [e EXCEPT !.ptr = CiePointer(acc.cies[mine], acc.off, s.reloff)]),
                                           !.fdes = Append(@, [off |-> acc.off, encoding |-> acc.cies[mine].encoding])]
    IN  FoldLeft(step, [over |-> FALSE, off |-> 0, orig |-> 0, es |-> <<>>, cies |-> <<>>, fdes |-> <<>>], s.es)

\* Its second part: relocations of what was dropped go, the others move.
MoveRelocs(relocs, cies) ==
    LET past(acc, c) ==
            CASE acc.over \/ acc.gone -> acc
              [] c.orig > acc.off -> [acc EXCEPT !.over = TRUE]
              [] ~c.dup -> acc
              [] acc.off < c.orig + c.size -> [acc EXCEPT !.gone = TRUE]
              [] OTHER -> [acc EXCEPT !.off = @ - c.size]
        moved(r) == FoldLeft(past, [over |-> FALSE, gone |-> FALSE, off |-> r.off], cies)
    IN  FoldLeft(LAMBDA acc, r : IF moved(r).gone THEN acc ELSE Append(acc, [r EXCEPT !.off = moved(r).off]), <<>>, relocs)

\* The whole of it; the caller counts the sections before without a gap.
ScanFrames ==
    /\ framePhase = "scan"
    /\ LET reloff == FoldLeft(LAMBDA acc, s : acc + Length(s.es), 0, SubSeq(frames, 1, frameAt - 1))
           s == [frames[frameAt] EXCEPT !.reloff = reloff]
           walk == WalkEntries(s, cieList)
           kept == SelectSeq(walk.cies, LAMBDA c : ~c.dup)
       IN  /\ frames' = [frames EXCEPT ![frameAt] =
                  [s EXCEPT !.es = walk.es, !.fdes = walk.fdes,
                            !.relocs = IF \E i \in DOMAIN walk.cies : walk.cies[i].dup THEN MoveRelocs(@, walk.cies) ELSE @]]
           /\ cieList' = cieList \o [i \in DOMAIN kept |-> [kept[i] EXCEPT !.off = @ + reloff]]
    /\ IF frameAt < Len(frames) THEN frameAt' = frameAt + 1 /\ UNCHANGED framePhase
       ELSE frameAt' = 1 /\ framePhase' = "place"
    /\ UNCHANGED <<frameJob, words, searchTable>>

-----------------------------------------------------------------------------
(* The layout, the relocation and the table. *)

\* _calc_output_section_offset gives each section its place again, aligned.
PlaceFrames ==
    /\ framePhase = "place"
    /\ LET up(n, a) == ((n + a - 1) \div a) * a
           add(acc, i) ==
               LET at == up(acc.loc, frameJob.objs[i].align)
               IN  IF frames[i].es = <<>> THEN [acc EXCEPT !.secs = Append(@, frames[i])]
                   ELSE [loc |-> at + Length(frames[i].es), secs |-> Append(acc.secs, [frames[i] EXCEPT !.reloff = at])]
       IN  frames' = FoldLeft(add, [loc |-> 0, secs |-> <<>>], [i \in DOMAIN frames |-> i]).secs
    /\ framePhase' = "write"
    /\ UNCHANGED <<frameJob, frameAt, cieList, words, searchTable>>

\* The word a relocation writes, relative to itself or not.
LOCAL Wrote(r, at) == SymbolAt[r.sym] - (IF r.type = "pc" THEN EhAddr + at ELSE 0)
LOCAL Word(w, at) == IF at \in DOMAIN w THEN w[at] ELSE 0

\* _copy_and_reloc_input_sections: later ones overwrite earlier ones.
RelocateFrames ==
    /\ framePhase = "write"
    /\ LET all == FlattenSeq([i \in DOMAIN frames |->
                      [k \in DOMAIN frames[i].relocs |-> [at |-> frames[i].reloff + frames[i].relocs[k].off, r |-> frames[i].relocs[k]]]])
       IN  words' = FoldLeft(LAMBDA w, x : [a \in DOMAIN w \cup {x.at} |-> IF a = x.at THEN Wrote(x.r, x.at) ELSE w[a]], <<>>, all)
    /\ framePhase' = IF frameJob.hdr THEN "header" ELSE "done"
    /\ UNCHANGED <<frameJob, frameAt, frames, cieList, searchTable>>

\* ld_ehframe_finalize_hdr: a relative start is taken from the beginning of .eh_frame.
FinalizeHdr ==
    /\ framePhase = "header"
    /\ LET entry(s, f) == <<Word(words, s.reloff + f.off + 2) + (IF f.encoding = "pcrel" THEN EhAddr ELSE 0) - HdrAddr,
                            EhAddr + s.reloff + f.off - HdrAddr>>
           all == FlattenSeq([i \in DOMAIN frames |-> [k \in DOMAIN frames[i].fdes |-> entry(frames[i], frames[i].fdes[k])]])
           put(acc, x) == LET k == SelectInSeq(acc, LAMBDA y : y[1] > x[1])
                          IN  IF k = 0 THEN Append(acc, x) ELSE InsertAt(acc, k, x)
       IN  searchTable' = FoldLeft(put, <<>>, all)
    /\ framePhase' = "done"
    /\ UNCHANGED <<frameJob, frameAt, frames, cieList, words>>

FrameNext == LoadFrames \/ ScanFrames \/ PlaceFrames \/ RelocateFrames \/ FinalizeHdr

-----------------------------------------------------------------------------
(* Entries of the output: the object and number they come from, where they *)
(* are.                                                                    *)
LOCAL Output(i, k) ==
    {frames[i].reloff + Start(frames[i].es, n) : n \in {m \in DOMAIN frames[i].es : frames[i].es[m].from = k}}

LOCAL CieAt(at) ==
    {<<i, k>> \in UNION {{i} \X DOMAIN frameJob.objs[i].entries : i \in DOMAIN frames} :
        frameJob.objs[i].entries[k].kind = "cie" /\ at \in Output(i, k)}

LOCAL PtrOf(i, k) == frames[i].es[CHOOSE n \in DOMAIN frames[i].es : frames[i].es[n].from = k].ptr

\* An unwinder that has found the FDE reads the words its producer meant it to read.
LOCAL Follows(i, k, at) ==
    LET e == frameJob.objs[i].entries[k]
        cie == frameJob.objs[i].entries[e.cie]
    IN  /\ Word(words, at + 2) + (IF e.type = "pc" THEN EhAddr + at + 2 ELSE 0) = SymbolAt[e.func]
        /\ e.lsda # "" => Word(words, at + 5) = SymbolAt[e.lsda]
        /\ LET there == at + 1 - PtrOf(i, k)
           IN  \E c \in CieAt(there) :
                   /\ frameJob.objs[c[1]].entries[c[2]].bytes = cie.bytes
                   /\ cie.pers # "" => Word(words, there + 4) = SymbolAt[cie.pers]

\* Where the relocations of what is in the output belong.
LOCAL Fields ==
    UNION {UNION {{at + n : n \in {r.off - Start(frameJob.objs[i].entries, r.from[1]) :
                                    r \in {x \in Range(References(frameJob.objs[i].entries)) : x.from[1] = k}}} :
                     at \in Output(i, k)} :
           <<i, k>> \in UNION {{j} \X DOMAIN frameJob.objs[j].entries : j \in DOMAIN frames}}

LOCAL Functions == {<<i, k>> \in UNION {{i} \X DOMAIN frameJob.objs[i].entries : i \in DOMAIN frames} :
                       frameJob.objs[i].entries[k].kind = "fde"}
LOCAL Stays(f) == frameJob.objs[f[1]].entries[f[2]].func \notin frameJob.objs[f[1]].gone

(* Every function linked has one FDE in the output, whose references, with *)
(* those of its CIE, lead to what they led to in the object, though what   *)
(* was before them was cut out, dropped, or shared with another object; a  *)
(* function discarded has none, no relocation is left of it, and the search*)
(* table finds each function (ld_ehframe.c).                               *)
FramesFollow ==
    framePhase = "done" =>
        /\ \A f \in Functions :
            IF Stays(f) THEN Cardinality(Output(f[1], f[2])) = 1 /\ \A at \in Output(f[1], f[2]) : Follows(f[1], f[2], at)
            ELSE Output(f[1], f[2]) = {}
        /\ DOMAIN words = Fields
        /\ frameJob.hdr =>
            /\ \A n \in 1..(Len(searchTable) - 1) : searchTable[n][1] < searchTable[n + 1][1]
            /\ {searchTable[n] : n \in DOMAIN searchTable} =
                   UNION {{<<SymbolAt[frameJob.objs[f[1]].entries[f[2]].func] - HdrAddr, EhAddr + at - HdrAddr>> :
                              at \in Output(f[1], f[2])} : f \in {g \in Functions : Stays(g)}}
=============================================================================
