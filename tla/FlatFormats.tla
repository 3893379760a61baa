----------------------------- MODULE FlatFormats -----------------------------
(***************************************************************************)
(* S-Records, Intel Hex and raw bytes in elfcopy(1), elfcopy/ascii.c and   *)
(* binary.c: an object is written as lines of hexadecimal bytes or as the  *)
(* bytes alone, and read back into an object with one section for each run *)
(* of addresses.  Between the two a line may be lost or one of its bytes   *)
(* changed.                                                                *)
(*                                                                         *)
(* A byte has Byte values (256 in the code), so that addresses of two,     *)
(* three and four bytes are small.  A line of bytes keeps its type apart;  *)
(* raw bytes are one line.                                                 *)
(***************************************************************************)
EXTENDS Integers, Sequences, FiniteSets

LOCAL INSTANCE SequencesExt

CONSTANTS
    Byte,
    LineLength,     \* the bytes of data in a line, 16 in the code
    Paragraph,      \* the unit of a segment address, 16 in the code
    Images          \* what is written, and how

VARIABLES
    image, text,
    page,           \* old_addr_hi of create_ihex
    at,             \* the section to write, the line to read
    harmed, got, stage

recordVars == <<image, text, page, at, harmed, got, stage>>

Addressable == Byte ^ 4
PageSpan == Byte ^ 2
PageOf(addr) == (addr \div PageSpan) % PageSpan

-----------------------------------------------------------------------------
\* write_num and read_num.
Digits(num, size) == [i \in 1..size |-> (num \div Byte ^ (size - i)) % Byte]
Number(bytes) == FoldLeft(LAMBDA n, b : n * Byte + b, 0, bytes)
Sum(bytes) == FoldLeft(LAMBDA n, b : (n + b) % Byte, 0, bytes)

AddrSize(type) == CASE type \in {0, 1, 5, 9} -> 2 [] type \in {2, 8} -> 3 [] OTHER -> 4

\* srec_write and ihex_write.
SrecLine(type, addr, data) ==
    LET body == <<AddrSize(type) + Len(data) + 1>> \o Digits(addr, AddrSize(type)) \o data
    IN [what |-> "S", type |-> type, bytes |-> Append(body, Byte - 1 - Sum(body))]

IhexLine(type, addr, data) ==
    LET body == <<Len(data)>> \o Digits(addr, 2) \o data
    IN [what |-> ":", type |-> type, bytes |-> Append(body, (Byte - Sum(Append(body, type))) % Byte)]

\* What a loop over a section puts into each line: where it begins, and the bytes.
Chunks(s, len) ==
    [i \in 1..((Len(s.data) + len - 1) \div len) |->
        [addr |-> s.addr + (i - 1) * len,
         data |-> SubSeq(s.data, (i - 1) * len + 1, IF i * len < Len(s.data) THEN i * len ELSE Len(s.data))]]

\* Mutant: the page is named once for a section.
IhexSection_OnePage(s) ==
    [i \in DOMAIN Chunks(s, LineLength) |-> IhexLine(0, Chunks(s, LineLength)[i].addr, Chunks(s, LineLength)[i].data)]

\* ihex_write_00: after a whole line, the page that comes next is named if it is another one.
IhexSection(s) ==
    LET lines(c) == <<IhexLine(0, c.addr, c.data)>>
                    \o IF Len(c.data) = LineLength /\ PageOf(c.addr + LineLength) # PageOf(c.addr)
                       THEN <<IhexLine(4, 0, Digits(PageOf(c.addr + LineLength), 2))>> ELSE <<>>
    IN FlattenSeq([i \in DOMAIN Chunks(s, LineLength) |-> lines(Chunks(s, LineLength)[i])])

-----------------------------------------------------------------------------
(* Writing.                                                                *)
Loaded(s) == s.load /\ s.data # <<>>
Greatest(S) == CHOOSE x \in S : \A y \in S : y <= x

\* create_srec: the type of the lines, from the addresses that sections begin at.
DataType ==
    LET top == Greatest({0} \cup {s.addr : s \in {s \in ToSet(image.secs) : Loaded(s)}})
    IN CASE image.force3 -> 3 [] top < PageSpan -> 1 [] top < Byte ^ 3 -> 2 [] OTHER -> 3

\* Its bytes of data: what --srec-len asks for, at least one and no more than the
\* count of a line can tell.
SrecLength ==
    CASE ~image.forceLen -> LineLength
      [] image.forceLen /\ image.len < 1 -> 1
      [] image.forceLen /\ image.len + DataType + 2 > Byte - 1 -> Byte - 1 - (DataType + 2)
      [] OTHER -> image.len

\* srec_write_symtab.
Listed(syms) == SelectSeq(syms, LAMBDA y : y.type \notin {"section", "file"})
SymbolListing ==
    LET mark == <<[what |-> "$$"]>>
    IN mark \o [i \in DOMAIN Listed(image.syms) |->
                   [what |-> "symbol", name |-> Listed(image.syms)[i].name, value |-> Listed(image.syms)[i].value]]
            \o mark

WriteHead ==
    /\ stage = "head" /\ stage' = "write"
    /\ text' = IF image.format = "ihex" THEN <<>>
               ELSE IF image.format = "binary" THEN <<[what |-> "raw", bytes |-> <<>>]>>
               ELSE (IF image.format = "symbolsrec" /\ image.syms # <<>> THEN SymbolListing ELSE <<>>)
                    \o <<SrecLine(0, 0, <<1, 2>>)>>
    /\ UNCHANGED <<image, page, at, harmed, got>>

\* create_binary: where the sections are in the file, from the first of them on.
FirstOffset == LET offs == {s.off : s \in {s \in ToSet(image.secs) : Loaded(s)}} IN CHOOSE o \in offs : \A p \in offs : o <= p

\* lseek and write: what is between was never written and is zero.
PutAt(bytes, off, data) ==
    [i \in 1..Greatest({Len(bytes), off + Len(data)}) |->
        IF i \in off + 1..off + Len(data) THEN data[i - off] ELSE IF i <= Len(bytes) THEN bytes[i] ELSE 0]

LinesOf(s) ==
    IF image.format = "ihex"
    THEN (IF PageOf(s.addr) > 0 /\ PageOf(s.addr) # page THEN <<IhexLine(4, 0, Digits(PageOf(s.addr), 2))>> ELSE <<>>)
         \o IhexSection(s)
    ELSE [i \in DOMAIN Chunks(s, SrecLength) |->
             SrecLine(DataType, Chunks(s, SrecLength)[i].addr, Chunks(s, SrecLength)[i].data)]

WriteLines ==
    /\ stage = "write" /\ at <= Len(image.secs) /\ at' = at + 1
    /\ LET s == image.secs[at]
       IN IF ~Loaded(s) THEN UNCHANGED <<text, page>>
          ELSE IF image.format = "binary"
          THEN /\ text' = [text EXCEPT ![1].bytes = PutAt(@, s.off - FirstOffset, s.data)]
               /\ UNCHANGED page
          ELSE IF s.addr >= Addressable THEN UNCHANGED <<text, page>>
          ELSE /\ text' = text \o LinesOf(s)
               /\ page' = IF image.format = "ihex" /\ PageOf(s.addr) > 0 THEN PageOf(s.addr) ELSE page
    /\ UNCHANGED <<image, harmed, got, stage>>

EntryType == CASE image.force3 -> 7 [] image.entry < PageSpan -> 9 [] image.entry < Byte ^ 3 -> 8 [] OTHER -> 7

WriteEnd ==
    /\ stage = "write" /\ at > Len(image.secs) /\ stage' = "written"
    /\ LET entry == IF image.format = "binary" \/ image.entry >= Addressable THEN <<>>
                    ELSE IF image.format = "ihex" THEN <<IhexLine(5, 0, Digits(image.entry, 4))>>
                    ELSE <<SrecLine(EntryType, image.entry, <<>>)>>
       IN text' = text \o entry \o IF image.format = "ihex" THEN <<IhexLine(1, 0, <<>>)>> ELSE <<>>
    /\ UNCHANGED <<image, page, at, harmed, got>>

(* The file on its way: a line is lost, or one byte of it but its count    *)
(* is another.                                                             *)
Harm ==
    /\ stage = "written" /\ ~harmed /\ harmed' = TRUE
    /\ \E k \in DOMAIN text :
          \/ text[k].what # "raw" /\ text' = RemoveAt(text, k)
          \/ /\ text[k].what \in {"S", ":"}
             /\ \E i \in 2..Len(text[k].bytes), b \in {1, Byte \div 2} : text' = [text EXCEPT ![k].bytes[i] = (@ + b) % Byte]
    /\ UNCHANGED <<image, page, at, got, stage>>

-----------------------------------------------------------------------------
(* Reading.                                                                *)
Bad == [ok |-> FALSE]

SrecRead(l) ==
    LET width == AddrSize(l.type)
        count == IF l.type <= 3 THEN l.bytes[1] - (width + 1) ELSE 0
        end == width + 1 + count
    IN IF l.what # "S" \/ end >= Len(l.bytes) \/ l.bytes[end + 1] # Byte - 1 - Sum(SubSeq(l.bytes, 1, end)) THEN Bad
       ELSE [ok |-> TRUE, type |-> l.type, addr |-> Number(SubSeq(l.bytes, 2, width + 1)),
             data |-> SubSeq(l.bytes, width + 2, end)]

IhexRead(l) ==
    LET count == l.bytes[1]
        end == 3 + count
    IN IF \/ l.what # ":" \/ end >= Len(l.bytes)
          \/ (l.type = 1 /\ count # 0) \/ (l.type \in {2, 4} /\ count # 2) \/ (l.type \in {3, 5} /\ count # 4)
          \/ Sum(Append(SubSeq(l.bytes, 1, end + 1), l.type)) # 0 THEN Bad
       ELSE [ok |-> TRUE, type |-> l.type, addr |-> Number(SubSeq(l.bytes, 2, 3)), data |-> SubSeq(l.bytes, 4, end)]

\* A line of data: a section is begun unless it goes on where the last one ended.
AddData(g, addr, data) ==
    IF data = <<>> THEN g
    ELSE [g EXCEPT !.next = addr + Len(data),
                   !.secs = IF @ = <<>> \/ g.next # addr THEN Append(@, [addr |-> addr, data |-> data])
                            ELSE Append(Front(@), [Last(@) EXCEPT !.data = @ \o data])]

\* create_elf_from_srec, the first scan; skip while in a list of symbols.
SrecScan(g, l) ==
    IF l.what = "$$" THEN [g EXCEPT !.skip = ~@, !.symtab = TRUE]
    ELSE IF g.skip \/ l.what = "symbol" \/ ~SrecRead(l).ok THEN g
    ELSE LET r == SrecRead(l) IN
         CASE r.type \in 1..3 -> AddData(g, r.addr, r.data)
           [] r.type \in 7..9 -> [g EXCEPT !.entry = r.addr]
           [] OTHER -> g

\* create_elf_from_ihex.  A segment address is taken from the wrong field.
IhexScan(g, l) ==
    LET r == IhexRead(l) IN
    IF ~r.ok THEN g
    ELSE CASE r.type = 0 -> AddData(g, g.base + r.addr, r.data)
           [] r.type = 1 -> [g EXCEPT !.eof = TRUE]
           [] r.type = 2 -> [g EXCEPT !.base = r.addr * Paragraph]
           [] r.type = 4 -> [g EXCEPT !.base = Number(r.data) * PageSpan]
           [] r.type = 5 -> [g EXCEPT !.entry = Number(r.data)]
           [] OTHER -> g

\* The second scan of create_elf_from_srec.
SymbolScan(g, l) ==
    IF l.what = "$$" THEN [g EXCEPT !.skip = ~@]
    ELSE IF g.skip /\ l.what = "symbol" THEN [g EXCEPT !.syms = Append(@, <<l.name, l.value>>)]
    ELSE g

\* create_elf_from_binary: one section, and symbols for its two ends and its size.
BinaryScan(g, l) ==
    [g EXCEPT !.secs = <<[addr |-> 0, data |-> l.bytes]>>,
              !.syms = <<<<"_start", 0>>, <<"_end", Len(l.bytes)>>, <<"_size", Len(l.bytes)>>>>]

NothingRead == [secs |-> <<>>, next |-> 0, base |-> 0, entry |-> 0, skip |-> FALSE, symtab |-> FALSE, eof |-> FALSE, syms |-> <<>>]

RecordInit ==
    /\ image \in Images /\ text = <<>> /\ page = 0 /\ at = 1
    /\ harmed = FALSE /\ got = NothingRead /\ stage = "head"

StartReading ==
    /\ stage = "written" /\ stage' = "read" /\ at' = 1
    /\ UNCHANGED <<image, text, page, harmed, got>>

ReadLine ==
    /\ stage = "read" /\ at <= Len(text) /\ ~got.eof
    /\ at' = at + 1
    /\ got' = CASE image.format = "ihex" -> IhexScan(got, text[at])
                [] image.format = "binary" -> BinaryScan(got, text[at])
                [] OTHER -> SrecScan(got, text[at])
    /\ UNCHANGED <<image, text, page, harmed, stage>>

EndReading ==
    /\ stage = "read" /\ (at > Len(text) \/ got.eof) /\ stage' = "done"
    /\ got' = IF got.symtab THEN FoldLeft(SymbolScan, [got EXCEPT !.skip = FALSE], text) ELSE got
    /\ UNCHANGED <<image, text, page, at, harmed>>

RecordNext == WriteHead \/ WriteLines \/ WriteEnd \/ Harm \/ StartReading \/ ReadLine \/ EndReading

RecordSpec == RecordInit /\ [][RecordNext]_recordVars

-----------------------------------------------------------------------------
BytesAt(secs) == {<<s.addr + i - 1, s.data[i]>> : <<s, i>> \in {<<s, i>> \in ToSet(secs) \X (1..64) : i <= Len(s.data)}}

Given == SelectSeq(image.secs, LAMBDA s : Loaded(s) /\ (image.format = "binary" \/ s.addr < Addressable))
InFile == [i \in DOMAIN Given |-> [Given[i] EXCEPT !.addr = Given[i].off - FirstOffset]]
SymbolsNamed(syms) == [i \in DOMAIN Listed(syms) |-> <<Listed(syms)[i].name, Listed(syms)[i].value>>]

\* What the formats can hold, as they are written: see the README.
Expressible ==
    CASE image.format = "binary" -> TRUE
      [] image.format = "ihex" -> \A i, k \in DOMAIN Given : i < k => Given[i].addr < Given[k].addr
      [] OTHER -> \A i \in DOMAIN Given : Given[i].addr + Len(Given[i].data) <= Byte ^ (DataType + 1)

\* What is written comes back, every byte at its address or, of raw bytes, as far
\* from the first as it was in the file, with the entry point and the symbols; and
\* a file of S-Records that was harmed gives no byte and no symbol that was not
\* written.  Of Intel Hex the same cannot be said: a line that names a page may be
\* missing (create_srec, create_ihex, create_binary and the functions that read).
FormatsComeBack ==
    stage = "done" /\ Expressible =>
        CASE image.format = "binary" ->
               LET read == got.secs[1].data IN
               /\ BytesAt(InFile) \subseteq BytesAt(got.secs)
               /\ \A i \in DOMAIN read : read[i] # 0 => <<i - 1, read[i]>> \in BytesAt(InFile)
               /\ \A i \in {1, 2, 3} : got.syms[i][2] = IF i = 1 THEN 0 ELSE Len(read)
          [] harmed -> image.format # "ihex" => /\ BytesAt(got.secs) \subseteq BytesAt(Given)
                                                /\ ToSet(got.syms) \subseteq ToSet(SymbolsNamed(image.syms))
          [] OTHER -> /\ BytesAt(got.secs) = BytesAt(Given)
                      /\ image.entry < Addressable => got.entry = image.entry
                      /\ image.format = "symbolsrec" => got.syms = SymbolsNamed(image.syms)
=============================================================================
