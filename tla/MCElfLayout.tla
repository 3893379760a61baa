---------------------------- MODULE MCElfLayout ----------------------------
(***************************************************************************)
(* ElfLayout on small objects: a 4-byte executable header, 2-byte table    *)
(* entries, one byte-typed and one word-typed section type.                *)
(***************************************************************************)
EXTENDS ElfLayout

MCFAlign == "BYTE" :> 1 @@ "WORD" :> 2

\* A new object (ELF_C_WRITE).
NewObject == [cmd |-> "WRITE", rawsize |-> 0, phnum |-> 0, phoff |-> 0, shoff |-> 0,
              scn |-> <<>>]

FileScn(t, a, o, z) == [NoScn EXCEPT !.type = t, !.align = a, !.off = o, !.size = z,
                                     !.rawoff = o, !.soff = o, !.ssize = z]

\* A file of 18 bytes with two sections, the second one placed after a gap; and
\* one opened for reading only, which no update writes.
FileObject(c, scns) == [cmd |-> c, rawsize |-> 18, phnum |-> 0, phoff |-> 0, shoff |-> 12,
                        scn |-> <<NoScn>> \o scns]

NewObjects == {NewObject}
FileObjects == {FileObject("RDWR", <<FileScn("BYTE", 1, 4, 2), FileScn("WORD", 2, 8, 3)>>),
                FileObject("READ", <<FileScn("WORD", 2, 4, 3)>>)}

\* A new section of six bytes at offset 4, in three descriptors of two.
Piece(o) == [size |-> 2, align |-> 1, off |-> o, src |-> -1, buf |-> TRUE, fault |-> "none"]

PiecesObject(offs) ==
    [NewObject EXCEPT !.shoff = 12,
        !.scn = <<NoScn, [NoScn EXCEPT !.type = "BYTE", !.align = 1, !.off = 4, !.size = 6,
                                       !.dirty = TRUE, !.data = [j \in 1..3 |-> Piece(offs[j])]]>>]

\* With an overlap and a gap; and listed in another order.
PiecesObjects == {PiecesObject(<<0, 1, 4>>), PiecesObject(<<2, 0, 4>>)}

AllObjects == NewObjects \cup FileObjects \cup PiecesObjects
=============================================================================
