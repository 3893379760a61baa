---------------------------- MODULE SmallLinks ----------------------------
(***************************************************************************)
(* The files and command lines LdLoad is checked on.  Two archives need    *)
(* each other: a.o needs f, x.a(m1) defines f and needs g, y.a(n1) defines *)
(* g and needs h and j, x.a(m2) defines h, y.a(n2) defines j and comes     *)
(* before n1 in the index.  Both m1 and n1 hold the section group c, with  *)
(* the weak symbol i.                                                      *)
(***************************************************************************)
EXTENDS LdLoad

Needs(n) == [sym |-> NewSymbol(n), dflt |-> FALSE, group |-> NoGroup]
Defines(n) == [Needs(n) EXCEPT !.sym.shndx = "def"]
Inline(n, g) == [Needs(n) EXCEPT !.sym.shndx = "def", !.sym.bind = "weak", !.group = g]

Object(comdat, syms) == [arch |-> "amd64", dso |-> FALSE, comdat |-> comdat, syms |-> syms]
Entry(n, m) == [name |-> n, member |-> m]

SmallContents ==
    [f \in {"a.o", "d.o", "z.o", "l.so", "x.a", "y.a"} |->
        CASE f = "a.o"  -> Object({}, <<Needs("f")>>)
          [] f = "d.o"  -> Object({"c"}, <<Inline("i", "c"), Defines("f")>>)
          [] f = "z.o"  -> Object({}, <<Needs("f")>>)
          [] f = "l.so" -> [Object({}, <<Defines("f")>>) EXCEPT !.dso = TRUE]
          [] f = "x.a"  -> [index |-> <<Entry("h", "m2"), Entry("f", "m1"), Entry("i", "m1")>>,
                            members |-> [m \in {"m1", "m2"} |->
                                IF m = "m1"
                                THEN Object({"c"}, <<Defines("f"), Inline("i", "c"), Needs("g")>>)
                                ELSE Object({}, <<Defines("h")>>)]]
          [] f = "y.a"  -> [index |-> <<Entry("j", "n2"), Entry("g", "n1"), Entry("i", "n1")>>,
                            members |-> [m \in {"n1", "n2"} |->
                                IF m = "n1"
                                THEN Object({"c"}, <<Inline("i", "c"), Defines("g"), Needs("h"), Needs("j")>>)
                                ELSE Object({}, <<Defines("j")>>)]]]

SmallLibraries == [n \in {"l"} |-> [static |-> "x.a", dynamic |-> "l.so"]]

Item(op) == [op |-> op, arg |-> ""]
File(f) == [op |-> "file", arg |-> f]
Lib(n) == [op |-> "lib", arg |-> n]
U(n) == [op |-> "u", arg |-> n]

(***************************************************************************)
(* The command lines of a compiler driver: objects at both ends, groups of *)
(* archives in between, not nested, each file named once.                  *)
(***************************************************************************)
Middles(n) == UNION {[1..k -> {Item("("), Item(")"), File("x.a"), File("y.a"), File("d.o"),
                               File("l.so"), U("g"), U("i")}] : k \in 0..n}
Open(s, i) == Cardinality({j \in 1..i : s[j].op = "("})
              - Cardinality({j \in 1..i : s[j].op = ")"})
WellFormed(s) ==
    /\ \A i \in 1..Len(s) :
          /\ Open(s, i) \in {0, 1}
          /\ Open(s, i) = 1 /\ s[i].op = "file" => s[i].arg \in {"x.a", "y.a"}
    /\ Open(s, Len(s)) = 0
    /\ \A i, j \in 1..Len(s) : s[i] = s[j] /\ s[i].op \in {"file", "u"} => i = j

DriverLines(n) == {<<File("a.o")>> \o s \o <<File("z.o")>> : s \in {m \in Middles(n) : WellFormed(m)}}
ShortLines == DriverLines(3)

NoNames == <<>>
End == <<"i">>

GroupLast == {<<File("a.o"), Item("("), File("x.a"), File("y.a"), Item(")")>>}
GroupFirst == {<<U("f"), Item("("), File("x.a"), File("y.a"), Item(")"), File("z.o")>>}
LongDriverLines == DriverLines(5) \cup GroupFirst
GroupInGroup == {<<File("a.o"), Item("("), File("x.a"), Item("("), File("y.a"),
                   Item(")"), Item(")"), File("z.o")>>}
ArchiveTwice == {<<File("a.o"), File("x.a"), File("y.a"), File("x.a"), File("z.o")>>}
ArchiveFirst == {<<U("f"), File("x.a"), File("a.o")>>}
WholeArchive == {<<File("a.o"), Item("whole"), File("x.a"), Item("nowhole"), File("z.o")>>}
StaticLater == {<<File("a.o"), Lib("l"), Item("static"), File("z.o")>>}
=============================================================================
