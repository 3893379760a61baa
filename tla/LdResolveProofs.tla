-------------------------- MODULE LdResolveProofs --------------------------
(***************************************************************************)
(* Theorems about the symbol table of ld(1): for any names, versions and   *)
(* number of symbols, in any order, its keys are unique, the chain from    *)
(* any symbol that was read ends at an entry, which is a strong definition *)
(* if the chain has one, and chains that met stay together.                *)
(***************************************************************************)
EXTENDS LdResolve, SequenceTheorems, WellFoundedInduction, TLAPS

Codes == {"none", "tls", "multiple", "assert"}

Table == [lsb : Seq(Symbol), sym : SUBSET (Nat \ {0}),
          defver : [Names -> Versions \cup {Unversioned}], fatal : Codes]

Unique(l) ==
    \A i, j \in l.sym : Longname(l.lsb[i]) = Longname(l.lsb[j]) => i = j

\* A table whose entries are symbols that were read, each key once.
Good(l) == l \in Table /\ l.sym \subseteq 1..Len(l.lsb) /\ Unique(l)

\* x is q with other links, flags and sizes.
Like(q, x) ==
    /\ x \in Seq(Symbol) /\ Len(x) = Len(q)
    /\ \A k \in 1..Len(q) : Longname(x[k]) = Longname(q[k])

SameKeys(l, m) ==
    m \in Table /\ Like(l.lsb, m.lsb) /\ m.sym = l.sym /\ m.defver = l.defver

----------------------------------------------------------------------------
\* Replacing one symbol by one with the same key.
LEMMA Replaced ==
  ASSUME NEW q \in Seq(Symbol), NEW i \in Nat, NEW x \in Symbol,
         i \in 1..Len(q) => Longname(x) = Longname(q[i])
  PROVE  Like(q, [q EXCEPT ![i] = x])
<1>1. CASE i \in 1..Len(q)
  BY <1>1, ExceptSeq DEF Like
<1>2. CASE i \notin 1..Len(q)
  <2>1. q = [k \in 1..Len(q) |-> q[k]] /\ DOMAIN q = 1..Len(q)
    BY LenProperties
  <2>2. [q EXCEPT ![i] = x] = q
    BY <1>2, <2>1
  <2> QED BY <2>2 DEF Like
<1> QED BY <1>1, <1>2

\* A change of a flag, a link or a size.
LEMMA ReplacedField ==
  ASSUME NEW q \in Seq(Symbol), NEW i \in Nat,
         NEW b \in BOOLEAN, NEW n \in Nat, NEW z \in Sizes \cup {0}
  PROVE  /\ Like(q, [q EXCEPT ![i] = [q[i] EXCEPT !.ref_dso = b]])
         /\ Like(q, [q EXCEPT ![i] = [q[i] EXCEPT !.ref_ndso = b]])
         /\ Like(q, [q EXCEPT ![i] = [q[i] EXCEPT !.prev = n]])
         /\ Like(q, [q EXCEPT ![i] = [q[i] EXCEPT !.ref = n]])
         /\ Like(q, [q EXCEPT ![i] = [q[i] EXCEPT !.size = z]])
<1>1. CASE i \in 1..Len(q)
  <2>1. q[i] \in Symbol
    BY <1>1, ElementOfSeq
  <2>2. \A x \in Symbol : Longname(x) = Longname(q[i]) => Like(q, [q EXCEPT ![i] = x])
    BY Replaced
  <2>3. /\ [q[i] EXCEPT !.ref_dso = b] \in Symbol
        /\ [q[i] EXCEPT !.ref_ndso = b] \in Symbol
        /\ [q[i] EXCEPT !.prev = n] \in Symbol
        /\ [q[i] EXCEPT !.ref = n] \in Symbol
        /\ [q[i] EXCEPT !.size = z] \in Symbol
    BY <2>1 DEF Symbol
  <2>4. /\ Longname([q[i] EXCEPT !.ref_dso = b]) = Longname(q[i])
        /\ Longname([q[i] EXCEPT !.ref_ndso = b]) = Longname(q[i])
        /\ Longname([q[i] EXCEPT !.prev = n]) = Longname(q[i])
        /\ Longname([q[i] EXCEPT !.ref = n]) = Longname(q[i])
        /\ Longname([q[i] EXCEPT !.size = z]) = Longname(q[i])
    BY <2>1 DEF Symbol, Longname
  <2> QED BY <2>2, <2>3, <2>4
<1>2. CASE i \notin 1..Len(q)
  <2>1. q = [k \in 1..Len(q) |-> q[k]] /\ DOMAIN q = 1..Len(q)
    BY LenProperties
  <2>2. \A x : [q EXCEPT ![i] = x] = q
    BY <1>2, <2>1
  <2> QED BY <2>2 DEF Like
<1> QED BY <1>1, <1>2

\* Updates compose.
LEMMA LikeTransitive ==
  ASSUME NEW p, NEW q, NEW r, Like(p, q), Like(q, r)
  PROVE  Like(p, r)
  BY DEF Like

\* _resolve_symbol links and marks symbols; it changes no key and no entry of
\* the table.
LEMMA ResolveSameKeys ==
  ASSUME NEW l \in Table, NEW o \in 1..Len(l.lsb), NEW s \in 1..Len(l.lsb)
  PROVE  SameKeys(l, ResolveSymbol(l, o, s))
<1> DEFINE q == l.lsb
           p == q[s].prev
           d == q[s].ref_dso \/ q[o].ref_dso
           n == q[s].ref_ndso \/ q[o].ref_ndso
           q1 == [q EXCEPT ![s] = [q[s] EXCEPT !.ref_dso = d]]
           q2 == [q1 EXCEPT ![s] = [q1[s] EXCEPT !.ref_ndso = n]]
           q3 == [q2 EXCEPT ![s] = [q2[s] EXCEPT !.prev = o]]
           q4 == [q3 EXCEPT ![o] = [q3[o] EXCEPT !.ref = s]]
           q5 == [q4 EXCEPT ![p] = [q4[p] EXCEPT !.ref = o]]
           q6 == [q5 EXCEPT ![o] = [q5[o] EXCEPT !.prev = p]]
<1>1. q \in Seq(Symbol) /\ o \in Nat /\ s \in Nat /\ q[s] \in Symbol /\ q[o] \in Symbol
  BY ElementOfSeq DEF Table
<1>2. p \in Nat /\ d \in BOOLEAN /\ n \in BOOLEAN
  BY <1>1 DEF Symbol
<1>3. ResolveSymbol(l, o, s) =
        IF o = s THEN [l EXCEPT !.fatal = "assert"]
        ELSE [l EXCEPT !.lsb = IF p = 0 THEN q4 ELSE q6]
  BY <1>1 DEF ResolveSymbol
<1> HIDE DEF d, n, p
<1>4. Like(q, q) /\ Like(q, q1)
  <2>1. Like(q, q)
    BY <1>1 DEF Like
  <2>2. Like(q, q1)
    BY <1>1, <1>2, ReplacedField
  <2> QED BY <2>1, <2>2
<1> HIDE DEF q1
<1>5. Like(q, q2)
  <2>1. q1 \in Seq(Symbol)
    BY <1>4 DEF Like
  <2>2. Like(q1, q2)
    BY <1>1, <1>2, <2>1, ReplacedField
  <2> QED BY <1>4, <2>2, LikeTransitive
<1> HIDE DEF q2
<1>6. Like(q, q3)
  <2>1. q2 \in Seq(Symbol)
    BY <1>5 DEF Like
  <2>2. Like(q2, q3)
    BY <1>1, <1>2, <2>1, ReplacedField
  <2> QED BY <1>5, <2>2, LikeTransitive
<1> HIDE DEF q3
<1>7. Like(q, q4)
  <2>1. q3 \in Seq(Symbol)
    BY <1>6 DEF Like
  <2>2. Like(q3, q4)
    BY <1>1, <1>2, <2>1, ReplacedField
  <2> QED BY <1>6, <2>2, LikeTransitive
<1> HIDE DEF q4
<1>8. Like(q, q5)
  <2>1. q4 \in Seq(Symbol)
    BY <1>7 DEF Like
  <2>2. Like(q4, q5)
    BY <1>1, <1>2, <2>1, ReplacedField
  <2> QED BY <1>7, <2>2, LikeTransitive
<1> HIDE DEF q5
<1>9. Like(q, q6)
  <2>1. q5 \in Seq(Symbol)
    BY <1>8 DEF Like
  <2>2. Like(q5, q6)
    BY <1>1, <1>2, <2>1, ReplacedField
  <2> QED BY <1>8, <2>2, LikeTransitive
<1> HIDE DEF q6
<1>10. [l EXCEPT !.fatal = "assert"] \in Table
  BY DEF Table, Codes
<1>11. \A x \in Seq(Symbol) : [l EXCEPT !.lsb = x] \in Table
  BY DEF Table
<1>12. q4 \in Seq(Symbol) /\ q6 \in Seq(Symbol)
  BY <1>7, <1>9 DEF Like
<1>13. CASE o = s
  BY <1>3, <1>4, <1>10, <1>13 DEF SameKeys, Table
<1>14. CASE o # s /\ p = 0
  BY <1>3, <1>7, <1>11, <1>12, <1>14 DEF SameKeys, Table
<1>15. CASE o # s /\ p # 0
  BY <1>3, <1>9, <1>11, <1>12, <1>15 DEF SameKeys, Table
<1> QED BY <1>13, <1>14, <1>15

----------------------------------------------------------------------------
\* Resolving, taking an entry out and changing a size keep the keys unique.
LEMMA SameKeysGood ==
  ASSUME NEW l, NEW m, Good(l), SameKeys(l, m)
  PROVE  Good(m)
  BY DEF Good, SameKeys, Like, Unique

\* HASH_DEL takes an entry out of the table.
LEMMA DeleteGood ==
  ASSUME NEW l, Good(l), NEW i
  PROVE  Good(Delete(l, i))
<1>1. Delete(l, i) \in Table /\ Delete(l, i).sym = l.sym \ {i}
      /\ Delete(l, i).lsb = l.lsb
  BY DEF Delete, Good, Table
<1> QED BY <1>1 DEF Good, Unique

\* The size of a common symbol is raised (ld_symbols.c:728).
LEMMA SizeGood ==
  ASSUME NEW l, Good(l), NEW i \in 1..Len(l.lsb), NEW z \in Sizes \cup {0}
  PROVE  Good([l EXCEPT !.lsb[i].size = z])
<1> DEFINE x == [l.lsb EXCEPT ![i] = [l.lsb[i] EXCEPT !.size = z]]
<1>1. l \in Table /\ l.lsb \in Seq(Symbol)
  BY DEF Good, Table
<1>2. Like(l.lsb, x)
  <2>1. i \in Nat /\ 0 \in Nat /\ TRUE \in BOOLEAN
    OBVIOUS
  <2> QED BY <1>1, <2>1, ReplacedField
<1>3. [l EXCEPT !.lsb[i].size = z] = [l EXCEPT !.lsb = x]
  BY <1>1 DEF Table
<1> HIDE DEF x
<1>4. x \in Seq(Symbol)
  BY <1>2 DEF Like
<1>5. SameKeys(l, [l EXCEPT !.lsb = x])
  BY <1>1, <1>2, <1>4 DEF SameKeys, Table
<1> QED BY <1>3, <1>5, SameKeysGood

\* A default version takes the place of the symbol without a version.
LEMMA JoinGood ==
  ASSUME NEW l, Good(l), NEW s \in 1..Len(l.lsb)
  PROVE  Good(JoinUnversioned(l, s))
<1> DEFINE plain == Find(l, <<l.lsb[s].name, Unversioned>>)
           o == CHOOSE i \in plain : TRUE
<1>1. plain \subseteq 1..Len(l.lsb)
  BY DEF Find, Good
<1>2. CASE l.defver[l.lsb[s].name] = Unversioned \/ plain = {}
  BY <1>2 DEF JoinUnversioned
<1>3. CASE ~(l.defver[l.lsb[s].name] = Unversioned \/ plain = {})
  <2>1. o \in plain
    BY <1>3
  <2>2. o \in 1..Len(l.lsb) /\ l \in Table
    BY <1>1, <2>1 DEF Good
  <2>3. JoinUnversioned(l, s) = IF o = s THEN ResolveSymbol(l, o, s)
                                ELSE Delete(ResolveSymbol(l, o, s), o)
    BY <1>3 DEF JoinUnversioned
  <2> HIDE DEF o
  <2>4. Good(ResolveSymbol(l, o, s))
    BY <2>2, ResolveSameKeys, SameKeysGood
  <2> QED BY <2>3, <2>4, DeleteGood
<1> QED BY <1>2, <1>3

----------------------------------------------------------------------------
\* The symbol just read takes the place of o, the only entry that may have its
\* key, or is left out of the table.
LEMMA SettleGood ==
  ASSUME NEW l, Good(l), NEW o \in l.sym, NEW s \in (1..Len(l.lsb)) \ l.sym,
         \A i \in l.sym : Longname(l.lsb[i]) = Longname(l.lsb[s]) => i = o
  PROVE  Good(Settle(l, o, s))
<1> DEFINE old == l.lsb[o]
           new == l.lsb[s]
           size == IF BothCommon(old, new) THEN Larger(old.size, new.size) ELSE 0
<1>1. l \in Table /\ l.lsb \in Seq(Symbol) /\ o \in 1..Len(l.lsb)
      /\ s \in 1..Len(l.lsb) /\ old \in Symbol /\ new \in Symbol
  BY ElementOfSeq DEF Good, Table
<1>2. size \in Sizes \cup {0}
  BY <1>1 DEF Symbol, Larger
<1>3. Good([l EXCEPT !.fatal = "tls"]) /\ Good([l EXCEPT !.fatal = "multiple"])
  BY <1>1 DEF Good, Table, Codes, Unique
<1>4. Good(PreferNew(l, o, s)) /\ s \in 1..Len(PreferNew(l, o, s).lsb)
  <2> DEFINE r == ResolveSymbol(l, o, s)
             p == PreferNew(l, o, s)
  <2>1. SameKeys(l, r)
    BY <1>1, ResolveSameKeys
  <2>2. p \in Table /\ p.lsb = r.lsb /\ p.sym = (r.sym \ {o}) \cup {s}
    <3>1. p = [Delete(r, o) EXCEPT !.sym = @ \cup {s}] /\ r \in Table
      BY <2>1 DEF PreferNew, SameKeys
    <3>2. s \in Nat \ {0}
      BY <1>1
    <3> HIDE DEF r, p
    <3> QED BY <3>1, <3>2 DEF Delete, Table
  <2>3. r.sym = l.sym /\ Len(r.lsb) = Len(l.lsb)
        /\ \A k \in 1..Len(l.lsb) : Longname(r.lsb[k]) = Longname(l.lsb[k])
    BY <2>1 DEF SameKeys, Like
  <2> HIDE DEF r, p
  <2>4. p.sym \subseteq 1..Len(p.lsb)
    BY <1>1, <2>2, <2>3 DEF Good
  <2>5. Unique(p)
    BY <1>1, <2>2, <2>3 DEF Good, Unique
  <2> QED BY <1>1, <2>2, <2>3, <2>4, <2>5 DEF Good, p
<1>5. Good(PreferOld(l, o, s)) /\ o \in 1..Len(PreferOld(l, o, s).lsb)
  <2>1. SameKeys(l, PreferOld(l, o, s))
    BY <1>1, ResolveSameKeys DEF PreferOld
  <2> QED BY <1>1, <2>1, SameKeysGood DEF SameKeys, Like
<1> HIDE DEF size
<1>6. /\ Good(JoinUnversioned(PreferNew(l, o, s), s))
      /\ Good([PreferNew(l, o, s) EXCEPT !.lsb[s].size = size])
      /\ Good([PreferOld(l, o, s) EXCEPT !.lsb[o].size = size])
  BY <1>2, <1>4, <1>5, JoinGood, SizeGood
<1> QED BY <1>3, <1>4, <1>5, <1>6 DEF Settle, size

\* A symbol whose key is not in the table enters it.
LEMMA EnterGood ==
  ASSUME NEW l, Good(l), NEW s \in Symbol,
         \A i \in l.sym : Longname(l.lsb[i]) # Longname(s)
  PROVE  Good([l EXCEPT !.lsb = Append(@, s), !.sym = @ \cup {Len(l.lsb) + 1}])
<1> DEFINE n == Len(l.lsb) + 1
           a == [l EXCEPT !.lsb = Append(@, s), !.sym = @ \cup {n}]
<1>1. l \in Table /\ l.lsb \in Seq(Symbol) /\ Len(l.lsb) \in Nat
      /\ l.sym \subseteq 1..Len(l.lsb) /\ Unique(l)
  BY LenProperties DEF Good, Table
<1>2. /\ Append(l.lsb, s) \in Seq(Symbol) /\ Len(Append(l.lsb, s)) = n
      /\ \A i \in 1..Len(l.lsb) : Append(l.lsb, s)[i] = l.lsb[i]
      /\ Append(l.lsb, s)[n] = s
  BY <1>1, AppendProperties
<1>3. n \in Nat \ {0} /\ \A i \in l.sym : i \in 1..n /\ i # n
  BY <1>1
<1>4. a \in Table /\ a.lsb = Append(l.lsb, s) /\ a.sym = l.sym \cup {n}
  BY <1>1, <1>2, <1>3 DEF Table
<1> HIDE DEF a, n
<1>5. Unique(a)
  BY <1>1, <1>2, <1>3, <1>4 DEF Unique
<1>6. Good(a)
  BY <1>2, <1>3, <1>4, <1>5 DEF Good
<1> QED BY <1>6 DEF a, n

\* _resolve_and_add_symbol.
LEMMA AddGood ==
  ASSUME NEW l, Good(l), NEW s \in Symbol
  PROVE  Good(ResolveAndAdd(l, s))
<1> DEFINE n == Len(l.lsb) + 1
           l1 == [l EXCEPT !.lsb = Append(@, s)]
           m == Match(l, s)
           o == CHOOSE i \in m : TRUE
<1>1. l \in Table /\ l.lsb \in Seq(Symbol) /\ Len(l.lsb) \in Nat
      /\ l.sym \subseteq 1..Len(l.lsb)
  BY LenProperties DEF Good, Table
<1>2. /\ Append(l.lsb, s) \in Seq(Symbol) /\ Len(Append(l.lsb, s)) = n
      /\ \A i \in 1..Len(l.lsb) : Append(l.lsb, s)[i] = l.lsb[i]
      /\ Append(l.lsb, s)[n] = s
  BY <1>1, AppendProperties
<1>3. /\ l1 \in Table /\ Len(l1.lsb) = n /\ l1.sym = l.sym /\ l1.lsb[n] = s
      /\ \A i \in l.sym : l1.lsb[i] = l.lsb[i]
  BY <1>1, <1>2 DEF Table
<1>4. m \subseteq l.sym
  BY DEF Match, Find
<1>5. \A i \in l.sym : Longname(l.lsb[i]) = Longname(s) => i \in m
  BY DEF Match, Find
<1>6. \A i \in l.sym, j \in m : Longname(l.lsb[i]) = Longname(s) => i = j
  BY DEF Good, Unique, Match, Find
<1>7. ResolveAndAdd(l, s) = IF m = {} THEN [l1 EXCEPT !.sym = @ \cup {n}]
                            ELSE Settle(l1, o, n)
  BY DEF ResolveAndAdd
<1>8. Unique(l)
  BY DEF Good
<1>9. Good(l1)
  BY <1>1, <1>3, <1>8 DEF Good, Unique
<1> HIDE DEF l1, m, n
<1>10. CASE m = {}
  <2>1. [l1 EXCEPT !.sym = @ \cup {n}]
            = [l EXCEPT !.lsb = Append(@, s), !.sym = @ \cup {Len(l.lsb) + 1}]
    BY <1>1 DEF l1, n, Table
  <2>2. \A i \in l.sym : Longname(l.lsb[i]) # Longname(s)
    BY <1>5, <1>10
  <2>3. Good([l EXCEPT !.lsb = Append(@, s), !.sym = @ \cup {Len(l.lsb) + 1}])
    BY <2>2, EnterGood
  <2> QED BY <1>7, <1>10, <2>1, <2>3
<1>11. CASE m # {}
  <2>1. o \in m
    BY <1>11
  <2>2. n \in (1..Len(l1.lsb)) \ l1.sym
    BY <1>1, <1>3 DEF n
  <2> HIDE DEF o
  <2>3. \A i \in l1.sym : Longname(l1.lsb[i]) = Longname(l1.lsb[n]) => i = o
    BY <1>3, <1>6, <2>1
  <2>4. o \in l1.sym
    BY <1>3, <1>4, <2>1
  <2> QED BY <1>7, <1>9, <1>11, <2>2, <2>3, <2>4, SettleGood
<1> QED BY <1>10, <1>11

----------------------------------------------------------------------------
\* The symbols of the inputs, of the options and of the linker.
LEMMA NewSymbolType ==
  ASSUME NEW n \in Names
  PROVE  /\ NewSymbol(n) \in Symbol
         /\ RegularSymbols(n) \subseteq Symbol
         /\ DsoSymbols(n) \subseteq Symbol
         /\ \A p \in BOOLEAN :
              [NewSymbol(n) EXCEPT !.shndx = "def", !.provide = p,
                                   !.ref_ndso = TRUE] \in Symbol
         /\ [NewSymbol(n) EXCEPT !.shndx = "def", !.bind = "local",
                                 !.ref_ndso = TRUE] \in Symbol
         /\ [NewSymbol(n) EXCEPT !.bind = "local"] \in Symbol
<1>1. NewSymbol(n) \in Symbol
  BY ConstantsAssumption DEF NewSymbol, Symbol
<1>2. RegularSymbols(n) \subseteq Symbol
  <2> DEFINE s == NewSymbol(n)
  <2>1. /\ [s EXCEPT !.type = "tls"] \in Symbol
        /\ \A z \in Sizes : [s EXCEPT !.shndx = "common", !.size = z] \in Symbol
        /\ \A b \in {"global", "weak"} : [s EXCEPT !.shndx = "def", !.bind = b] \in Symbol
    BY <1>1 DEF Symbol
  <2> HIDE DEF s
  <2>2. RegularSymbols(n) =
            {s, [s EXCEPT !.type = "tls"]}
            \cup {[s EXCEPT !.shndx = "common", !.size = z] : z \in Sizes}
            \cup {[s EXCEPT !.shndx = "def", !.bind = b] : b \in {"global", "weak"}}
    BY DEF RegularSymbols, s
  <2>3. s \in Symbol
    BY <1>1 DEF s
  <2> QED BY <2>1, <2>2, <2>3
<1>3. DsoSymbols(n) \subseteq Symbol
  <2> DEFINE d == [NewSymbol(n) EXCEPT !.dso = TRUE]
             V == Versions \cup {Unversioned}
             T == {"object", "func"}
             def(v, t) == [d EXCEPT !.shndx = "def", !.ver = v, !.type = t]
             A == {[d EXCEPT !.ver = v] : v \in V}
             B == {[d EXCEPT !.shndx = "common", !.size = z] : z \in Sizes}
             C == {def(v, t) : v \in V, t \in T}
  <2>1. DsoSymbols(n) = A \cup B \cup C
    BY DEF DsoSymbols
  <2>2. d \in Symbol
    BY <1>1 DEF Symbol
  <2> HIDE DEF d
  <2>3. /\ \A v \in V : [d EXCEPT !.ver = v] \in Symbol
        /\ \A z \in Sizes : [d EXCEPT !.shndx = "common", !.size = z] \in Symbol
    BY <2>2 DEF Symbol
  <2>4. \A v \in V, t \in T : def(v, t) \in Symbol
    BY <2>2 DEF Symbol
  <2> HIDE DEF def, V, T
  <2>5. C \subseteq Symbol
    BY <2>4
  <2>6. A \subseteq Symbol /\ B \subseteq Symbol
    BY <2>3
  <2> HIDE DEF A, B, C
  <2> QED BY <2>1, <2>5, <2>6
<1> QED BY <1>1, <1>2, <1>3 DEF Symbol

\* _add_elf_symbol records the default version and adds the symbol.
LEMMA ElfSymbolGood ==
  ASSUME NEW l, Good(l), NEW s \in Symbol, NEW dflt \in BOOLEAN, dflt => s.ver # Unversioned
  PROVE  Good(AddElfSymbol(l, s, dflt))
<1> DEFINE l1 == IF dflt /\ s.shndx # "undef"
                 THEN [l EXCEPT !.defver[s.name] = s.ver] ELSE l
           t == [s EXCEPT !.ref_dso = s.dso, !.ref_ndso = ~s.dso]
<1>1. Good(l1)
  BY DEF Good, Table, Symbol, Unique
<1>2. t \in Symbol
  BY DEF Symbol
<1>3. AddElfSymbol(l, s, dflt) = ResolveAndAdd(l1, t)
  BY DEF AddElfSymbol
<1> HIDE DEF l1, t
<1> QED BY <1>1, <1>2, <1>3, AddGood

\* The invariant: a table of symbols, at some stage of the link.
ResolveInv == Good(ld) /\ stage \in {"options", "load", "output"}

\* The empty table.
LEMMA ResolveInit == Init => ResolveInv
<1> SUFFICES ASSUME Init PROVE ResolveInv
  OBVIOUS
<1>1. ld = NoSymbols /\ stage = "options"
  BY DEF Init
<1>2. NoSymbols \in Table
  BY EmptySeq DEF NoSymbols, Table, Codes
<1> QED BY <1>1, <1>2 DEF ResolveInv, Good, Unique, NoSymbols

\* Every symbol of the options, the script, the inputs and the linker.
LEMMA ResolveStep == ResolveInv /\ [Next]_vars => ResolveInv'
<1> SUFFICES ASSUME ResolveInv, [Next]_vars PROVE ResolveInv'
  OBVIOUS
<1>0. Good(ld) /\ stage \in {"options", "load", "output"}
  BY DEF ResolveInv
<1>1. ASSUME NEW n \in Names, Extern(n) PROVE ResolveInv'
  <2>1. Find(ld, <<n, Unversioned>>) = {} /\ ld' = AddExtern(ld, n) /\ stage' = stage
    BY <1>1 DEF Extern
  <2> DEFINE s == [NewSymbol(n) EXCEPT !.bind = "local"]
  <2>2. s \in Symbol /\ Longname(s) = <<n, Unversioned>>
    BY NewSymbolType DEF Longname, NewSymbol
  <2>3. \A i \in ld.sym : Longname(ld.lsb[i]) # Longname(s)
    BY <2>1, <2>2 DEF Find
  <2>4. ld' = [ld EXCEPT !.lsb = Append(@, s), !.sym = @ \cup {Len(ld.lsb) + 1}]
    BY <2>1 DEF AddExtern
  <2> HIDE DEF s
  <2>5. Good(ld')
    BY <1>0, <2>2, <2>3, <2>4, EnterGood
  <2> QED BY <1>0, <2>1, <2>5 DEF ResolveInv, Good, Unique, Table
<1>2. ASSUME NEW n \in Names, NEW p \in BOOLEAN, Variable(n, p) PROVE ResolveInv'
  <2>1. ld' = AddVariable(ld, n, p) /\ stage' = stage
    BY <1>2 DEF Variable
  <2>2. Good(ld')
    BY <1>0, <2>1, AddGood, NewSymbolType DEF AddVariable
  <2> QED BY <1>0, <2>1, <2>2 DEF ResolveInv, Good, Unique, Table
<1>3. ASSUME NEW n \in Names, Regular(n) PROVE ResolveInv'
  <2>1. stage' = "load" /\ \E s \in RegularSymbols(n) : ld' = AddElfSymbol(ld, s, FALSE)
    BY <1>3 DEF Regular
  <2>2. Good(ld')
    BY <1>0, <2>1, ElfSymbolGood, NewSymbolType
  <2> QED BY <2>1, <2>2 DEF ResolveInv, Good, Unique, Table
<1>4. ASSUME NEW n \in Names, Dso(n) PROVE ResolveInv'
  <2>1. stage' = "load" /\ \E s \in DsoSymbols(n), dflt \in BOOLEAN :
                                (dflt => s.ver # Unversioned) /\ ld' = AddElfSymbol(ld, s, dflt)
    BY <1>4 DEF Dso
  <2>2. Good(ld')
    BY <1>0, <2>1, ElfSymbolGood, NewSymbolType
  <2> QED BY <2>1, <2>2 DEF ResolveInv, Good, Unique, Table
<1>5. ASSUME NEW n \in Names, Internal(n) PROVE ResolveInv'
  <2>1. ld' = AddInternal(ld, n) /\ stage' = "output"
    BY <1>5 DEF Internal
  <2>2. Good(ld')
    BY <1>0, <2>1, AddGood, NewSymbolType DEF AddInternal
  <2> QED BY <2>1, <2>2 DEF ResolveInv, Good, Unique, Table
<1>6. CASE UNCHANGED vars
  BY <1>0, <1>6 DEF vars, ResolveInv, Good, Unique, Table
<1> QED BY <1>1, <1>2, <1>3, <1>4, <1>5, <1>6 DEF Next

\* However the symbols come and are replaced, the table of ld is one: the
\* entries are symbols that were read and each key (a name with its version) has
\* at most one of them (_resolve_and_add_symbol, _add_symbol).
THEOREM KeysStayUnique == Spec => [](TypeOK /\ KeysUnique)
<1>1. ResolveInv => TypeOK /\ KeysUnique
  BY DEF ResolveInv, Good, Table, Unique, TypeOK, KeysUnique, Codes
<1> QED BY <1>1, ResolveInit, ResolveStep, PTL DEF Spec

----------------------------------------------------------------------------
(***************************************************************************)
(* Where the chains end.  lsb_ref makes a forest of the symbols; the roots *)
(* are what the table holds.  An order of the symbols in which lsb_ref     *)
(* goes down bounds the walk of ld_symbols_ref.                            *)
(***************************************************************************)

\* r numbers the symbols so that each link goes to a smaller number.
Order(q, r) ==
    /\ \A i \in 1..Len(q) : r[i] \in 0..Len(q) - 1
    /\ \A i, j \in 1..Len(q) : r[i] = r[j] => i = j
    /\ \A i \in 1..Len(q) : q[i].ref # 0 => q[i].ref \in 1..Len(q) /\ r[q[i].ref] < r[i]

\* lsb_prev, where it is set, is the other way of lsb_ref.
Chained(q) ==
    /\ \A i \in 1..Len(q) : q[i].prev # 0 => q[i].prev \in 1..Len(q) /\ q[q[i].prev].ref = i
    /\ \E r : Order(q, r)

\* The walk of ld_symbols_ref from symbol i, for up to n links.
Walk(q, n, i, w) ==
    w = [k \in 0..n |-> IF k = 0 THEN i
                        ELSE LET j == w[k - 1] IN IF q[j].ref = 0 THEN j ELSE q[j].ref]

\* Every nonempty set of natural numbers has a least element.
LEMMA Least ==
  ASSUME NEW T \in SUBSET Nat, T # {}
  PROVE  \E m \in T : \A k \in T : m <= k
<1> DEFINE R == OpToRel(<, Nat)
<1>1. IsWellFoundedOn(R, Nat)
  BY NatLessThanWellFounded
<1>2. PICK m \in T : \A k \in T : ~ (<<k, m>> \in R)
  <2> HIDE DEF R
  <2> QED BY <1>1, WFMin
<1>3. \A k \in T : ~ (k < m)
  BY <1>2 DEF OpToRel
<1> QED BY <1>3

\* There is such a walk.
LEMMA WalkExists ==
  ASSUME NEW q, NEW n \in Nat, NEW i
  PROVE  \E w : Walk(q, n, i, w)
<1> DEFINE Step(w, k) == IF k = 0 THEN i
                         ELSE LET j == w[k - 1] IN IF q[j].ref = 0 THEN j ELSE q[j].ref
           Bad == {m \in Nat : ~ \E w : Walk(q, m, i, w)}
<1> SUFFICES ASSUME Bad # {} PROVE FALSE
  BY ZenonT(60)
<1>1. PICK m \in Bad : \A k \in Bad : m <= k
  <2> HIDE DEF Bad
  <2>1. Bad \subseteq Nat BY DEF Bad
  <2> QED BY <2>1, Least
<1>2. m \in Nat
  OBVIOUS
<1>3. CASE m = 0
  <2> DEFINE w == [k \in 0..0 |-> i]
  <2>1. Walk(q, 0, i, w)
    BY DEF Walk
  <2> QED BY <2>1, <1>3
<1>4. CASE m # 0
  <2>1. m - 1 \in Nat /\ m - 1 < m
    BY <1>2, <1>4
  <2>2. m - 1 \notin Bad
    <3> HIDE DEF Bad
    <3> QED BY <2>1, <1>1, <1>2
  <2>3. PICK g : Walk(q, m - 1, i, g)
    BY <2>1, <2>2
  <2> DEFINE w == [k \in 0..m |-> IF k = m THEN Step(g, m) ELSE g[k]]
  <2>4. DOMAIN g = 0..m - 1 /\ \A k \in 0..m - 1 : g[k] = Step(g, k)
    BY <2>3, <2>1 DEF Walk
  <2>5. \A k \in 0..m : w[k] = Step(w, k)
    BY <2>4, <1>2, <1>4
  <2>6. Walk(q, m, i, w)
    BY <2>5 DEF Walk
  <2> QED BY <2>6
<1> QED BY <1>3, <1>4

\* What Ref returns is where such a walk is after one link for each symbol.
LEMMA RefWalk ==
  ASSUME NEW l, l.lsb \in Seq(Symbol), NEW i
  PROVE  \E w : /\ Ref(l, i) = w[Len(l.lsb)] /\ w[0] = i
                /\ \A k \in 1..Len(l.lsb) :
                     w[k] = IF l.lsb[w[k - 1]].ref = 0 THEN w[k - 1] ELSE l.lsb[w[k - 1]].ref
<1> DEFINE n == Len(l.lsb)
           v == CHOOSE w : Walk(l.lsb, n, i, w)
<1>1. n \in Nat
  BY LenProperties
<1>2. Walk(l.lsb, n, i, v)
  BY <1>1, WalkExists
<1>3. Ref(l, i) = v[n]
  BY DEF Ref, Walk
<1> HIDE DEF v, n
<1>4. v[0] = i /\ \A k \in 1..n : v[k] = IF l.lsb[v[k - 1]].ref = 0 THEN v[k - 1] ELSE l.lsb[v[k - 1]].ref
  <2>1. v = [k \in 0..n |-> IF k = 0 THEN i ELSE IF l.lsb[v[k - 1]].ref = 0 THEN v[k - 1] ELSE l.lsb[v[k - 1]].ref]
    BY <1>2 DEF Walk
  <2>2. \A k \in 0..n : v[k] = IF k = 0 THEN i ELSE IF l.lsb[v[k - 1]].ref = 0 THEN v[k - 1] ELSE l.lsb[v[k - 1]].ref
    BY <2>1
  <2> QED BY <1>1, <2>2
<1> QED BY <1>3, <1>4 DEF n

\* A walk along an order is at a root once it has taken as many links as there are
\* numbers below the first.
LEMMA WalkEnds ==
  ASSUME NEW q \in Seq(Symbol), NEW r, Order(q, r), NEW i \in 1..Len(q), NEW w, w[0] = i,
         \A k \in 1..Len(q) : w[k] = IF q[w[k - 1]].ref = 0 THEN w[k - 1] ELSE q[w[k - 1]].ref
  PROVE  \A k \in 0..Len(q) : w[k] \in 1..Len(q) /\ (q[w[k]].ref = 0 \/ r[w[k]] <= r[i] - k)
<1> DEFINE n == Len(q)
           Good2(k) == w[k] \in 1..n /\ (q[w[k]].ref = 0 \/ r[w[k]] <= r[i] - k)
           Bad == {k \in 0..n : ~ Good2(k)}
<1>0. n \in Nat /\ r[i] \in Int /\ \A k \in 1..n : r[k] \in Int
  <2>1. n \in Nat
    BY LenProperties
  <2>2. \A k \in 1..n : r[k] \in 0..n - 1
    BY DEF Order
  <2> QED BY <2>1, <2>2
<1> SUFFICES ASSUME Bad # {} PROVE FALSE
  OBVIOUS
<1>1. PICK m \in Bad : \A k \in Bad : m <= k
  <2> HIDE DEF Bad
  <2>1. Bad \subseteq Nat BY <1>0 DEF Bad
  <2> QED BY <2>1, Least
<1>2. m \in 0..n /\ ~ Good2(m)
  OBVIOUS
<1>3. m # 0
  BY <1>2, <1>0
<1>4. m - 1 \in 0..n /\ m \in 1..n
  BY <1>0, <1>2, <1>3
<1>5. Good2(m - 1)
  <2>1. m - 1 \notin Bad
    <3> HIDE DEF Bad
    <3> QED BY <1>1, <1>4
  <2> QED BY <2>1, <1>4
<1> DEFINE j == w[m - 1]
<1>6. w[m] = IF q[j].ref = 0 THEN j ELSE q[j].ref
  BY <1>4
<1>7. j \in 1..n /\ (q[j].ref = 0 \/ r[j] <= r[i] - (m - 1))
  BY <1>5
<1>8. q[j].ref # 0 => q[j].ref \in 1..n /\ r[q[j].ref] < r[j]
  BY <1>7 DEF Order
<1> HIDE DEF j, Bad, n
<1>9. CASE q[j].ref = 0
  BY <1>2, <1>6, <1>7, <1>9
<1>10. CASE q[j].ref # 0
  <2>1. w[m] = q[j].ref /\ w[m] \in 1..n /\ r[w[m]] < r[j] /\ r[j] <= r[i] - (m - 1)
    BY <1>6, <1>7, <1>8, <1>10
  <2>2. r[w[m]] <= r[i] - m
    BY <2>1, <1>0, <1>4, <1>7, SMTT(60)
  <2> QED BY <1>2, <2>1, <2>2
<1> QED BY <1>9, <1>10

\* ld_symbols_ref: a root is its own end, and any other symbol ends where the next
\* one of its chain does.
LEMMA RefEnds ==
  ASSUME NEW l, l.lsb \in Seq(Symbol), Chained(l.lsb), NEW i \in 1..Len(l.lsb)
  PROVE  /\ Ref(l, i) \in 1..Len(l.lsb) /\ l.lsb[Ref(l, i)].ref = 0
         /\ l.lsb[i].ref = 0 => Ref(l, i) = i
         /\ l.lsb[i].ref # 0 => l.lsb[i].ref \in 1..Len(l.lsb) /\ Ref(l, i) = Ref(l, l.lsb[i].ref)
<1> DEFINE q == l.lsb
           n == Len(q)
<1>1. PICK r : Order(q, r)
  BY DEF Chained
<1>2. n \in Nat /\ n >= 1 /\ q \in Seq(Symbol)
  BY LenProperties
<1>3. \A k \in 1..n : r[k] \in 0..n - 1
  BY <1>1 DEF Order
<1>4. PICK v : /\ Ref(l, i) = v[n] /\ v[0] = i
               /\ \A k \in 1..n : v[k] = IF q[v[k - 1]].ref = 0 THEN v[k - 1] ELSE q[v[k - 1]].ref
  BY RefWalk
<1>5. \A k \in 0..n : v[k] \in 1..n /\ (q[v[k]].ref = 0 \/ r[v[k]] <= r[i] - k)
  BY <1>1, <1>2, <1>4, WalkEnds
<1>6. Ref(l, i) \in 1..n /\ q[Ref(l, i)].ref = 0
  <2>1. v[n] \in 1..n /\ (q[v[n]].ref = 0 \/ r[v[n]] <= r[i] - n)
    BY <1>2, <1>5
  <2>2. r[v[n]] \in 0..n - 1 /\ r[i] \in 0..n - 1
    BY <1>3, <2>1
  <2> QED BY <1>2, <1>4, <2>1, <2>2
<1>7. ASSUME q[i].ref = 0 PROVE Ref(l, i) = i
  <2> DEFINE Bad == {k \in 0..n : v[k] # i}
  <2> SUFFICES ASSUME Bad # {} PROVE FALSE
    BY <1>2, <1>4
  <2>1. PICK m \in Bad : \A k \in Bad : m <= k
    <3> HIDE DEF Bad
    <3>1. Bad \subseteq Nat BY <1>2 DEF Bad
    <3> QED BY <3>1, Least
  <2>2. m \in 1..n /\ m - 1 \in 0..n
    BY <1>2, <1>4
  <2>3. v[m - 1] = i
    <3>1. m - 1 \notin Bad
      <4> HIDE DEF Bad
      <4> QED BY <2>1, <2>2
    <3> QED BY <2>2, <3>1
  <2>4. v[m] = i
    BY <1>4, <1>7, <2>2, <2>3
  <2> QED BY <2>4
<1>8. ASSUME q[i].ref # 0 PROVE q[i].ref \in 1..n /\ Ref(l, i) = Ref(l, q[i].ref)
  <2> DEFINE j == q[i].ref
  <2>1. j \in 1..n /\ r[j] < r[i]
    BY <1>1, <1>8 DEF Order
  <2>2. PICK u : /\ Ref(l, j) = u[n] /\ u[0] = j
                 /\ \A k \in 1..n : u[k] = IF q[u[k - 1]].ref = 0 THEN u[k - 1] ELSE q[u[k - 1]].ref
    BY RefWalk
  <2>3. \A k \in 0..n : u[k] \in 1..n /\ (q[u[k]].ref = 0 \/ r[u[k]] <= r[j] - k)
    BY <1>1, <1>2, <2>1, <2>2, WalkEnds
  <2> DEFINE Bad == {k \in 0..n - 1 : v[k + 1] # u[k]}
  <2>4. Bad = {}
    <3> SUFFICES ASSUME Bad # {} PROVE FALSE
      OBVIOUS
    <3>1. PICK m \in Bad : \A k \in Bad : m <= k
      <4> HIDE DEF Bad
      <4>1. Bad \subseteq Nat BY <1>2 DEF Bad
      <4> QED BY <4>1, Least
    <3>2. m \in 0..n - 1 /\ v[m + 1] # u[m]
      OBVIOUS
    <3>3. CASE m = 0
      BY <1>2, <1>4, <1>8, <2>2, <3>2, <3>3
    <3>4. CASE m # 0
      <4>1. m - 1 \in 0..n - 1 /\ m \in 1..n /\ m + 1 \in 1..n /\ (m - 1) + 1 = m /\ (m + 1) - 1 = m
        BY <1>2, <3>2, <3>4
      <4>2. m - 1 \notin Bad
        <5> HIDE DEF Bad
        <5> QED BY <3>1, <4>1
      <4>3. v[m] = u[m - 1]
        BY <4>1, <4>2
      <4>4. v[m + 1] = IF q[v[m]].ref = 0 THEN v[m] ELSE q[v[m]].ref
        BY <1>4, <4>1
      <4>5. u[m] = IF q[u[m - 1]].ref = 0 THEN u[m - 1] ELSE q[u[m - 1]].ref
        BY <2>2, <4>1
      <4> QED BY <3>2, <4>3, <4>4, <4>5
    <3> QED BY <3>3, <3>4
  <2>5. v[n] = u[n - 1]
    <3>1. n - 1 \in 0..n - 1 /\ (n - 1) + 1 = n
      BY <1>2
    <3> QED BY <2>4, <3>1
  <2>6. u[n] = u[n - 1]
    <3>1. n - 1 \in 0..n /\ n \in 1..n
      BY <1>2
    <3>2. u[n - 1] \in 1..n /\ (q[u[n - 1]].ref = 0 \/ r[u[n - 1]] <= r[j] - (n - 1))
      BY <2>3, <3>1
    <3>3. r[u[n - 1]] \in 0..n - 1 /\ r[j] \in 0..n - 1 /\ r[i] \in 0..n - 1
      BY <1>3, <2>1, <3>2
    <3>4. q[u[n - 1]].ref = 0
      BY <1>2, <2>1, <3>2, <3>3
    <3> QED BY <2>2, <3>1, <3>4
  <2> QED BY <1>4, <2>1, <2>2, <2>5, <2>6
<1> QED BY <1>6, <1>7, <1>8

\* Only the ends of the chains are constant along them and their own at the roots.
LEMMA RefIs ==
  ASSUME NEW l, l.lsb \in Seq(Symbol), Chained(l.lsb), NEW T,
         \A i \in 1..Len(l.lsb) : /\ l.lsb[i].ref = 0 => T[i] = i
                                  /\ l.lsb[i].ref # 0 => T[i] = T[l.lsb[i].ref]
  PROVE  \A i \in 1..Len(l.lsb) : Ref(l, i) = T[i]
<1> DEFINE q == l.lsb
           n == Len(q)
<1>1. PICK r : Order(q, r)
  BY DEF Chained
<1>2. n \in Nat /\ \A k \in 1..n : r[k] \in 0..n - 1 /\ r[k] \in Nat
  BY <1>1, LenProperties DEF Order
<1> DEFINE Bad == {k \in Nat : \E i \in 1..n : r[i] = k /\ Ref(l, i) # T[i]}
<1>3. ASSUME Bad # {} PROVE FALSE
  <2>1. PICK m \in Bad : \A k \in Bad : m <= k
    <3> HIDE DEF Bad
    <3>1. Bad \subseteq Nat BY DEF Bad
    <3> QED BY <3>1, <1>3, Least
  <2>2. PICK i \in 1..n : r[i] = m /\ Ref(l, i) # T[i]
    OBVIOUS
  <2>3. q[i].ref # 0
    BY <2>2, RefEnds
  <2> DEFINE j == q[i].ref
  <2>4. j \in 1..n /\ r[j] < r[i] /\ Ref(l, i) = Ref(l, j) /\ T[i] = T[j]
    BY <1>1, <2>3, RefEnds DEF Order
  <2> HIDE DEF j
  <2>5. r[j] \in Bad
    BY <1>2, <2>2, <2>4
  <2> HIDE DEF Bad
  <2>6. m \in Nat
    BY <1>2, <2>2
  <2> QED BY <1>2, <2>1, <2>2, <2>4, <2>5, <2>6
<1> QED BY <1>2, <1>3

----------------------------------------------------------------------------
\* A strong definition of a regular object, and what may stand for it.
StrongDef(x) == x.shndx = "def" /\ ~ x.dso /\ x.bind = "global" /\ ~ x.provide
NotWeakDef(x) == x.shndx = "def" /\ ~ x.dso /\ x.bind # "weak" /\ ~ x.provide

\* The symbol at the end of a chain has the name of those it stands for, knows
\* their references, and is strong when one of them is.
Stands(l, i) ==
    LET s == l.lsb[i]
        r == l.lsb[Ref(l, i)]
    IN  /\ r.name = s.name
        /\ s.ref_ndso => r.ref_ndso
        /\ s.ref_dso => r.ref_dso
        /\ StrongDef(s) /\ l.defver[s.name] = Unversioned => NotWeakDef(r)

\* Chains that end at the symbols X, and only there.
Forest(l, X) ==
    /\ Chained(l.lsb)
    /\ \A i \in 1..Len(l.lsb) : l.lsb[i].ref = 0 <=> i \in X
    /\ \A i \in 1..Len(l.lsb) : Stands(l, i)

\* The table does not hold the plain name n and its default version, both
\* undefined.
NotBoth(l, n) ==
    \A i, j \in l.sym :
        ~ /\ l.lsb[i].name = n /\ l.lsb[i].shndx = "undef" /\ l.lsb[i].ver = Unversioned
          /\ l.lsb[j].name = n /\ l.lsb[j].shndx = "undef" /\ l.lsb[j].ver = l.defver[n]
          /\ l.defver[n] # Unversioned

\* The invariant of the links, while ld goes on.
LinksGood(l) == l.fatal = "none" => Forest(l, l.sym) /\ \A n \in Names : NotBoth(l, n)

\* What the options and the script leave: no default version, no definition of
\* the linker's own.
OptionsOnly ==
    stage = "options" /\ ld.fatal = "none" =>
        /\ \A n \in Names : ld.defver[n] = Unversioned
        /\ \A i \in 1..Len(ld.lsb) : ld.lsb[i].shndx = "def" => ld.lsb[i].bind # "local"

ChainInv == ResolveInv /\ LinksGood(ld) /\ OptionsOnly

----------------------------------------------------------------------------
\* x is q with o linked to s, between s and what was linked to it last.
Relinked(q, x, o, s) ==
    /\ x \in Seq(Symbol) /\ Len(x) = Len(q)
    /\ \A k \in 1..Len(q) :
          /\ x[k].name = q[k].name /\ x[k].ver = q[k].ver /\ x[k].shndx = q[k].shndx
          /\ x[k].dso = q[k].dso /\ x[k].bind = q[k].bind /\ x[k].provide = q[k].provide
          /\ x[k].ref = IF k = o THEN s ELSE IF k = q[s].prev THEN o ELSE q[k].ref
          /\ x[k].prev = IF k = s THEN o
                         ELSE IF k = o /\ q[s].prev # 0 THEN q[s].prev ELSE q[k].prev
          /\ x[k].ref_dso = IF k = s THEN q[s].ref_dso \/ q[o].ref_dso ELSE q[k].ref_dso
          /\ x[k].ref_ndso = IF k = s THEN q[s].ref_ndso \/ q[o].ref_ndso ELSE q[k].ref_ndso

\* y is q with x at i.
PutAt(q, i, x, y) ==
    /\ y \in Seq(Symbol) /\ Len(y) = Len(q)
    /\ y[i] = x /\ \A k \in 1..Len(q) : k # i => y[k] = q[k]

\* One element of a sequence replaced.
LEMMA ExceptAt ==
  ASSUME NEW q \in Seq(Symbol), NEW i \in 1..Len(q), NEW x \in Symbol
  PROVE  PutAt(q, i, x, [q EXCEPT ![i] = x])
  BY ExceptSeq DEF PutAt

\* What _resolve_symbol does to each symbol.
LEMMA ResolveRelinks ==
  ASSUME NEW l \in Table, NEW o \in 1..Len(l.lsb), NEW s \in 1..Len(l.lsb), o # s,
         l.lsb[s].prev = 0 \/ l.lsb[s].prev \in (1..Len(l.lsb)) \ {o, s}
  PROVE  LET m == ResolveSymbol(l, o, s)
         IN  /\ m \in Table /\ Relinked(l.lsb, m.lsb, o, s)
             /\ m.sym = l.sym /\ m.defver = l.defver /\ m.fatal = l.fatal
<1> DEFINE q == l.lsb
           p == q[s].prev
           d == q[s].ref_dso \/ q[o].ref_dso
           n == q[s].ref_ndso \/ q[o].ref_ndso
           xs == [q[s] EXCEPT !.ref_dso = d, !.ref_ndso = n, !.prev = o]
           q3 == [q EXCEPT ![s] = xs]
           xo == [q[o] EXCEPT !.ref = s]
           q4 == [q3 EXCEPT ![o] = xo]
           xp == [q[p] EXCEPT !.ref = o]
           q5 == [q4 EXCEPT ![p] = xp]
           xo2 == [q[o] EXCEPT !.ref = s, !.prev = p]
           q6 == [q5 EXCEPT ![o] = xo2]
           x == IF p = 0 THEN q4 ELSE q6
<1>1. q \in Seq(Symbol) /\ o \in Nat /\ s \in Nat /\ q[s] \in Symbol /\ q[o] \in Symbol
  BY ElementOfSeq DEF Table
<1>2. p \in Nat /\ d \in BOOLEAN /\ n \in BOOLEAN
  BY <1>1 DEF Symbol
<1>3. p # 0 => p \in 1..Len(q) /\ p # o /\ p # s /\ q[p] \in Symbol
  BY <1>1, ElementOfSeq
<1>4. /\ xs \in Symbol /\ [q[o] EXCEPT !.ref = s] \in Symbol
      /\ [q[o] EXCEPT !.ref = s, !.prev = p] \in Symbol
      /\ p # 0 => [q[p] EXCEPT !.ref = o] \in Symbol
  <2> HIDE DEF d, n, p
  <2>1. xs \in Symbol
    BY <1>1, <1>2 DEF Symbol
  <2>2. [q[o] EXCEPT !.ref = s] \in Symbol /\ [q[o] EXCEPT !.ref = s, !.prev = p] \in Symbol
    BY <1>1, <1>2 DEF Symbol
  <2>3. p # 0 => [q[p] EXCEPT !.ref = o] \in Symbol
    BY <1>1, <1>3 DEF Symbol
  <2> QED BY <2>1, <2>2, <2>3
<1>5. ResolveSymbol(l, o, s) = [l EXCEPT !.lsb = x]
  <2>1. ResolveSymbol(l, o, s) =
           [l EXCEPT !.lsb =
              LET j == [q EXCEPT ![s].ref_dso = d, ![s].ref_ndso = n, ![s].prev = o, ![o].ref = s]
              IN  IF p = 0 THEN j ELSE [j EXCEPT ![p].ref = o, ![o].prev = p]]
    BY <1>1 DEF ResolveSymbol, Table
  <2> HIDE DEF d, n
  <2>2. [q EXCEPT ![s].ref_dso = d, ![s].ref_ndso = n, ![s].prev = o, ![o].ref = s] = q4
    BY <1>1 DEF Symbol
  <2>3. p # 0 => [q4 EXCEPT ![p].ref = o, ![o].prev = p] = q6
    <3> SUFFICES ASSUME p # 0 PROVE [q4 EXCEPT ![p].ref = o, ![o].prev = p] = q6
      OBVIOUS
    <3>1. q4[p] = q[p] /\ q4[o] = [q[o] EXCEPT !.ref = s]
      BY <1>1, <1>3
    <3>2. p # o /\ o \in DOMAIN q4 /\ p \in DOMAIN q4
      BY <1>1, <1>3
    <3>3. [[q[o] EXCEPT !.ref = s] EXCEPT !.prev = p] = [q[o] EXCEPT !.ref = s, !.prev = p]
      BY <1>1 DEF Symbol
    <3> HIDE DEF q4
    <3> QED BY <3>1, <3>2, <3>3
  <2> QED BY <2>1, <2>2, <2>3
<1> HIDE DEF d, n, p
<1>6. /\ q3 \in Seq(Symbol) /\ Len(q3) = Len(q)
      /\ q3[s] = xs /\ \A k \in 1..Len(q) : k # s => q3[k] = q[k]
  <2>1. xs \in Symbol /\ s \in 1..Len(q)
    BY <1>4
  <2> HIDE DEF xs, q
  <2>2. PutAt(q, s, xs, q3)
    BY <1>1, <2>1, ExceptAt
  <2> QED BY <2>2 DEF PutAt
<1>7. /\ q4 \in Seq(Symbol) /\ Len(q4) = Len(q)
      /\ q4[o] = xo /\ \A k \in 1..Len(q) : k # o => q4[k] = q3[k]
  <2>1. xo \in Symbol /\ o \in 1..Len(q3) /\ q3 \in Seq(Symbol)
    BY <1>4, <1>6
  <2> HIDE DEF q3, xo
  <2>2. PutAt(q3, o, xo, q4)
    BY <2>1, ExceptAt, Zenon
  <2> QED BY <1>6, <2>2 DEF PutAt
<1>8. ASSUME p # 0
      PROVE  /\ q5 \in Seq(Symbol) /\ Len(q5) = Len(q)
             /\ q5[p] = [q[p] EXCEPT !.ref = o] /\ \A k \in 1..Len(q) : k # p => q5[k] = q4[k]
  <2>1. xp \in Symbol /\ p \in 1..Len(q4) /\ q4 \in Seq(Symbol)
    BY <1>3, <1>4, <1>7, <1>8
  <2> HIDE DEF q4, xp
  <2>2. PutAt(q4, p, xp, q5)
    BY <2>1, ExceptAt, Zenon
  <2> QED BY <1>7, <2>2 DEF PutAt, xp
<1>9. ASSUME p # 0
      PROVE  /\ q6 \in Seq(Symbol) /\ Len(q6) = Len(q)
             /\ q6[o] = [q[o] EXCEPT !.ref = s, !.prev = p] /\ \A k \in 1..Len(q) : k # o => q6[k] = q5[k]
  <2>1. xo2 \in Symbol /\ o \in 1..Len(q5)
    BY <1>4, <1>8, <1>9
  <2> HIDE DEF q5, xo2
  <2>2. q5 \in Seq(Symbol) /\ Len(q5) = Len(q)
    BY <1>8, <1>9
  <2>3. PutAt(q5, o, xo2, q6)
    BY <2>1, <2>2, ExceptAt, Zenon
  <2> QED BY <2>2, <2>3 DEF PutAt, xo2
<1>10. x \in Seq(Symbol) /\ Len(x) = Len(q)
  BY <1>7, <1>9
<1>11. /\ x[s] = xs
       /\ x[o] = IF p = 0 THEN [q[o] EXCEPT !.ref = s] ELSE [q[o] EXCEPT !.ref = s, !.prev = p]
       /\ p # 0 => x[p] = [q[p] EXCEPT !.ref = o]
       /\ \A k \in 1..Len(q) : k # s /\ k # o /\ k # p => x[k] = q[k]
  <2> HIDE DEF q3, q4, q5, q6, xs
  <2>1. CASE p = 0
    BY <2>1, <1>6, <1>7 DEF xo
  <2>2. CASE p # 0
    BY <2>2, <1>3, <1>6, <1>7, <1>8, <1>9
  <2> QED BY <2>1, <2>2
<1> HIDE DEF x, q3, q4, q5, q6
<1>12. ASSUME NEW k \in 1..Len(q)
       PROVE  /\ x[k].name = q[k].name /\ x[k].ver = q[k].ver /\ x[k].shndx = q[k].shndx
              /\ x[k].dso = q[k].dso /\ x[k].bind = q[k].bind /\ x[k].provide = q[k].provide
              /\ x[k].ref = IF k = o THEN s ELSE IF k = p THEN o ELSE q[k].ref
              /\ x[k].prev = IF k = s THEN o ELSE IF k = o /\ p # 0 THEN p ELSE q[k].prev
              /\ x[k].ref_dso = IF k = s THEN d ELSE q[k].ref_dso
              /\ x[k].ref_ndso = IF k = s THEN n ELSE q[k].ref_ndso
  <2>1. CASE k = s
    <3>1. /\ xs.name = q[s].name /\ xs.ver = q[s].ver /\ xs.shndx = q[s].shndx
          /\ xs.dso = q[s].dso /\ xs.bind = q[s].bind /\ xs.provide = q[s].provide
          /\ xs.ref = q[s].ref /\ xs.prev = o /\ xs.ref_dso = d /\ xs.ref_ndso = n
      BY <1>1 DEF Symbol
    <3>2. x[k] = xs /\ k # o /\ k # p
      BY <1>1, <1>3, <1>11, <2>1
    <3> HIDE DEF xs
    <3> QED BY <2>1, <3>1, <3>2
  <2>2. CASE k = o
    <3> DEFINE y == [q[o] EXCEPT !.ref = s]
               z == [q[o] EXCEPT !.ref = s, !.prev = p]
    <3>1. /\ y.name = q[o].name /\ y.ver = q[o].ver /\ y.shndx = q[o].shndx
          /\ y.dso = q[o].dso /\ y.bind = q[o].bind /\ y.provide = q[o].provide
          /\ y.ref = s /\ y.prev = q[o].prev /\ y.ref_dso = q[o].ref_dso /\ y.ref_ndso = q[o].ref_ndso
      BY <1>1 DEF Symbol
    <3>2. /\ z.name = q[o].name /\ z.ver = q[o].ver /\ z.shndx = q[o].shndx
          /\ z.dso = q[o].dso /\ z.bind = q[o].bind /\ z.provide = q[o].provide
          /\ z.ref = s /\ z.prev = p /\ z.ref_dso = q[o].ref_dso /\ z.ref_ndso = q[o].ref_ndso
      BY <1>1 DEF Symbol
    <3>3. x[k] = IF p = 0 THEN y ELSE z
      BY <1>11, <2>2
    <3> HIDE DEF y, z
    <3> QED BY <2>2, <3>1, <3>2, <3>3
  <2>3. CASE k = p
    <3> DEFINE y == [q[p] EXCEPT !.ref = o]
    <3>1. p # 0
      BY <2>3
    <3>2. /\ y.name = q[p].name /\ y.ver = q[p].ver /\ y.shndx = q[p].shndx
          /\ y.dso = q[p].dso /\ y.bind = q[p].bind /\ y.provide = q[p].provide
          /\ y.ref = o /\ y.prev = q[p].prev /\ y.ref_dso = q[p].ref_dso /\ y.ref_ndso = q[p].ref_ndso
      BY <1>3, <3>1 DEF Symbol
    <3>3. x[k] = y /\ k # o /\ k # s
      BY <1>3, <1>11, <2>3, <3>1
    <3> HIDE DEF y
    <3> QED BY <2>3, <3>2, <3>3
  <2>4. CASE k # s /\ k # o /\ k # p
    BY <1>11, <2>4
  <2> QED BY <2>1, <2>2, <2>3, <2>4
<1>13. Relinked(q, x, o, s)
  BY <1>10, <1>12 DEF Relinked, d, n, p
<1>14. [l EXCEPT !.lsb = x] \in Table
  BY <1>10 DEF Table
<1>15. ResolveSymbol(l, o, s).lsb = x /\ ResolveSymbol(l, o, s).sym = l.sym
       /\ ResolveSymbol(l, o, s).defver = l.defver /\ ResolveSymbol(l, o, s).fatal = l.fatal
  BY <1>5 DEF Table
<1> QED BY <1>5, <1>13, <1>14, <1>15

\* A root linked to another leaves a forest: the two move to the front of the
\* order, and everything between them and their chains stays as it was.
LEMMA RelinkChained ==
  ASSUME NEW q \in Seq(Symbol), Chained(q), NEW o \in 1..Len(q), NEW s \in 1..Len(q), o # s,
         q[o].ref = 0, q[s].ref = 0, NEW x, Relinked(q, x, o, s)
  PROVE  Chained(x)
<1> DEFINE n == Len(q)
           p == q[s].prev
<1>1. PICK r : Order(q, r)
  BY DEF Chained
<1>2. n \in Nat /\ Len(x) = n /\ o \in Nat \ {0} /\ s \in Nat \ {0}
  BY LenProperties DEF Relinked
<1>3. /\ \A i \in 1..n : r[i] \in 0..n - 1
      /\ \A i, j \in 1..n : r[i] = r[j] => i = j
      /\ \A i \in 1..n : q[i].ref # 0 => q[i].ref \in 1..n /\ r[q[i].ref] < r[i]
  BY <1>1 DEF Order
<1>4. p # 0 => p \in 1..n /\ q[p].ref = s /\ p # o /\ p # s
  BY <1>2 DEF Chained
<1>5. \A k \in 1..n : /\ x[k].ref = IF k = o THEN s ELSE IF k = p THEN o ELSE q[k].ref
                      /\ x[k].prev = IF k = s THEN o ELSE IF k = o /\ p # 0 THEN p ELSE q[k].prev
  BY DEF Relinked
<1> DEFINE f(i) == IF i = s THEN 0
                   ELSE IF i = o THEN 1
                   ELSE r[i] + (IF r[s] > r[i] THEN 1 ELSE 0) + (IF r[o] > r[i] THEN 1 ELSE 0)
           r2 == [i \in 1..n |-> f(i)]
<1> HIDE DEF p, n
<1>6. o \in 1..n /\ s \in 1..n /\ o # s /\ q[o].ref = 0 /\ q[s].ref = 0
  BY DEF n
<1>7. ASSUME NEW i \in 1..n PROVE f(i) \in 0..n - 1 /\ (i # s /\ i # o => f(i) >= r[i] /\ f(i) > 1)
  <2>1. r[i] \in 0..n - 1 /\ r[o] \in 0..n - 1 /\ r[s] \in 0..n - 1 /\ r[o] # r[s]
    BY <1>3, <1>6
  <2>2. i # s => r[i] # r[s]
    BY <1>3, <1>6
  <2>3. i # o => r[i] # r[o]
    BY <1>3, <1>6
  <2>4. n >= 2
    BY <1>2, <1>6
  <2>5. CASE i = s \/ i = o
    BY <1>2, <1>6, <2>4, <2>5
  <2>6. CASE i # s /\ i # o
    <3>1. f(i) = r[i] + (IF r[s] > r[i] THEN 1 ELSE 0) + (IF r[o] > r[i] THEN 1 ELSE 0)
      BY <2>6
    <3> HIDE DEF f
    <3>2. ASSUME NEW x1 \in 0..n - 1, NEW x2 \in 0..n - 1, NEW x3 \in 0..n - 1,
                 x1 # x2, x1 # x3, x2 # x3,
                 NEW y, y = x1 + (IF x2 > x1 THEN 1 ELSE 0) + (IF x3 > x1 THEN 1 ELSE 0)
          PROVE  y \in 0..n - 1 /\ y >= x1 /\ y > 1
      BY <1>2, <3>2
    <3>3. r[i] # r[s] /\ r[i] # r[o] /\ r[s] # r[o]
      BY <2>1, <2>2, <2>3, <2>6
    <3> QED BY <2>1, <3>1, <3>2, <3>3
  <2> QED BY <2>5, <2>6
<1>8. ASSUME NEW i \in 1..n, NEW j \in 1..n, i # s, i # o, j # s, j # o, r[i] < r[j]
      PROVE  f(i) < f(j)
  <2>1. r[i] \in Int /\ r[j] \in Int /\ r[o] \in Int /\ r[s] \in Int
    BY <1>2, <1>3, <1>6
  <2>2. f(i) = r[i] + (IF r[s] > r[i] THEN 1 ELSE 0) + (IF r[o] > r[i] THEN 1 ELSE 0)
    BY <1>8
  <2>3. f(j) = r[j] + (IF r[s] > r[j] THEN 1 ELSE 0) + (IF r[o] > r[j] THEN 1 ELSE 0)
    BY <1>8
  <2>4. r[j] # r[s] /\ r[j] # r[o] /\ r[s] # r[o]
    BY <1>3, <1>6, <1>8
  <2> HIDE DEF f
  <2>5. ASSUME NEW x1 \in Int, NEW x2 \in Int, NEW y1 \in Int, NEW y2 \in Int, x1 < x2, x2 # y1, x2 # y2, y1 # y2
        PROVE  x1 + (IF y1 > x1 THEN 1 ELSE 0) + (IF y2 > x1 THEN 1 ELSE 0)
               < x2 + (IF y1 > x2 THEN 1 ELSE 0) + (IF y2 > x2 THEN 1 ELSE 0)
    BY <2>5, SMTT(60)
  <2> QED BY <1>8, <2>1, <2>2, <2>3, <2>4, <2>5, SMTT(60)
<1>9. ASSUME NEW i \in 1..n, NEW j \in 1..n, f(i) = f(j) PROVE i = j
  <2>1. f(s) = 0 /\ f(o) = 1
    BY <1>6
  <2>2. (i \in {s, o} \/ j \in {s, o}) => i = j
    <3> HIDE DEF f
    <3> QED BY <1>6, <1>7, <1>9, <2>1
  <2>3. CASE i \notin {s, o} /\ j \notin {s, o}
    <3>1. r[i] \in Int /\ r[j] \in Int
      BY <1>2, <1>3
    <3>2. ~ (r[i] < r[j]) /\ ~ (r[j] < r[i])
      <4>1. r[i] < r[j] => f(i) < f(j)
        BY <1>8, <2>3
      <4>2. r[j] < r[i] => f(j) < f(i)
        BY <1>8, <2>3
      <4>3. f(i) \in Int /\ f(j) \in Int
        <5> HIDE DEF f
        <5> QED BY <1>7, <1>2
      <4> HIDE DEF f
      <4> QED BY <1>9, <4>1, <4>2, <4>3
    <3> QED BY <1>3, <3>1, <3>2
  <2> QED BY <2>2, <2>3
<1>10. ASSUME NEW i \in 1..n, x[i].ref # 0 PROVE x[i].ref \in 1..n /\ f(x[i].ref) < f(i)
  <2>1. CASE i = o
    BY <1>2, <1>5, <1>6, <2>1
  <2>2. CASE i # o /\ i = p
    <3>1. x[i].ref = o /\ i # s
      BY <1>2, <1>4, <1>5, <2>2
    <3>2. f(o) = 1
      BY <1>6
    <3>3. f(i) \in Int /\ f(i) > 1
      <4> HIDE DEF f
      <4> QED BY <1>2, <1>7, <2>2, <3>1
    <3> HIDE DEF f
    <3> QED BY <1>6, <3>1, <3>2, <3>3
  <2>3. CASE i # o /\ i # p
    <3> DEFINE j == q[i].ref
    <3>1. x[i].ref = j /\ i # s
      BY <1>5, <1>6, <1>10, <2>3
    <3>2. j \in 1..n /\ r[j] < r[i]
      BY <1>3, <1>10, <3>1
    <3> HIDE DEF j
    <3>3. f(i) \in Int /\ f(i) > 1 /\ f(s) = 0 /\ f(o) = 1
      <4>1. f(s) = 0 /\ f(o) = 1
        BY <1>6
      <4> HIDE DEF f
      <4> QED BY <1>2, <1>7, <2>3, <3>1, <4>1
    <3>4. j \notin {s, o} => f(j) < f(i)
      BY <1>8, <2>3, <3>1, <3>2
    <3> HIDE DEF f
    <3> QED BY <3>1, <3>2, <3>3, <3>4
  <2> QED BY <2>1, <2>2, <2>3
<1>11. Order(x, r2)
  <2> HIDE DEF f
  <2>1. \A i \in 1..n : r2[i] = f(i)
    OBVIOUS
  <2> HIDE DEF r2
  <2>2. \A i \in 1..n : r2[i] \in 0..n - 1
    BY <1>7, <2>1
  <2>3. \A i, j \in 1..n : r2[i] = r2[j] => i = j
    BY <1>9, <2>1
  <2>4. \A i \in 1..n : x[i].ref # 0 => x[i].ref \in 1..n /\ r2[x[i].ref] < r2[i]
    BY <1>10, <2>1
  <2> QED BY <1>2, <2>2, <2>3, <2>4 DEF Order
<1>12. ASSUME NEW i \in 1..n, x[i].prev # 0 PROVE x[i].prev \in 1..n /\ x[x[i].prev].ref = i
  <2>1. CASE i = s
    BY <1>5, <1>6, <2>1
  <2>2. CASE i # s /\ i = o /\ p # 0
    BY <1>4, <1>5, <2>2
  <2>3. CASE i # s /\ ~ (i = o /\ p # 0)
    <3> DEFINE j == q[i].prev
    <3>1. x[i].prev = j /\ j # 0
      BY <1>5, <1>12, <2>3
    <3>2. j \in 1..n /\ q[j].ref = i
      BY <3>1 DEF Chained, n
    <3> HIDE DEF j
    <3>3. j # o /\ (j = p => p = 0)
      BY <1>2, <1>4, <1>6, <2>3, <3>2
    <3> QED BY <1>5, <3>1, <3>2, <3>3
  <2> QED BY <2>1, <2>2, <2>3
<1> QED BY <1>2, <1>11, <1>12 DEF Chained

----------------------------------------------------------------------------
\* m has the symbols of l, with other links, flags and sizes.
SameSymbols(l, m) ==
    /\ m \in Table /\ Len(m.lsb) = Len(l.lsb) /\ m.defver = l.defver
    /\ \A k \in 1..Len(l.lsb) :
          /\ m.lsb[k].name = l.lsb[k].name /\ m.lsb[k].ver = l.lsb[k].ver
          /\ m.lsb[k].shndx = l.lsb[k].shndx /\ m.lsb[k].dso = l.lsb[k].dso
          /\ m.lsb[k].bind = l.lsb[k].bind /\ m.lsb[k].provide = l.lsb[k].provide

\* What linking the root a to the root b makes of a forest with roots X.
Joins(l, m, a, b, X) ==
    /\ SameSymbols(l, m) /\ m.sym = l.sym /\ m.fatal = l.fatal
    /\ Forest(m, X \ {a})
    /\ \A i \in 1..Len(l.lsb) : Ref(m, i) = IF Ref(l, i) = a THEN b ELSE Ref(l, i)

\* The symbol b may stand for what the symbol a stood for.
MayStand(l, a, b) ==
    /\ l.lsb[a].name = l.lsb[b].name
    /\ NotWeakDef(l.lsb[a]) /\ l.defver[l.lsb[a].name] = Unversioned => NotWeakDef(l.lsb[b])

LEMMA ResolveJoins ==
  ASSUME NEW l \in Table, NEW X, Forest(l, X),
         NEW a \in 1..Len(l.lsb), NEW b \in 1..Len(l.lsb), a # b, a \in X, b \in X,
         MayStand(l, a, b)
  PROVE  Joins(l, ResolveSymbol(l, a, b), a, b, X)
<1> DEFINE n == Len(l.lsb)
           q == l.lsb
           m == ResolveSymbol(l, a, b)
           T == [i \in 1..n |-> IF Ref(l, i) = a THEN b ELSE Ref(l, i)]
<1>1. q \in Seq(Symbol) /\ n \in Nat /\ a \in Nat \ {0} /\ b \in Nat \ {0}
  BY LenProperties DEF Table
<1>2. Chained(q) /\ q[a].ref = 0 /\ q[b].ref = 0
      /\ \A i \in 1..n : (q[i].ref = 0 <=> i \in X) /\ Stands(l, i)
  BY DEF Forest
<1>3. q[b].prev = 0 \/ q[b].prev \in (1..n) \ {a, b}
  BY <1>1, <1>2 DEF Chained
<1>4. /\ m \in Table /\ Relinked(q, m.lsb, a, b)
      /\ m.sym = l.sym /\ m.defver = l.defver /\ m.fatal = l.fatal
  <2> HIDE DEF m
  <2> QED BY <1>3, ResolveRelinks DEF m
<1> HIDE DEF m
<1>5. Chained(m.lsb)
  BY <1>1, <1>2, <1>4, RelinkChained
<1>6. SameSymbols(l, m)
  BY <1>4 DEF Relinked, SameSymbols
<1>7. \A i \in 1..n : /\ Ref(l, i) \in 1..n /\ q[Ref(l, i)].ref = 0
                      /\ q[i].ref = 0 => Ref(l, i) = i
                      /\ q[i].ref # 0 => q[i].ref \in 1..n /\ Ref(l, i) = Ref(l, q[i].ref)
  BY <1>1, <1>2, RefEnds
<1>8. m.lsb \in Seq(Symbol) /\ Len(m.lsb) = n
  BY <1>4 DEF Relinked
<1>9. \A i \in 1..n : m.lsb[i].ref = IF i = a THEN b ELSE IF i = q[b].prev THEN a ELSE q[i].ref
  BY <1>4 DEF Relinked
<1>10. q[b].prev \in 1..n => q[q[b].prev].ref = b /\ q[b].prev # a
  BY <1>1, <1>2, <1>3 DEF Chained
<1>11. ASSUME NEW i \in 1..n
       PROVE  /\ m.lsb[i].ref = 0 => T[i] = i
              /\ m.lsb[i].ref # 0 => T[i] = T[m.lsb[i].ref]
  <2>1. CASE i = a
    <3>1. m.lsb[i].ref = b /\ Ref(l, a) = a /\ Ref(l, b) = b
      BY <1>2, <1>7, <1>9, <2>1
    <3> QED BY <1>1, <2>1, <3>1
  <2>2. CASE i # a /\ i = q[b].prev
    <3>1. m.lsb[i].ref = a /\ q[i].ref = b
      BY <1>9, <1>10, <2>2
    <3>2. Ref(l, i) = Ref(l, b) /\ Ref(l, b) = b /\ Ref(l, a) = a
      BY <1>1, <1>2, <1>7, <3>1
    <3> QED BY <1>1, <3>1, <3>2
  <2>3. CASE i # a /\ i # q[b].prev
    <3>1. m.lsb[i].ref = q[i].ref
      BY <1>9, <2>3
    <3>2. q[i].ref = 0 => Ref(l, i) = i
      BY <1>7
    <3>3. q[i].ref # 0 => q[i].ref \in 1..n /\ Ref(l, i) = Ref(l, q[i].ref)
      BY <1>7
    <3> QED BY <2>3, <3>1, <3>2, <3>3
  <2> QED BY <2>1, <2>2, <2>3
<1>12. \A i \in 1..n : Ref(m, i) = T[i]
  <2> HIDE DEF T
  <2> QED BY <1>5, <1>8, <1>11, RefIs
<1>13. \A i \in 1..n : Ref(m, i) = IF Ref(l, i) = a THEN b ELSE Ref(l, i)
  BY <1>12
<1>14. \A i \in 1..n : m.lsb[i].ref = 0 <=> i \in X \ {a}
  BY <1>1, <1>2, <1>9, <1>10
<1>15. ASSUME NEW i \in 1..n PROVE Stands(m, i)
  <2> DEFINE r == Ref(l, i)
             t == Ref(m, i)
  <2>1. r \in 1..n /\ t \in 1..n /\ (t = r \/ (r = a /\ t = b))
    BY <1>7, <1>13
  <2>2. Stands(l, i)
    BY <1>2
  <2>3. /\ m.lsb[t].name = m.lsb[i].name
        /\ StrongDef(m.lsb[i]) /\ m.defver[m.lsb[i].name] = Unversioned => NotWeakDef(m.lsb[t])
    <3>1. \A k \in 1..n : /\ m.lsb[k].name = l.lsb[k].name
                          /\ StrongDef(m.lsb[k]) <=> StrongDef(l.lsb[k])
                          /\ NotWeakDef(m.lsb[k]) <=> NotWeakDef(l.lsb[k])
      BY <1>6 DEF SameSymbols, StrongDef, NotWeakDef
    <3>2. /\ l.lsb[r].name = l.lsb[i].name
          /\ StrongDef(l.lsb[i]) /\ l.defver[l.lsb[i].name] = Unversioned => NotWeakDef(l.lsb[r])
      BY <2>2 DEF Stands
    <3>3. /\ l.lsb[t].name = l.lsb[r].name
          /\ NotWeakDef(l.lsb[r]) /\ l.defver[l.lsb[r].name] = Unversioned => NotWeakDef(l.lsb[t])
      BY <2>1 DEF MayStand
    <3>4. m.defver = l.defver
      BY <1>4
    <3> HIDE DEF r, t
    <3> QED BY <2>1, <3>1, <3>2, <3>3, <3>4
  <2>4. /\ m.lsb[i].ref_dso => m.lsb[t].ref_dso
        /\ m.lsb[i].ref_ndso => m.lsb[t].ref_ndso
    <3>1. \A k \in 1..n :
             /\ m.lsb[k].ref_dso = IF k = b THEN q[b].ref_dso \/ q[a].ref_dso ELSE q[k].ref_dso
             /\ m.lsb[k].ref_ndso = IF k = b THEN q[b].ref_ndso \/ q[a].ref_ndso ELSE q[k].ref_ndso
      BY <1>4 DEF Relinked
    <3>2. (q[i].ref_dso => q[r].ref_dso) /\ (q[i].ref_ndso => q[r].ref_ndso)
      BY <2>2 DEF Stands
    <3>3. CASE t = b
      <4>1. i = b => r = b
        BY <1>2, <1>7
      <4> HIDE DEF r, t
      <4> QED BY <2>1, <3>1, <3>2, <3>3, <4>1, Zenon
    <3>4. CASE t # b
      <4>1. t = r /\ i # b
        BY <1>2, <1>7, <2>1, <3>4
      <4> HIDE DEF r, t
      <4> QED BY <2>1, <3>1, <3>2, <3>4, <4>1, Zenon
    <3> QED BY <3>3, <3>4
  <2> QED BY <2>3, <2>4 DEF Stands
<1>16. Forest(m, X \ {a})
  BY <1>5, <1>8, <1>14, <1>15 DEF Forest
<1> QED BY <1>4, <1>6, <1>13, <1>16 DEF Joins, m

\* Symbols that end at one symbol go on doing so.
Moves(l, m) ==
    \A i \in 1..Len(l.lsb) : Ref(l, i) \in 1..Len(l.lsb) /\ Ref(m, i) = Ref(m, Ref(l, i))

LEMMA MovesTransitive ==
  ASSUME NEW l, NEW m, NEW k, Len(l.lsb) \in Nat, Len(m.lsb) \in Nat, Len(l.lsb) <= Len(m.lsb),
         Moves(l, m), Moves(m, k)
  PROVE  Moves(l, k)
<1> SUFFICES ASSUME NEW i \in 1..Len(l.lsb)
             PROVE  Ref(l, i) \in 1..Len(l.lsb) /\ Ref(k, i) = Ref(k, Ref(l, i))
  BY DEF Moves
<1>1. Ref(l, i) \in 1..Len(l.lsb) /\ Ref(m, i) = Ref(m, Ref(l, i))
  BY DEF Moves
<1>2. i \in 1..Len(m.lsb) /\ Ref(l, i) \in 1..Len(m.lsb)
  BY <1>1
<1>3. Ref(k, i) = Ref(k, Ref(m, i)) /\ Ref(k, Ref(l, i)) = Ref(k, Ref(m, Ref(l, i)))
  BY <1>2 DEF Moves
<1> QED BY <1>1, <1>3

\* Linking a root moves the ends of chains.
LEMMA JoinsMoves ==
  ASSUME NEW l \in Table, NEW X, Forest(l, X), NEW m, NEW a, NEW b, Joins(l, m, a, b, X)
  PROVE  Moves(l, m)
<1> SUFFICES ASSUME NEW i \in 1..Len(l.lsb)
             PROVE  Ref(l, i) \in 1..Len(l.lsb) /\ Ref(m, i) = Ref(m, Ref(l, i))
  BY DEF Moves
<1>1. l.lsb \in Seq(Symbol) /\ Chained(l.lsb)
  BY DEF Table, Forest
<1> DEFINE r == Ref(l, i)
<1>2. r \in 1..Len(l.lsb) /\ l.lsb[r].ref = 0
  BY <1>1, RefEnds
<1>3. Ref(l, r) = r
  BY <1>1, <1>2, RefEnds
<1> HIDE DEF r
<1>4. Ref(m, r) = (IF Ref(l, r) = a THEN b ELSE Ref(l, r)) /\ Ref(m, i) = (IF r = a THEN b ELSE r)
  BY <1>2 DEF Joins, r
<1> QED BY <1>2, <1>3, <1>4 DEF r

\* A symbol that has just been read is a chain of its own.
Appended(l, m, s, X) ==
    /\ m \in Table /\ Len(m.lsb) = Len(l.lsb) + 1
    /\ \A k \in 1..Len(l.lsb) : m.lsb[k] = l.lsb[k]
    /\ m.lsb[Len(l.lsb) + 1] = s
    /\ Forest(m, X \cup {Len(l.lsb) + 1})
    /\ Moves(l, m)

LEMMA AppendForest ==
  ASSUME NEW l \in Table, NEW X, Forest(l, X), X \subseteq 1..Len(l.lsb),
         NEW s \in Symbol, s.ref = 0, s.prev = 0
  PROVE  Appended(l, [l EXCEPT !.lsb = Append(@, s)], s, X)
<1> DEFINE n == Len(l.lsb)
           q == l.lsb
           x == Append(q, s)
           m == [l EXCEPT !.lsb = x]
           T == [i \in 1..n + 1 |-> IF i = n + 1 THEN i ELSE Ref(l, i)]
<1>1. q \in Seq(Symbol) /\ n \in Nat
  BY LenProperties DEF Table
<1>2. /\ x \in Seq(Symbol) /\ Len(x) = n + 1 /\ x[n + 1] = s
      /\ \A k \in 1..n : x[k] = q[k]
  BY <1>1, AppendProperties
<1>3. m \in Table /\ m.lsb = x /\ m.defver = l.defver
  <2> HIDE DEF x
  <2> QED BY <1>2 DEF Table
<1>4. Chained(q) /\ \A i \in 1..n : (q[i].ref = 0 <=> i \in X) /\ Stands(l, i)
  BY DEF Forest
<1>5. PICK r : Order(q, r)
  BY <1>4 DEF Chained
<1> HIDE DEF x, m, n
<1>6. /\ \A i \in 1..n : r[i] \in 0..n - 1
      /\ \A i, j \in 1..n : r[i] = r[j] => i = j
      /\ \A i \in 1..n : q[i].ref # 0 => q[i].ref \in 1..n /\ r[q[i].ref] < r[i]
  BY <1>5 DEF Order, n
<1> DEFINE r2 == [i \in 1..n + 1 |-> IF i = n + 1 THEN n ELSE r[i]]
<1>7. Order(x, r2)
  <2>1. \A i \in 1..n : r2[i] = r[i] /\ r[i] \in 0..n - 1 /\ i \in 1..n + 1
    BY <1>1, <1>6
  <2>2. r2[n + 1] = n
    BY <1>1
  <2> HIDE DEF r2
  <2>3. \A i \in 1..n + 1 : r2[i] \in 0..n
    BY <1>1, <2>1, <2>2
  <2>4. \A i, j \in 1..n + 1 : r2[i] = r2[j] => i = j
    BY <1>1, <1>6, <2>1, <2>2, SMTT(60)
  <2>5. \A i \in 1..n + 1 : x[i].ref # 0 => x[i].ref \in 1..n + 1 /\ r2[x[i].ref] < r2[i]
    BY <1>1, <1>2, <1>6, <2>1
  <2> QED BY <1>1, <1>2, <2>3, <2>4, <2>5 DEF Order
<1>8. ASSUME NEW i \in 1..n + 1, x[i].prev # 0 PROVE x[i].prev \in 1..n + 1 /\ x[x[i].prev].ref = i
  <2>1. i \in 1..n /\ x[i] = q[i]
    BY <1>1, <1>2, <1>8
  <2>2. q[i].prev \in 1..n /\ q[q[i].prev].ref = i
    BY <1>4, <1>8, <2>1 DEF Chained, n
  <2> QED BY <1>1, <1>2, <2>1, <2>2
<1>9. Chained(x)
  BY <1>2, <1>7, <1>8 DEF Chained
<1>10. \A i \in 1..n : /\ Ref(l, i) \in 1..n
                       /\ q[i].ref = 0 => Ref(l, i) = i
                       /\ q[i].ref # 0 => q[i].ref \in 1..n /\ Ref(l, i) = Ref(l, q[i].ref)
  BY <1>1, <1>4, RefEnds DEF n
<1>11. \A i \in 1..n + 1 : Ref(m, i) = T[i]
  <2>1. ASSUME NEW i \in 1..n + 1
        PROVE  /\ x[i].ref = 0 => T[i] = i
               /\ x[i].ref # 0 => T[i] = T[x[i].ref]
    <3>1. CASE i = n + 1
      BY <1>2, <3>1
    <3>2. CASE i \in 1..n
      <4>1. \A k \in 1..n : T[k] = Ref(l, k)
        BY <1>1
      <4>2. x[i] = q[i]
        BY <1>2, <3>2
      <4> HIDE DEF T
      <4> QED BY <1>10, <3>2, <4>1, <4>2
    <3> QED BY <1>1, <3>1, <3>2
  <2> HIDE DEF T
  <2> QED BY <1>2, <1>3, <1>9, <2>1, RefIs
<1>12. \A i \in 1..n : Ref(m, i) = Ref(l, i)
  BY <1>1, <1>11
<1>13. Ref(m, n + 1) = n + 1
  BY <1>1, <1>11
<1>14. Moves(l, m)
  <2>1. \A i \in 1..n : Ref(l, i) \in 1..n /\ Ref(l, Ref(l, i)) = Ref(l, i)
    BY <1>1, <1>4, <1>10, RefEnds DEF n
  <2> QED BY <1>12, <2>1 DEF Moves, n
<1>15. \A i \in 1..n + 1 : x[i].ref = 0 <=> i \in X \cup {n + 1}
  BY <1>1, <1>2, <1>4
<1>16. ASSUME NEW i \in 1..n + 1 PROVE Stands(m, i)
  <2>1. CASE i = n + 1
    BY <1>2, <1>3, <1>13, <2>1 DEF Stands, StrongDef, NotWeakDef
  <2>2. CASE i \in 1..n
    <3>1. Stands(l, i) /\ m.lsb[i] = l.lsb[i] /\ Ref(m, i) = Ref(l, i)
          /\ m.lsb[Ref(l, i)] = l.lsb[Ref(l, i)] /\ m.defver = l.defver
      BY <1>2, <1>3, <1>4, <1>10, <1>12, <2>2
    <3> QED BY <3>1 DEF Stands
  <2> QED BY <1>1, <2>1, <2>2
<1>17. Forest(m, X \cup {n + 1})
  BY <1>2, <1>3, <1>9, <1>15, <1>16 DEF Forest
<1>18. m = [l EXCEPT !.lsb = Append(@, s)]
  BY DEF m, x
<1>19. Appended(l, m, s, X)
  BY <1>2, <1>3, <1>14, <1>17 DEF Appended, n
<1> QED BY <1>18, <1>19

\* A larger common symbol is linked like the smaller one.
Resized(l, m, X) ==
    /\ SameSymbols(l, m) /\ m.sym = l.sym /\ m.fatal = l.fatal
    /\ Forest(m, X)
    /\ \A k \in 1..Len(l.lsb) : Ref(m, k) = Ref(l, k)

LEMMA SizeForest ==
  ASSUME NEW l \in Table, NEW X, Forest(l, X),
         NEW i \in 1..Len(l.lsb), NEW z \in Sizes \cup {0}
  PROVE  Resized(l, [l EXCEPT !.lsb[i].size = z], X)
<1> DEFINE n == Len(l.lsb)
           q == l.lsb
           e == [q[i] EXCEPT !.size = z]
           x == [q EXCEPT ![i] = e]
           m == [l EXCEPT !.lsb = x]
           T == [k \in 1..n |-> Ref(l, k)]
<1>1. q \in Seq(Symbol) /\ n \in Nat /\ q[i] \in Symbol
  BY LenProperties, ElementOfSeq DEF Table
<1>2. e \in Symbol
  BY <1>1 DEF Symbol
<1>3. /\ e.name = q[i].name /\ e.ver = q[i].ver /\ e.shndx = q[i].shndx /\ e.dso = q[i].dso
      /\ e.bind = q[i].bind /\ e.provide = q[i].provide /\ e.ref = q[i].ref /\ e.prev = q[i].prev
      /\ e.ref_dso = q[i].ref_dso /\ e.ref_ndso = q[i].ref_ndso
  BY <1>1 DEF Symbol
<1>4. [l EXCEPT !.lsb[i].size = z] = m
  BY <1>1 DEF Table
<1> HIDE DEF e
<1>5. x \in Seq(Symbol) /\ Len(x) = n /\ x[i] = e /\ \A k \in 1..n : k # i => x[k] = q[k]
  <2>1. i \in 1..Len(q)
    OBVIOUS
  <2> HIDE DEF q
  <2>2. PutAt(q, i, e, x)
    BY <1>1, <1>2, <2>1, ExceptAt
  <2> QED BY <2>2 DEF PutAt, q
<1> HIDE DEF x
<1>6. m \in Table /\ m.lsb = x /\ m.defver = l.defver /\ m.sym = l.sym /\ m.fatal = l.fatal
  BY <1>5 DEF Table
<1> HIDE DEF m
<1>7. \A k \in 1..n :
        /\ x[k].name = q[k].name /\ x[k].ver = q[k].ver /\ x[k].shndx = q[k].shndx
        /\ x[k].dso = q[k].dso /\ x[k].bind = q[k].bind /\ x[k].provide = q[k].provide
        /\ x[k].ref = q[k].ref /\ x[k].prev = q[k].prev
        /\ x[k].ref_dso = q[k].ref_dso /\ x[k].ref_ndso = q[k].ref_ndso
  BY <1>3, <1>5
<1>8. SameSymbols(l, m)
  BY <1>5, <1>6, <1>7 DEF SameSymbols
<1>9. Chained(q) /\ \A k \in 1..n : (q[k].ref = 0 <=> k \in X) /\ Stands(l, k)
  BY DEF Forest
<1>10. Chained(x)
  <2>1. PICK r : Order(q, r)
    BY <1>9 DEF Chained
  <2>2. Order(x, r)
    BY <1>5, <1>7, <2>1 DEF Order
  <2>3. \A k \in 1..n : q[k].prev # 0 => q[k].prev \in 1..n /\ q[q[k].prev].ref = k
    BY <1>9 DEF Chained
  <2> HIDE DEF n
  <2>4. \A k \in 1..n : x[k].prev # 0 => x[k].prev \in 1..n /\ x[x[k].prev].ref = k
    BY <1>7, <2>3, SMTT(60)
  <2> QED BY <1>5, <2>2, <2>4 DEF Chained
<1>11. \A k \in 1..n : /\ Ref(l, k) \in 1..n
                       /\ q[k].ref = 0 => Ref(l, k) = k
                       /\ q[k].ref # 0 => q[k].ref \in 1..n /\ Ref(l, k) = Ref(l, q[k].ref)
  BY <1>1, <1>9, RefEnds
<1>12. \A k \in 1..n : Ref(m, k) = T[k]
  <2>1. \A k \in 1..n : T[k] = Ref(l, k)
    OBVIOUS
  <2> HIDE DEF T
  <2>2. ASSUME NEW k \in 1..n
        PROVE  (x[k].ref = 0 => T[k] = k) /\ (x[k].ref # 0 => T[k] = T[x[k].ref])
    <3>1. x[k].ref = q[k].ref
      BY <1>7
    <3> QED BY <1>11, <2>1, <3>1
  <2> QED BY <1>5, <1>6, <1>10, <2>2, RefIs
<1>13. \A k \in 1..n : Ref(m, k) = Ref(l, k)
  BY <1>12
<1>14. ASSUME NEW k \in 1..n PROVE Stands(m, k)
  <2> DEFINE r == Ref(l, k)
  <2>1. Stands(l, k) /\ r \in 1..n /\ Ref(m, k) = r
    BY <1>9, <1>11, <1>13
  <2>2. \A j \in 1..n : (StrongDef(x[j]) <=> StrongDef(q[j])) /\ (NotWeakDef(x[j]) <=> NotWeakDef(q[j]))
    BY <1>7 DEF StrongDef, NotWeakDef
  <2>3. /\ q[r].name = q[k].name
        /\ StrongDef(q[k]) /\ l.defver[q[k].name] = Unversioned => NotWeakDef(q[r])
        /\ q[k].ref_ndso => q[r].ref_ndso
        /\ q[k].ref_dso => q[r].ref_dso
    BY <2>1 DEF Stands
  <2> HIDE DEF r
  <2>4. /\ x[r].name = x[k].name
        /\ StrongDef(x[k]) /\ m.defver[x[k].name] = Unversioned => NotWeakDef(x[r])
    BY <1>6, <1>7, <2>1, <2>2, <2>3
  <2>5. (x[k].ref_ndso => x[r].ref_ndso) /\ (x[k].ref_dso => x[r].ref_dso)
    <3>1. /\ x[k].ref_ndso = q[k].ref_ndso /\ x[r].ref_ndso = q[r].ref_ndso
          /\ x[k].ref_dso = q[k].ref_dso /\ x[r].ref_dso = q[r].ref_dso
      BY <1>7, <2>1
    <3> QED BY <2>3, <3>1, Zenon
  <2> QED BY <1>6, <2>1, <2>4, <2>5 DEF Stands
<1>15. Forest(m, X)
  BY <1>5, <1>6, <1>7, <1>9, <1>10, <1>14 DEF Forest
<1>16. Resized(l, m, X)
  BY <1>6, <1>8, <1>13, <1>15 DEF Resized
<1> QED BY <1>4, <1>16 DEF m

----------------------------------------------------------------------------
\* A variable that is only provided never meets a definition of the linker's own.
ProvidedFirst(old, new) ==
    new.provide => new.bind = "global" /\ ~ (old.shndx = "def" /\ old.bind = "local")

\* A definition of a regular object that is not weak gives way to one like it ...
LEMMA KeepNewStands ==
  ASSUME NEW old \in Symbol, NEW new \in Symbol, KeepNew(old, new), ProvidedFirst(old, new),
         NotWeakDef(old)
  PROVE  NotWeakDef(new)
<1>1. old.bind \in {"local", "global", "weak"}
  BY DEF Symbol
<1>2. old.shndx = "def" /\ ~ old.dso /\ old.bind # "weak" /\ ~ old.provide
  BY DEF NotWeakDef
<1>3. new.shndx = "def" /\ ~ new.dso /\ new.bind # old.bind /\ new.bind # "weak"
  BY <1>2 DEF KeepNew
<1>4. new.provide => FALSE
  BY <1>1, <1>2, <1>3 DEF ProvidedFirst
<1> QED BY <1>3, <1>4 DEF NotWeakDef

\* ... and one that comes is left out only for one like it.
LEMMA KeepOldStands ==
  ASSUME NEW old \in Symbol, NEW new \in Symbol, ~ KeepNew(old, new), ~ MultiplyDefined(old, new),
         NotWeakDef(new)
  PROVE  FALSE
<1>1. new.shndx = "def" /\ ~ new.dso /\ new.bind # "weak" /\ ~ new.provide
  BY DEF NotWeakDef
<1>2. old.shndx = "def" /\ ~ old.dso /\ ~ (old.provide /\ ~ new.provide) /\ new.bind = old.bind
  BY <1>1 DEF KeepNew
<1> QED BY <1>1, <1>2 DEF MultiplyDefined

\* Chains are made of the links alone.
LEMMA SameForest ==
  ASSUME NEW l, NEW m, m.lsb = l.lsb, m.defver = l.defver
  PROVE  /\ \A i : Ref(m, i) = Ref(l, i)
         /\ \A X : Forest(l, X) => Forest(m, X)
<1>1. ASSUME NEW i PROVE Ref(m, i) = Ref(l, i)
  BY DEF Ref
<1>2. ASSUME NEW i PROVE Stands(m, i) <=> Stands(l, i)
  BY <1>1 DEF Stands
<1> QED BY <1>1, <1>2 DEF Forest

\* What becomes of o, in the table, and s, just read, when they are the same symbol.
Settled(l, m, o, s) ==
    /\ SameSymbols(l, m) /\ m.fatal = "none"
    /\ m.sym \subseteq l.sym \cup {s}
    /\ Forest(m, m.sym)
    /\ Moves(l, m)
    /\ l.lsb[s].shndx = "undef" => s \notin m.sym
    /\ l.lsb[s].shndx = "def" /\ l.lsb[s].dso /\ l.lsb[o].shndx = "undef" =>
         /\ o \notin m.sym /\ Ref(m, o) = s
         /\ \A i \in l.sym :
              Longname(l.lsb[i]) = <<l.lsb[s].name, Unversioned>> /\ l.defver[l.lsb[s].name] # Unversioned
              => Ref(m, i) = s

\* Its premises: s is the last root, and o the only entry that may have its key.
MaySettle(l, o, s) ==
    /\ Good(l) /\ l.fatal = "none" /\ o \in l.sym /\ s \in (1..Len(l.lsb)) \ l.sym
    /\ Forest(l, l.sym \cup {s})
    /\ \A i \in l.sym : Longname(l.lsb[i]) = Longname(l.lsb[s]) => i = o
    /\ l.lsb[o].name = l.lsb[s].name
    /\ ProvidedFirst(l.lsb[o], l.lsb[s])

\* The symbol just read takes the place of o.
TakesPlace(l, r, o, s) ==
    /\ SameSymbols(l, r) /\ r.fatal = l.fatal
    /\ r.sym = (l.sym \ {o}) \cup {s}
    /\ Forest(r, r.sym)
    /\ Moves(l, r)
    /\ \A i \in 1..Len(l.lsb) : Ref(r, i) = IF Ref(l, i) = o THEN s ELSE Ref(l, i)

LEMMA PreferNewLinks ==
  ASSUME NEW l, NEW o, NEW s, MaySettle(l, o, s), KeepNew(l.lsb[o], l.lsb[s])
  PROVE  TakesPlace(l, PreferNew(l, o, s), o, s)
<1> DEFINE X == l.sym \cup {s}
           j == ResolveSymbol(l, o, s)
           r == PreferNew(l, o, s)
<1>1. /\ l \in Table /\ l.sym \subseteq 1..Len(l.lsb) /\ o \in 1..Len(l.lsb) /\ s \in 1..Len(l.lsb)
      /\ o # s /\ o \in X /\ s \in X /\ Forest(l, X)
  BY DEF MaySettle, Good
<1>2. MayStand(l, o, s)
  <2>1. l.lsb[o] \in Symbol /\ l.lsb[s] \in Symbol
    BY <1>1, ElementOfSeq DEF Table
  <2>2. NotWeakDef(l.lsb[o]) => NotWeakDef(l.lsb[s])
    BY <2>1, KeepNewStands DEF MaySettle
  <2> QED BY <2>2 DEF MaySettle, MayStand
<1> HIDE DEF X
<1>3. Joins(l, j, o, s, X)
  BY <1>1, <1>2, ResolveJoins
<1>4. Moves(l, j)
  <2> HIDE DEF j
  <2> QED BY <1>1, <1>3, JoinsMoves
<1>5. j \in Table /\ s \in Nat \ {0}
  BY <1>1, <1>3 DEF Joins, SameSymbols
<1>6. r = [Delete(j, o) EXCEPT !.sym = @ \cup {s}]
  BY DEF PreferNew
<1> HIDE DEF j, r
<1>7. r \in Table /\ r.lsb = j.lsb /\ r.sym = (j.sym \ {o}) \cup {s} /\ r.defver = j.defver /\ r.fatal = j.fatal
  BY <1>5, <1>6 DEF Delete, Table
<1>8. (\A i : Ref(r, i) = Ref(j, i)) /\ Forest(r, X \ {o})
  BY <1>3, <1>7, SameForest DEF Joins
<1>9. X \ {o} = r.sym
  BY <1>1, <1>3, <1>7 DEF Joins, X
<1>10. SameSymbols(l, r)
  BY <1>3, <1>7 DEF Joins, SameSymbols
<1>11. Moves(l, r)
  BY <1>4, <1>8 DEF Moves
<1>12. TakesPlace(l, r, o, s)
  BY <1>3, <1>7, <1>8, <1>9, <1>10, <1>11 DEF TakesPlace, Joins
<1> QED BY <1>12 DEF r

\* What has been found the same twice is the same.
LEMMA SameSymbolsTransitive ==
  ASSUME NEW l, NEW m, NEW k, SameSymbols(l, m), SameSymbols(m, k)
  PROVE  SameSymbols(l, k)
  BY DEF SameSymbols

\* A definition of a DSO also takes the place of the plain name.
LEMMA JoinLinks ==
  ASSUME NEW l, NEW o, NEW s, MaySettle(l, o, s), NEW r, TakesPlace(l, r, o, s),
         l.lsb[s].shndx = "def", JoinUnversioned(r, s).fatal = "none"
  PROVE  Settled(l, JoinUnversioned(r, s), o, s)
<1> DEFINE nm == l.lsb[s].name
           plain == Find(r, <<nm, Unversioned>>)
           c == CHOOSE i \in plain : TRUE
           k == JoinUnversioned(r, s)
           n == Len(l.lsb)
<1>1. /\ l \in Table /\ n \in Nat /\ l.sym \subseteq 1..n /\ Unique(l) /\ o \in l.sym /\ s \in 1..n /\ s \notin l.sym
      /\ l.fatal = "none"
  BY LenProperties DEF MaySettle, Good, Table
<1>2. /\ r \in Table /\ Len(r.lsb) = n /\ r.defver = l.defver /\ r.fatal = l.fatal
      /\ r.sym = (l.sym \ {o}) \cup {s} /\ Forest(r, r.sym) /\ Moves(l, r)
      /\ r.lsb[s].name = nm /\ \A i \in 1..n : Longname(r.lsb[i]) = Longname(l.lsb[i])
      /\ \A i \in 1..n : r.lsb[i].name = l.lsb[i].name
  BY <1>1 DEF TakesPlace, SameSymbols, Longname
<1>3. Ref(r, o) = s /\ \A i \in r.sym : Ref(r, i) = i
  <2>1. Ref(l, o) = o
    <3>1. l.lsb \in Seq(Symbol) /\ Chained(l.lsb) /\ l.lsb[o].ref = 0 /\ o \in 1..n
      BY <1>1 DEF MaySettle, Forest, Table
    <3> QED BY <3>1, RefEnds
  <2>2. Ref(r, o) = s
    BY <1>1, <2>1 DEF TakesPlace
  <2>3. ASSUME NEW i \in r.sym PROVE Ref(r, i) = i
    <3>1. r.lsb \in Seq(Symbol) /\ Chained(r.lsb) /\ i \in 1..Len(r.lsb) /\ r.lsb[i].ref = 0
      BY <1>1, <1>2 DEF Forest, Table
    <3> QED BY <3>1, RefEnds
  <2> QED BY <2>2, <2>3
<1>4. plain \subseteq r.sym /\ \A i \in plain : i \in 1..n /\ Longname(l.lsb[i]) = <<nm, Unversioned>>
  BY <1>1, <1>2 DEF Find
<1>5. o \notin r.sym /\ r.sym \subseteq l.sym \cup {s} /\ l.lsb[s].shndx # "undef"
  BY <1>1, <1>2
<1>6. CASE l.defver[nm] = Unversioned
  <2>1. k = r
    BY <1>2, <1>6 DEF JoinUnversioned
  <2>2. Settled(l, r, o, s)
    BY <1>1, <1>2, <1>3, <1>5, <1>6 DEF Settled, TakesPlace
  <2> QED BY <2>1, <2>2
<1>7. CASE l.defver[nm] # Unversioned /\ plain = {}
  <2>1. k = r
    BY <1>2, <1>7 DEF JoinUnversioned
  <2>2. ASSUME NEW i \in l.sym, Longname(l.lsb[i]) = <<nm, Unversioned>> PROVE Ref(r, i) = s
    <3>1. i \notin plain /\ Longname(r.lsb[i]) = <<nm, Unversioned>>
      BY <1>1, <1>2, <1>7, <2>2
    <3>2. i = o
      BY <1>2, <3>1 DEF Find
    <3> QED BY <1>3, <3>2
  <2>3. Settled(l, r, o, s)
    BY <1>1, <1>2, <1>3, <1>5, <2>2 DEF Settled, TakesPlace
  <2> QED BY <2>1, <2>3
<1>8. CASE l.defver[nm] # Unversioned /\ plain # {}
  <2>1. c \in plain
    BY <1>8
  <2>2. k = IF c = s THEN ResolveSymbol(r, c, s) ELSE Delete(ResolveSymbol(r, c, s), c)
    BY <1>2, <1>8 DEF JoinUnversioned
  <2> HIDE DEF c
  <2>3. c # s
    <3>1. c = s => k = [r EXCEPT !.fatal = "assert"]
      BY <2>2 DEF ResolveSymbol
    <3>2. [r EXCEPT !.fatal = "assert"].fatal = "assert"
      BY <1>2 DEF Table
    <3> QED BY <3>1, <3>2
  <2> DEFINE j == ResolveSymbol(r, c, s)
  <2>4. c \in 1..Len(r.lsb) /\ s \in 1..Len(r.lsb) /\ c \in r.sym /\ s \in r.sym
    BY <1>1, <1>2, <1>4, <2>1
  <2>5. MayStand(r, c, s)
    BY <1>1, <1>2, <1>4, <1>8, <2>1 DEF MayStand, Longname
  <2>6. Joins(r, j, c, s, r.sym)
    BY <1>2, <2>3, <2>4, <2>5, ResolveJoins
  <2>7. k = Delete(j, c)
    BY <2>2, <2>3
  <2> HIDE DEF j, k
  <2>8. Moves(r, j)
    BY <1>2, <2>6, JoinsMoves
  <2>9. /\ k \in Table /\ k.lsb = j.lsb /\ k.sym = r.sym \ {c} /\ k.defver = j.defver /\ k.fatal = "none"
    BY <1>1, <1>2, <2>6, <2>7 DEF Joins, SameSymbols, Delete, Table
  <2>10. (\A i : Ref(k, i) = Ref(j, i)) /\ Forest(k, k.sym)
    BY <2>6, <2>9, SameForest DEF Joins
  <2>11. SameSymbols(l, k)
    <3>1. SameSymbols(r, k)
      BY <2>6, <2>9 DEF Joins, SameSymbols
    <3> QED BY <3>1, SameSymbolsTransitive DEF TakesPlace
  <2>12. Moves(l, k)
    <3>1. Moves(r, k)
      BY <2>8, <2>10 DEF Moves
    <3> QED BY <1>1, <1>2, <3>1, MovesTransitive
  <2>13. Ref(k, o) = s /\ \A i \in r.sym : i = c => Ref(k, i) = s
    <3>1. \A i \in 1..n : Ref(k, i) = IF Ref(r, i) = c THEN s ELSE Ref(r, i)
      BY <1>2, <2>6, <2>10 DEF Joins
    <3> QED BY <1>1, <1>2, <1>3, <3>1
  <2>14. ASSUME NEW i \in l.sym, Longname(l.lsb[i]) = <<nm, Unversioned>> PROVE Ref(k, i) = s
    <3>1. CASE i = o
      BY <2>13, <3>1
    <3>2. CASE i # o
      <4>1. c \in l.sym /\ Longname(l.lsb[c]) = Longname(l.lsb[i])
        BY <1>2, <1>4, <2>1, <2>3, <2>14
      <4>2. i = c
        BY <1>1, <4>1 DEF Unique
      <4> QED BY <2>4, <2>13, <4>2
    <3> QED BY <3>1, <3>2
  <2> HIDE DEF nm
  <2>15. Settled(l, k, o, s)
    BY <1>5, <2>9, <2>10, <2>11, <2>12, <2>13, <2>14 DEF Settled, nm
  <2> QED BY <2>15 DEF k
<1> QED BY <1>6, <1>7, <1>8

LEMMA SettleLinks ==
  ASSUME NEW l, NEW o, NEW s, MaySettle(l, o, s), Settle(l, o, s).fatal = "none"
  PROVE  Settled(l, Settle(l, o, s), o, s)
<1> DEFINE old == l.lsb[o]
           new == l.lsb[s]
           size == IF BothCommon(old, new) THEN Larger(old.size, new.size) ELSE 0
           n == Len(l.lsb)
           X == l.sym \cup {s}
           m == Settle(l, o, s)
<1>1. /\ l \in Table /\ n \in Nat /\ l.sym \subseteq 1..n /\ o \in l.sym /\ s \in 1..n /\ s \notin l.sym
      /\ l.fatal = "none" /\ o \in 1..n /\ o # s /\ Forest(l, X)
  BY LenProperties DEF MaySettle, Good, Table
<1>2. old \in Symbol /\ new \in Symbol
  BY <1>1, ElementOfSeq DEF Table
<1>3. size \in Sizes \cup {0}
  BY <1>2 DEF Symbol, Larger
<1> HIDE DEF size
<1>4. (old.type = "tls") = (new.type = "tls")
  <2>1. [l EXCEPT !.fatal = "tls"].fatal = "tls"
    BY <1>1 DEF Table
  <2>2. (old.type = "tls") # (new.type = "tls") => m = [l EXCEPT !.fatal = "tls"]
    BY DEF Settle
  <2> HIDE DEF m
  <2>3. m.fatal = "none"
    BY DEF m
  <2> QED BY <2>1, <2>2, <2>3
<1>5. ~ MultiplyDefined(old, new)
  <2>1. [l EXCEPT !.fatal = "multiple"].fatal = "multiple"
    BY <1>1 DEF Table
  <2>2. MultiplyDefined(old, new) => m = [l EXCEPT !.fatal = "multiple"]
    BY <1>4 DEF Settle
  <2> HIDE DEF m
  <2>3. m.fatal = "none"
    BY DEF m
  <2> QED BY <2>1, <2>2, <2>3
<1>6. m = IF KeepNew(old, new)
          THEN LET r == PreferNew(l, o, s)
               IN  IF new.shndx = "def" /\ new.dso THEN JoinUnversioned(r, s)
                   ELSE IF BothCommon(old, new) THEN [r EXCEPT !.lsb[s].size = size]
                   ELSE r
          ELSE LET r == PreferOld(l, o, s)
               IN  IF BothCommon(old, new) THEN [r EXCEPT !.lsb[o].size = size] ELSE r
  BY <1>4, <1>5 DEF Settle, size
<1>7. m.fatal = "none"
  OBVIOUS
<1> HIDE DEF m
<1>8. CASE KeepNew(old, new)
  <2> DEFINE r == PreferNew(l, o, s)
  <2>1. TakesPlace(l, r, o, s)
    BY <1>8, PreferNewLinks
  <2> HIDE DEF r
  <2>2. /\ r \in Table /\ Len(r.lsb) = n /\ r.fatal = "none" /\ r.sym = (l.sym \ {o}) \cup {s}
        /\ Forest(r, r.sym) /\ Moves(l, r) /\ SameSymbols(l, r)
    BY <1>1, <2>1 DEF TakesPlace, SameSymbols
  <2>3. new.shndx # "undef"
    BY <1>8 DEF KeepNew
  <2>4. CASE new.shndx = "def" /\ new.dso
    <3>1. m = JoinUnversioned(r, s)
      BY <1>6, <1>8, <2>4 DEF r
    <3> QED BY <1>7, <2>1, <2>4, <3>1, JoinLinks DEF m
  <2>5. CASE ~ (new.shndx = "def" /\ new.dso)
    <3>1. CASE BothCommon(old, new)
      <4> DEFINE k == [r EXCEPT !.lsb[s].size = size]
      <4>1. m = k
        BY <1>6, <1>8, <2>5, <3>1 DEF r
      <4>2. Resized(r, k, r.sym)
        <5>1. s \in 1..Len(r.lsb)
          BY <1>1, <2>2
        <5> QED BY <1>3, <2>2, <5>1, SizeForest
      <4> HIDE DEF k
      <4>3. SameSymbols(l, k)
        BY <2>2, <4>2, SameSymbolsTransitive DEF Resized
      <4>4. Moves(l, k)
        <5>1. \A i \in 1..n : Ref(k, i) = Ref(r, i)
          BY <2>2, <4>2 DEF Resized
        <5> HIDE DEF n
        <5> QED BY <2>2, <5>1 DEF Moves, n
      <4>5. k.fatal = "none" /\ k.sym = r.sym /\ Forest(k, k.sym)
        BY <2>2, <4>2 DEF Resized
      <4> HIDE DEF old, new
      <4>6. Settled(l, k, o, s)
        BY <2>2, <2>3, <2>5, <4>3, <4>4, <4>5 DEF Settled, new
      <4> QED BY <4>1, <4>6 DEF m
    <3>2. CASE ~ BothCommon(old, new)
      <4>1. m = r
        BY <1>6, <1>8, <2>5, <3>2 DEF r
      <4>2. Settled(l, r, o, s)
        BY <2>2, <2>3, <2>5 DEF Settled
      <4> QED BY <4>1, <4>2 DEF m
    <3> QED BY <3>1, <3>2
  <2> QED BY <2>4, <2>5
<1>9. CASE ~ KeepNew(old, new)
  <2> DEFINE r == PreferOld(l, o, s)
  <2>1. MayStand(l, s, o)
    <3>1. ~ NotWeakDef(new)
      BY <1>2, <1>5, <1>9, KeepOldStands
    <3> QED BY <3>1 DEF MayStand, MaySettle
  <2>2. Joins(l, r, s, o, X)
    <3>1. r = ResolveSymbol(l, s, o)
      BY DEF PreferOld
    <3>2. s \in X /\ o \in X
      BY <1>1
    <3> HIDE DEF X, r
    <3>3. Joins(l, ResolveSymbol(l, s, o), s, o, X)
      BY <1>1, <2>1, <3>2, ResolveJoins
    <3> QED BY <3>1, <3>3
  <2> HIDE DEF r
  <2>3. Moves(l, r)
    <3> HIDE DEF X
    <3> QED BY <1>1, <2>2, JoinsMoves
  <2>4. X \ {s} = l.sym
    BY <1>1
  <2>5. /\ r \in Table /\ Len(r.lsb) = n /\ r.fatal = "none" /\ r.sym = l.sym
        /\ Forest(r, r.sym) /\ SameSymbols(l, r)
    BY <1>1, <2>2, <2>4 DEF Joins, SameSymbols
  <2>6. ~ (new.shndx = "def" /\ new.dso /\ old.shndx = "undef")
    BY <1>9 DEF KeepNew
  <2>7. CASE BothCommon(old, new)
    <3> DEFINE k == [r EXCEPT !.lsb[o].size = size]
    <3>1. m = k
      BY <1>6, <1>9, <2>7 DEF r
    <3>2. Resized(r, k, r.sym)
      <4>1. o \in 1..Len(r.lsb)
        BY <1>1, <2>5
      <4> QED BY <1>3, <2>5, <4>1, SizeForest
    <3> HIDE DEF k
    <3>3. SameSymbols(l, k)
      BY <2>5, <3>2, SameSymbolsTransitive DEF Resized
    <3>4. Moves(l, k)
      <4>1. \A i \in 1..n : Ref(k, i) = Ref(r, i)
        BY <2>5, <3>2 DEF Resized
      <4> HIDE DEF n
      <4> QED BY <2>3, <4>1 DEF Moves, n
    <3>5. k.fatal = "none" /\ k.sym = r.sym /\ Forest(k, k.sym)
      BY <2>5, <3>2 DEF Resized
    <3> HIDE DEF old, new
    <3>6. Settled(l, k, o, s)
      BY <1>1, <2>5, <2>6, <3>3, <3>4, <3>5 DEF Settled, old, new
    <3> QED BY <3>1, <3>6 DEF m
  <2>8. CASE ~ BothCommon(old, new)
    <3>1. m = r
      BY <1>6, <1>9, <2>8 DEF r
    <3>2. Settled(l, r, o, s)
      BY <1>1, <2>3, <2>5, <2>6 DEF Settled
    <3> QED BY <3>1, <3>2 DEF m
  <2> QED BY <2>7, <2>8
<1> QED BY <1>8, <1>9

----------------------------------------------------------------------------
\* The premises of adding the symbol s, and what it does.
MayAdd(l, s) ==
    /\ Good(l) /\ l.fatal = "none" /\ Forest(l, l.sym)
    /\ s \in Symbol /\ s.ref = 0 /\ s.prev = 0
    /\ \A i \in 1..Len(l.lsb) : ProvidedFirst(l.lsb[i], s)

Entered(l, m, s) ==
    LET n == Len(l.lsb) + 1 IN
    /\ m.fatal = "none" /\ Len(m.lsb) = n /\ m.defver = l.defver
    /\ \A k \in 1..Len(l.lsb) :
          /\ m.lsb[k].name = l.lsb[k].name /\ m.lsb[k].ver = l.lsb[k].ver
          /\ m.lsb[k].shndx = l.lsb[k].shndx /\ m.lsb[k].bind = l.lsb[k].bind
    /\ m.lsb[n].name = s.name /\ m.lsb[n].ver = s.ver
    /\ m.lsb[n].shndx = s.shndx /\ m.lsb[n].bind = s.bind
    /\ Forest(m, m.sym) /\ Moves(l, m)
    /\ m.sym \subseteq l.sym \cup {n}
    /\ s.shndx = "undef" /\ n \in m.sym => Match(l, s) = {}
    /\ s.shndx = "def" /\ s.dso =>
         \A o \in Match(l, s) : l.lsb[o].shndx = "undef" =>
            /\ o \notin m.sym /\ Ref(m, o) = n
            /\ \A i \in l.sym :
                 Longname(l.lsb[i]) = <<s.name, Unversioned>> /\ l.defver[s.name] # Unversioned
                 => Ref(m, i) = n

\* What a default version may identify with a symbol is one entry of its name.
LEMMA MatchOne ==
  ASSUME NEW l, Good(l), NEW s
  PROVE  /\ Match(l, s) \subseteq l.sym
         /\ \A i, j \in Match(l, s) : i = j
         /\ \A i \in Match(l, s) : l.lsb[i].name = s.name
         /\ \A i \in l.sym : Longname(l.lsb[i]) = Longname(s) => i \in Match(l, s)
<1>1. Unique(l)
  BY DEF Good
<1>2. \A key : \A i, j \in Find(l, key) : i = j
  BY <1>1 DEF Find, Unique
<1>3. \A i, j \in Match(l, s) : i = j
  BY <1>2 DEF Match
<1>4. \A nm, v : \A i \in Find(l, <<nm, v>>) : l.lsb[i].name = nm
  BY DEF Find, Longname
<1>5. \A i \in Match(l, s) : l.lsb[i].name = s.name
  BY <1>4 DEF Match, Longname
<1>6. Match(l, s) \subseteq l.sym
  BY DEF Match, Find
<1>7. \A i \in l.sym : Longname(l.lsb[i]) = Longname(s) => i \in Match(l, s)
  BY DEF Match, Find
<1> QED BY <1>3, <1>5, <1>6, <1>7

\* _resolve_and_add_symbol.
LEMMA AddLinks ==
  ASSUME NEW l, NEW s, MayAdd(l, s), ResolveAndAdd(l, s).fatal = "none"
  PROVE  Entered(l, ResolveAndAdd(l, s), s)
<1> DEFINE n == Len(l.lsb) + 1
           a == [l EXCEPT !.lsb = Append(@, s)]
           M == Match(l, s)
           o == CHOOSE i \in M : TRUE
           m == ResolveAndAdd(l, s)
<1>1. /\ l \in Table /\ Len(l.lsb) \in Nat /\ l.sym \subseteq 1..Len(l.lsb) /\ Unique(l)
      /\ Forest(l, l.sym) /\ s \in Symbol /\ s.ref = 0 /\ s.prev = 0 /\ l.fatal = "none"
  BY LenProperties DEF MayAdd, Good, Table
<1>2. Appended(l, a, s, l.sym)
  BY <1>1, AppendForest
<1>3. a.sym = l.sym /\ a.fatal = l.fatal /\ a.defver = l.defver
  BY <1>1 DEF Table
<1>4. m = IF M = {} THEN [a EXCEPT !.sym = @ \cup {n}] ELSE Settle(a, o, n)
  BY DEF ResolveAndAdd
<1> HIDE DEF a, m, n
<1>5. /\ a \in Table /\ Len(a.lsb) = n /\ a.lsb[n] = s /\ Forest(a, l.sym \cup {n}) /\ Moves(l, a)
      /\ \A k \in 1..Len(l.lsb) : a.lsb[k] = l.lsb[k]
  BY <1>2 DEF Appended, n
<1>6. n \in Nat \ {0} /\ n \notin l.sym /\ n \in 1..n /\ \A k \in 1..Len(l.lsb) : k \in 1..n
  BY <1>1 DEF n
<1>7. /\ M \subseteq l.sym /\ (\A i, j \in M : i = j) /\ (\A i \in M : l.lsb[i].name = s.name)
      /\ \A i \in l.sym : Longname(l.lsb[i]) = Longname(s) => i \in M
  BY MatchOne DEF MayAdd
<1> HIDE DEF M
<1>8. CASE M = {}
  <2>1. /\ m.lsb = a.lsb /\ m.sym = l.sym \cup {n} /\ m.defver = l.defver /\ m.fatal = "none"
    BY <1>1, <1>3, <1>4, <1>5, <1>8 DEF Table
  <2>2. (\A i : Ref(m, i) = Ref(a, i)) /\ Forest(m, m.sym)
    BY <1>3, <1>5, <2>1, SameForest
  <2>3. Moves(l, m)
    BY <1>5, <2>2 DEF Moves
  <2>4. Entered(l, m, s)
    BY <1>1, <1>5, <1>6, <1>8, <2>1, <2>2, <2>3 DEF Entered, n, M
  <2> QED BY <2>4 DEF m
<1>9. CASE M # {}
  <2>1. o \in M
    BY <1>9
  <2>2. m = Settle(a, o, n)
    BY <1>4, <1>9
  <2> HIDE DEF o
  <2>3. o \in l.sym /\ o \in 1..Len(l.lsb) /\ l.lsb[o].name = s.name
    BY <1>1, <1>7, <2>1
  <2>4. MaySettle(a, o, n)
    <3>1. Good(a)
      <4>1. a.sym \subseteq 1..Len(a.lsb)
        BY <1>1, <1>3, <1>5, <1>6
      <4>2. Unique(a)
        BY <1>1, <1>3, <1>5 DEF Unique
      <4> QED BY <1>5, <4>1, <4>2 DEF Good
    <3>2. \A i \in a.sym : Longname(a.lsb[i]) = Longname(a.lsb[n]) => i = o
      BY <1>1, <1>3, <1>5, <1>7, <2>1
    <3>3. ProvidedFirst(a.lsb[o], a.lsb[n]) /\ a.lsb[o].name = a.lsb[n].name
      BY <1>5, <2>3 DEF MayAdd
    <3> QED BY <1>1, <1>3, <1>5, <1>6, <2>3, <3>1, <3>2, <3>3 DEF MaySettle
  <2>5. m.fatal = "none"
    BY DEF m
  <2>6. Settled(a, m, o, n)
    BY <2>2, <2>4, <2>5, SettleLinks
  <2>7. Moves(l, m)
    <3>1. Moves(a, m)
      BY <2>6 DEF Settled
    <3>2. Len(a.lsb) \in Nat /\ Len(l.lsb) <= Len(a.lsb)
      BY <1>1, <1>5 DEF n
    <3> QED BY <1>1, <1>5, <3>1, <3>2, MovesTransitive
  <2>8. /\ Len(m.lsb) = n /\ m.defver = l.defver /\ m.sym \subseteq l.sym \cup {n} /\ Forest(m, m.sym)
        /\ \A k \in 1..Len(l.lsb) :
              /\ m.lsb[k].name = l.lsb[k].name /\ m.lsb[k].ver = l.lsb[k].ver
              /\ m.lsb[k].shndx = l.lsb[k].shndx /\ m.lsb[k].bind = l.lsb[k].bind
        /\ m.lsb[n].name = s.name /\ m.lsb[n].ver = s.ver
        /\ m.lsb[n].shndx = s.shndx /\ m.lsb[n].bind = s.bind
    BY <1>3, <1>5, <1>6, <2>6 DEF Settled, SameSymbols
  <2>9. s.shndx = "undef" => n \notin m.sym
    BY <1>5, <2>6 DEF Settled
  <2>10. ASSUME s.shndx = "def", s.dso, NEW p \in M, l.lsb[p].shndx = "undef"
         PROVE  /\ p \notin m.sym /\ Ref(m, p) = n
                /\ \A i \in l.sym :
                     Longname(l.lsb[i]) = <<s.name, Unversioned>> /\ l.defver[s.name] # Unversioned
                     => Ref(m, i) = n
    <3>1. p = o
      BY <1>7, <2>1
    <3>2. a.lsb[n].shndx = "def" /\ a.lsb[n].dso /\ a.lsb[o].shndx = "undef"
      BY <1>5, <2>3, <2>10, <3>1
    <3>3. /\ o \notin m.sym /\ Ref(m, o) = n
          /\ \A i \in a.sym :
               Longname(a.lsb[i]) = <<a.lsb[n].name, Unversioned>> /\ a.defver[a.lsb[n].name] # Unversioned
               => Ref(m, i) = n
      BY <2>6, <3>2 DEF Settled
    <3> QED BY <1>1, <1>3, <1>5, <3>1, <3>3
  <2>11. Entered(l, m, s)
    BY <2>5, <2>7, <2>8, <2>9, <2>10 DEF Entered, n, M
  <2> QED BY <2>11 DEF m
<1> QED BY <1>8, <1>9

----------------------------------------------------------------------------
\* A plain name and its default version, both undefined, come to one symbol.
JoinedIn(l, m) ==
    \A i, j \in l.sym :
        /\ l.lsb[i].name = l.lsb[j].name
        /\ l.lsb[i].shndx = "undef" /\ l.lsb[j].shndx = "undef"
        /\ l.lsb[i].ver = Unversioned
        /\ l.lsb[j].ver = m.defver[l.lsb[j].name]
        => Ref(m, i) = Ref(m, j)

\* What each step does to the links.
LinkStep(l, m) == LinksGood(m) /\ Moves(l, m) /\ JoinedIn(l, m)

\* The plain name n and its default version are apart, or the symbol s is the
\* definition that gives n its default version.
ApartOrDefined(l, s, n) ==
    \/ NotBoth(l, n)
    \/ n = s.name /\ s.shndx = "def" /\ s.dso /\ s.ver = l.defver[n]

LEMMA EnteredApart ==
  ASSUME NEW l, NEW m, NEW s, MayAdd(l, s), Entered(l, m, s), NEW n, ApartOrDefined(l, s, n)
  PROVE  NotBoth(m, n)
<1> DEFINE N == Len(l.lsb) + 1
<1>1. /\ Len(l.lsb) \in Nat /\ l.sym \subseteq 1..Len(l.lsb)
  BY LenProperties DEF MayAdd, Good, Table
<1>2. /\ m.sym \subseteq l.sym \cup {N} /\ m.defver = l.defver
      /\ m.lsb[N].name = s.name /\ m.lsb[N].ver = s.ver /\ m.lsb[N].shndx = s.shndx
      /\ s.shndx = "undef" /\ N \in m.sym => Match(l, s) = {}
  BY DEF Entered
<1>3. \A k \in l.sym : /\ m.lsb[k].name = l.lsb[k].name /\ m.lsb[k].ver = l.lsb[k].ver
                       /\ m.lsb[k].shndx = l.lsb[k].shndx
  BY <1>1 DEF Entered
<1> SUFFICES ASSUME NEW i \in m.sym, NEW j \in m.sym,
                    m.lsb[i].name = n, m.lsb[i].shndx = "undef", m.lsb[i].ver = Unversioned,
                    m.lsb[j].name = n, m.lsb[j].shndx = "undef", m.lsb[j].ver = m.defver[n],
                    m.defver[n] # Unversioned
             PROVE  FALSE
  BY DEF NotBoth
<1> HIDE DEF N
<1>4. CASE i = N
  <2>1. Match(l, s) = {} /\ s.name = n /\ s.ver = Unversioned /\ l.defver[n] # Unversioned
    BY <1>2, <1>4
  <2>2. j \in l.sym /\ Longname(l.lsb[j]) = <<n, l.defver[n]>>
    BY <1>2, <1>3, <1>4 DEF Longname
  <2>3. j \in Find(l, <<n, l.defver[n]>>)
    BY <2>2 DEF Find
  <2> QED BY <2>1, <2>3 DEF Match
<1>5. CASE j = N
  <2>1. Match(l, s) = {} /\ s.name = n /\ s.ver = l.defver[n] /\ l.defver[n] # Unversioned
    BY <1>2, <1>5
  <2>2. i \in l.sym /\ Longname(l.lsb[i]) = <<n, Unversioned>>
    BY <1>2, <1>3, <1>5 DEF Longname
  <2>3. i \in Find(l, <<n, Unversioned>>)
    BY <2>2 DEF Find
  <2> QED BY <2>1, <2>3 DEF Match
<1>6. CASE i # N /\ j # N
  <2>1. /\ i \in l.sym /\ j \in l.sym
        /\ l.lsb[i].name = n /\ l.lsb[i].shndx = "undef" /\ l.lsb[i].ver = Unversioned
        /\ l.lsb[j].name = n /\ l.lsb[j].shndx = "undef" /\ l.lsb[j].ver = l.defver[n]
        /\ l.defver[n] # Unversioned
    BY <1>2, <1>3, <1>6
  <2>2. ~ NotBoth(l, n)
    BY <2>1 DEF NotBoth
  <2>3. n = s.name /\ s.shndx = "def" /\ s.dso /\ s.ver = l.defver[n]
    BY <2>2 DEF ApartOrDefined
  <2>4. j \in Match(l, s)
    <3>1. Longname(l.lsb[j]) = Longname(s)
      BY <2>1, <2>3 DEF Longname
    <3> QED BY <2>1, <3>1, MatchOne DEF MayAdd
  <2>5. j \notin m.sym
    BY <2>1, <2>3, <2>4 DEF Entered
  <2> QED BY <2>5
<1> QED BY <1>4, <1>5, <1>6

\* Two entries with the same name and version are one.
LEMMA JoinedSame ==
  ASSUME NEW l, Good(l), NEW m, NEW i \in l.sym, NEW j \in l.sym,
         l.lsb[i].name = l.lsb[j].name, l.lsb[i].ver = l.lsb[j].ver
  PROVE  i = j
  BY DEF Good, Unique, Longname

\* A symbol added without a new default version.
LEMMA PlainStep ==
  ASSUME NEW l, NEW s, MayAdd(l, s), LinksGood(l), ResolveAndAdd(l, s).fatal = "none"
  PROVE  LinkStep(l, ResolveAndAdd(l, s)) /\ Entered(l, ResolveAndAdd(l, s), s)
<1> DEFINE m == ResolveAndAdd(l, s)
<1>1. Entered(l, m, s)
  BY AddLinks
<1> HIDE DEF m
<1>2. \A n \in Names : NotBoth(l, n)
  BY DEF LinksGood, MayAdd
<1>3. \A n \in Names : NotBoth(m, n)
  BY <1>1, <1>2, EnteredApart DEF ApartOrDefined
<1>4. LinksGood(m) /\ Moves(l, m)
  BY <1>1, <1>3 DEF LinksGood, Entered
<1>5. JoinedIn(l, m)
  <2> SUFFICES ASSUME NEW i \in l.sym, NEW j \in l.sym,
                      l.lsb[i].name = l.lsb[j].name,
                      l.lsb[i].shndx = "undef", l.lsb[j].shndx = "undef",
                      l.lsb[i].ver = Unversioned, l.lsb[j].ver = m.defver[l.lsb[j].name]
               PROVE  Ref(m, i) = Ref(m, j)
    BY DEF JoinedIn
  <2>1. m.defver = l.defver
    BY <1>1 DEF Entered
  <2>2. Good(l)
    BY DEF MayAdd
  <2>3. l.lsb[j].name \in Names
    <3>1. l.lsb[j] \in Symbol
      BY <2>2, ElementOfSeq DEF Good, Table
    <3> QED BY <3>1 DEF Symbol
  <2>4. CASE l.lsb[j].ver = Unversioned
    BY <2>2, <2>4, JoinedSame
  <2>5. CASE l.lsb[j].ver # Unversioned
    <3>1. NotBoth(l, l.lsb[j].name)
      BY <1>2, <2>3
    <3> QED BY <2>1, <2>5, <3>1 DEF NotBoth
  <2> QED BY <2>4, <2>5
<1>6. LinkStep(l, m)
  BY <1>4, <1>5 DEF LinkStep
<1> QED BY <1>1, <1>6 DEF m

\* A symbol of an input file, which may give its name a default version.
LEMMA ElfStep ==
  ASSUME NEW l, Good(l), l.fatal = "none", LinksGood(l),
         NEW s \in Symbol, s.ref = 0, s.prev = 0, ~ s.provide, NEW dflt \in BOOLEAN,
         dflt => s.ver # Unversioned,
         dflt /\ s.ver # Unversioned /\ s.shndx # "undef" => s.shndx = "def" /\ s.dso,
         NEW m, m = AddElfSymbol(l, s, dflt), m.fatal = "none"
  PROVE  LinkStep(l, m)
<1> DEFINE new == dflt /\ s.ver # Unversioned /\ s.shndx # "undef"
           k == IF new THEN [l EXCEPT !.defver[s.name] = s.ver] ELSE l
           t == [s EXCEPT !.ref_dso = s.dso, !.ref_ndso = ~ s.dso]
           N == Len(l.lsb) + 1
<1>1. /\ l \in Table /\ Len(l.lsb) \in Nat /\ l.sym \subseteq 1..Len(l.lsb) /\ Unique(l)
      /\ Forest(l, l.sym) /\ \A n \in Names : NotBoth(l, n)
  BY LenProperties DEF LinksGood, Good, Table
<1>2. /\ t \in Symbol /\ t.ref = 0 /\ t.prev = 0 /\ t.name = s.name /\ t.ver = s.ver /\ t.shndx = s.shndx
      /\ t.dso = s.dso /\ t.provide = s.provide
  BY DEF Symbol
<1>3. m = ResolveAndAdd(k, t)
  BY DEF AddElfSymbol
<1>4. s.name \in Names /\ s.ver \in Versions \cup {Unversioned}
  BY DEF Symbol
<1> HIDE DEF t, new
<1>5. /\ k \in Table /\ k.lsb = l.lsb /\ k.sym = l.sym /\ k.fatal = l.fatal
      /\ \A n \in Names : k.defver[n] = IF new /\ n = s.name THEN s.ver ELSE l.defver[n]
  BY <1>1, <1>4 DEF Table
<1>6. new => s.ver # Unversioned /\ s.shndx = "def" /\ s.dso
  BY DEF new
<1> HIDE DEF k
<1>7. Good(k)
  BY <1>1, <1>5 DEF Good, Unique
<1>8. \A i : Ref(k, i) = Ref(l, i)
  BY <1>5 DEF Ref
<1>9. Forest(k, k.sym)
  <2>1. ASSUME NEW i \in 1..Len(l.lsb), Stands(l, i) PROVE Stands(k, i)
    <3>1. l.lsb[i].name \in Names
      <4>1. l.lsb[i] \in Symbol
        BY <1>1, ElementOfSeq DEF Table
      <4> QED BY <4>1 DEF Symbol
    <3>2. k.defver[l.lsb[i].name] = Unversioned => l.defver[l.lsb[i].name] = Unversioned
      BY <1>5, <1>6, <3>1
    <3>3. Ref(k, i) = Ref(l, i) /\ k.lsb = l.lsb
      BY <1>5, <1>8
    <3> QED BY <2>1, <3>2, <3>3 DEF Stands
  <2> QED BY <1>1, <1>5, <2>1 DEF Forest
<1>10. MayAdd(k, t)
  BY <1>2, <1>5, <1>7, <1>9 DEF MayAdd, ProvidedFirst
<1>11. Entered(k, m, t)
  BY <1>3, <1>10, AddLinks
<1>12. ASSUME NEW n \in Names PROVE ApartOrDefined(k, t, n)
  <2>1. CASE new /\ n = s.name
    BY <1>2, <1>5, <1>6, <2>1 DEF ApartOrDefined
  <2>2. CASE ~ (new /\ n = s.name)
    BY <1>1, <1>5, <2>2 DEF ApartOrDefined, NotBoth
  <2> QED BY <2>1, <2>2
<1>13. \A n \in Names : NotBoth(m, n)
  BY <1>10, <1>11, <1>12, EnteredApart
<1>14. LinksGood(m)
  BY <1>11, <1>13 DEF LinksGood, Entered
<1>15. Moves(l, m)
  BY <1>5, <1>8, <1>11 DEF Entered, Moves
<1>16. JoinedIn(l, m)
  <2> SUFFICES ASSUME NEW i \in l.sym, NEW j \in l.sym,
                      l.lsb[i].name = l.lsb[j].name,
                      l.lsb[i].shndx = "undef", l.lsb[j].shndx = "undef",
                      l.lsb[i].ver = Unversioned, l.lsb[j].ver = m.defver[l.lsb[j].name]
               PROVE  Ref(m, i) = Ref(m, j)
    BY DEF JoinedIn
  <2> DEFINE nm == l.lsb[j].name
  <2>1. m.defver = k.defver
    BY <1>11 DEF Entered
  <2>2. nm \in Names
    <3>1. l.lsb[j] \in Symbol
      BY <1>1, ElementOfSeq DEF Table
    <3> QED BY <3>1 DEF Symbol
  <2>3. CASE l.lsb[j].ver = Unversioned
    BY <2>3, JoinedSame
  <2>4. CASE l.lsb[j].ver # Unversioned /\ ~ (new /\ nm = s.name)
    <3>1. l.defver[nm] = l.lsb[j].ver
      BY <1>5, <2>1, <2>2, <2>4
    <3>2. NotBoth(l, nm)
      BY <1>1, <2>2
    <3> QED BY <2>4, <3>1, <3>2 DEF NotBoth
  <2>5. CASE l.lsb[j].ver # Unversioned /\ new /\ nm = s.name
    <3>1. l.lsb[j].ver = s.ver /\ k.defver[t.name] # Unversioned
      BY <1>2, <1>5, <2>1, <2>2, <2>5
    <3>2. j \in Match(k, t)
      <4>1. Longname(k.lsb[j]) = Longname(t) /\ j \in k.sym
        BY <1>2, <1>5, <2>5, <3>1 DEF Longname
      <4> QED BY <1>7, <4>1, MatchOne
    <3>3. t.shndx = "def" /\ t.dso /\ k.lsb[j].shndx = "undef"
      BY <1>2, <1>5, <1>6, <2>5
    <3>4. i \in k.sym /\ Longname(k.lsb[i]) = <<t.name, Unversioned>>
      BY <1>2, <1>5, <2>5 DEF Longname
    <3>5. Ref(m, j) = Len(k.lsb) + 1 /\ Ref(m, i) = Len(k.lsb) + 1
      BY <1>11, <3>1, <3>2, <3>3, <3>4 DEF Entered
    <3> QED BY <3>5
  <2> QED BY <2>3, <2>4, <2>5
<1> QED BY <1>14, <1>15, <1>16 DEF LinkStep

----------------------------------------------------------------------------
\* The empty table has no chains.
LEMMA ChainInit == Init => ChainInv
<1> SUFFICES ASSUME Init PROVE ChainInv
  OBVIOUS
<1>1. ld = NoSymbols /\ stage = "options"
  BY DEF Init
<1>2. /\ ld.lsb = <<>> /\ ld.sym = {} /\ Len(ld.lsb) = 0
      /\ \A n \in Names : ld.defver[n] = Unversioned
  BY <1>1 DEF NoSymbols
<1>3. Chained(ld.lsb)
  BY <1>2 DEF Chained, Order
<1>4. Forest(ld, ld.sym) /\ \A n \in Names : NotBoth(ld, n)
  BY <1>2, <1>3 DEF Forest, NotBoth
<1> QED BY <1>2, <1>4, ResolveInit DEF ChainInv, LinksGood, OptionsOnly

\* What the steps of ld rely on.
LEMMA ChainFacts ==
  ASSUME ChainInv, Running
  PROVE  /\ Good(ld) /\ ld \in Table /\ ld.fatal = "none" /\ LinksGood(ld) /\ Forest(ld, ld.sym)
         /\ ld.sym \subseteq 1..Len(ld.lsb) /\ Len(ld.lsb) \in Nat
         /\ \A n \in Names : NotBoth(ld, n)
         /\ \A i \in 1..Len(ld.lsb) : ld.lsb[i].name \in Names
<1>1. Good(ld) /\ ld \in Table /\ ld.fatal = "none" /\ LinksGood(ld) /\ ld.sym \subseteq 1..Len(ld.lsb)
  BY DEF ChainInv, ResolveInv, Running, Good
<1>2. ld.lsb \in Seq(Symbol) /\ Len(ld.lsb) \in Nat
  BY <1>1, LenProperties DEF Table
<1>3. ASSUME NEW i \in 1..Len(ld.lsb) PROVE ld.lsb[i].name \in Names
  <2>1. ld.lsb[i] \in Symbol
    BY <1>2, ElementOfSeq
  <2> QED BY <2>1 DEF Symbol
<1> QED BY <1>1, <1>2, <1>3 DEF LinksGood

\* The options -u and EXTERN.
LEMMA ExternLinks ==
  ASSUME ChainInv, NEW n \in Names, Extern(n)
  PROVE  LinkStep(ld, ld') /\ OptionsOnly'
<1> DEFINE s == [NewSymbol(n) EXCEPT !.bind = "local"]
           a == [ld EXCEPT !.lsb = Append(@, s)]
           N == Len(ld.lsb) + 1
<1>1. /\ Running /\ stage = "options" /\ stage' = stage /\ Find(ld, <<n, Unversioned>>) = {}
      /\ ld' = AddExtern(ld, n)
  BY DEF Extern
<1>2. /\ Good(ld) /\ ld \in Table /\ ld.fatal = "none" /\ Forest(ld, ld.sym)
      /\ ld.sym \subseteq 1..Len(ld.lsb) /\ Len(ld.lsb) \in Nat
      /\ \A i \in 1..Len(ld.lsb) : ld.lsb[i].name \in Names
  BY <1>1, ChainFacts
<1>3. /\ \A k \in Names : ld.defver[k] = Unversioned
      /\ \A i \in 1..Len(ld.lsb) : ld.lsb[i].shndx = "def" => ld.lsb[i].bind # "local"
  BY <1>1, <1>2 DEF ChainInv, OptionsOnly
<1>4. s \in Symbol /\ s.ref = 0 /\ s.prev = 0 /\ s.shndx = "undef"
  BY NewSymbolType DEF NewSymbol
<1>5. ld' = [a EXCEPT !.sym = @ \cup {N}]
  BY <1>1, <1>2 DEF AddExtern, Table
<1> HIDE DEF s
<1>6. Appended(ld, a, s, ld.sym)
  BY <1>2, <1>4, AppendForest
<1>7. a.sym = ld.sym /\ a.defver = ld.defver /\ a.fatal = ld.fatal
  BY <1>2 DEF Table
<1> HIDE DEF a
<1>8. /\ a \in Table /\ Len(a.lsb) = N /\ a.lsb[N] = s /\ Forest(a, ld.sym \cup {N}) /\ Moves(ld, a)
      /\ \A k \in 1..Len(ld.lsb) : a.lsb[k] = ld.lsb[k]
  BY <1>6 DEF Appended
<1>9. ld'.lsb = a.lsb /\ ld'.sym = ld.sym \cup {N} /\ ld'.defver = ld.defver /\ ld'.fatal = "none"
  BY <1>2, <1>5, <1>7, <1>8 DEF Table
<1> HIDE DEF N
<1>10. (\A i : Ref(ld', i) = Ref(a, i)) /\ Forest(ld', ld'.sym)
  <2>1. ASSUME NEW m, m = ld' PROVE (\A i : Ref(m, i) = Ref(a, i)) /\ Forest(m, ld'.sym)
    BY <1>7, <1>8, <1>9, <2>1, SameForest
  <2> QED BY <2>1
<1>11. \A k \in Names : NotBoth(ld', k)
  BY <1>3, <1>9 DEF NotBoth
<1>12. Moves(ld, ld')
  BY <1>8, <1>10 DEF Moves
<1>13. JoinedIn(ld, ld')
  BY <1>2, <1>3, <1>9, JoinedSame DEF JoinedIn
<1>14. OptionsOnly'
  BY <1>1, <1>2, <1>3, <1>4, <1>8, <1>9, SMTT(60) DEF OptionsOnly, N
<1> QED BY <1>9, <1>10, <1>11, <1>12, <1>13, <1>14 DEF LinkStep, LinksGood

\* An assignment of the linker script.
LEMMA VariableLinks ==
  ASSUME ChainInv, NEW n \in Names, NEW p \in BOOLEAN, Variable(n, p), ld'.fatal = "none"
  PROVE  LinkStep(ld, ld') /\ OptionsOnly'
<1> DEFINE s == [NewSymbol(n) EXCEPT !.shndx = "def", !.provide = p, !.ref_ndso = TRUE]
<1>1. Running /\ stage = "options" /\ stage' = stage /\ ld' = ResolveAndAdd(ld, s)
  BY DEF Variable, AddVariable
<1>2. /\ Good(ld) /\ ld.fatal = "none" /\ Forest(ld, ld.sym) /\ LinksGood(ld) /\ Len(ld.lsb) \in Nat
  BY <1>1, ChainFacts
<1>3. /\ \A k \in Names : ld.defver[k] = Unversioned
      /\ \A i \in 1..Len(ld.lsb) : ld.lsb[i].shndx = "def" => ld.lsb[i].bind # "local"
  BY <1>1, <1>2 DEF ChainInv, OptionsOnly
<1>4. s \in Symbol /\ s.ref = 0 /\ s.prev = 0 /\ s.bind = "global"
  BY NewSymbolType DEF NewSymbol
<1> HIDE DEF s
<1>5. MayAdd(ld, s)
  BY <1>2, <1>3, <1>4 DEF MayAdd, ProvidedFirst
<1>6. ASSUME NEW m, m = ld' PROVE LinkStep(ld, m) /\ Entered(ld, m, s)
  BY <1>1, <1>2, <1>5, <1>6, PlainStep
<1>7. LinkStep(ld, ld') /\ Entered(ld, ld', s)
  BY <1>6
<1>8. OptionsOnly'
  <2>1. /\ Len(ld'.lsb) = Len(ld.lsb) + 1 /\ ld'.defver = ld.defver
        /\ ld'.lsb[Len(ld.lsb) + 1].bind = s.bind
        /\ \A k \in 1..Len(ld.lsb) : ld'.lsb[k].shndx = ld.lsb[k].shndx /\ ld'.lsb[k].bind = ld.lsb[k].bind
    BY <1>7 DEF Entered
  <2> QED BY <1>2, <1>3, <1>4, <2>1, SMTT(60) DEF OptionsOnly
<1> QED BY <1>7, <1>8

\* _DYNAMIC and _GLOBAL_OFFSET_TABLE_.
LEMMA InternalLinks ==
  ASSUME ChainInv, NEW n \in Names, Internal(n), ld'.fatal = "none"
  PROVE  LinkStep(ld, ld') /\ OptionsOnly'
<1> DEFINE s == [NewSymbol(n) EXCEPT !.shndx = "def", !.bind = "local", !.ref_ndso = TRUE]
<1>1. Running /\ stage' = "output" /\ ld' = ResolveAndAdd(ld, s)
  BY DEF Internal, AddInternal
<1>2. /\ Good(ld) /\ ld.fatal = "none" /\ Forest(ld, ld.sym) /\ LinksGood(ld)
  BY <1>1, ChainFacts
<1>3. s \in Symbol /\ s.ref = 0 /\ s.prev = 0 /\ ~ s.provide
  BY NewSymbolType DEF NewSymbol
<1> HIDE DEF s
<1>4. MayAdd(ld, s)
  BY <1>2, <1>3 DEF MayAdd, ProvidedFirst
<1>5. ASSUME NEW m, m = ld' PROVE LinkStep(ld, m)
  BY <1>1, <1>2, <1>4, <1>5, PlainStep
<1> QED BY <1>1, <1>5 DEF OptionsOnly

\* What the symbols of the inputs have in common.
LEMMA InputSymbols ==
  ASSUME NEW n \in Names
  PROVE  /\ \A s \in RegularSymbols(n) : s.ref = 0 /\ s.prev = 0 /\ ~ s.provide
         /\ \A s \in DsoSymbols(n) :
              /\ s.ref = 0 /\ s.prev = 0 /\ ~ s.provide
              /\ s.ver # Unversioned /\ s.shndx # "undef" => s.shndx = "def" /\ s.dso
<1> DEFINE w == NewSymbol(n)
           d == [w EXCEPT !.dso = TRUE]
           V == Versions \cup {Unversioned}
           T == {"object", "func"}
           def(v, t) == [d EXCEPT !.shndx = "def", !.ver = v, !.type = t]
           A == {[d EXCEPT !.ver = v] : v \in V}
           B == {[d EXCEPT !.shndx = "common", !.size = z] : z \in Sizes}
           C == {def(v, t) : v \in V, t \in T}
<1>a. /\ w \in Symbol /\ w.ref = 0 /\ w.prev = 0 /\ w.provide = FALSE
      /\ w.shndx = "undef" /\ w.ver = Unversioned
  BY NewSymbolType DEF NewSymbol
<1>b. RegularSymbols(n) =
          {w, [w EXCEPT !.type = "tls"]}
          \cup {[w EXCEPT !.shndx = "common", !.size = z] : z \in Sizes}
          \cup {[w EXCEPT !.shndx = "def", !.bind = b] : b \in {"global", "weak"}}
  BY DEF RegularSymbols
<1>c. DsoSymbols(n) = A \cup B \cup C
  BY DEF DsoSymbols
<1> HIDE DEF w, d, V, T, def, A, B, C
<1>1. ASSUME NEW s \in RegularSymbols(n) PROVE s.ref = 0 /\ s.prev = 0 /\ ~ s.provide
  <2>1. CASE s = w
    BY <1>a, <2>1
  <2>2. CASE s = [w EXCEPT !.type = "tls"]
    BY <1>a, <2>2 DEF Symbol
  <2>3. CASE \E z \in Sizes : s = [w EXCEPT !.shndx = "common", !.size = z]
    BY <1>a, <2>3 DEF Symbol
  <2>4. CASE \E b \in {"global", "weak"} : s = [w EXCEPT !.shndx = "def", !.bind = b]
    BY <1>a, <2>4 DEF Symbol
  <2> QED BY <1>b, <2>1, <2>2, <2>3, <2>4, Zenon
<1>2. ASSUME NEW s \in DsoSymbols(n)
      PROVE  /\ s.ref = 0 /\ s.prev = 0 /\ ~ s.provide
             /\ s.ver # Unversioned /\ s.shndx # "undef" => s.shndx = "def" /\ s.dso
  <2>0. /\ d \in Symbol /\ d.ref = 0 /\ d.prev = 0 /\ ~ d.provide /\ d.dso
        /\ d.shndx = "undef" /\ d.ver = Unversioned
    BY <1>a DEF Symbol, d
  <2>1. s \in A \/ s \in B \/ s \in C
    BY <1>c
  <2>2. CASE s \in A
    <3>1. PICK v \in V : s = [d EXCEPT !.ver = v]
      BY <2>2 DEF A
    <3> QED BY <2>0, <3>1 DEF Symbol
  <2>3. CASE s \in B
    <3>1. PICK z \in Sizes : s = [d EXCEPT !.shndx = "common", !.size = z]
      BY <2>3 DEF B
    <3> QED BY <2>0, <3>1 DEF Symbol
  <2>4. CASE s \in C
    <3>1. PICK v \in V, t \in T : s = def(v, t)
      BY <2>4 DEF C
    <3> QED BY <2>0, <3>1 DEF Symbol, def
  <2> QED BY <2>1, <2>2, <2>3, <2>4
<1> QED BY <1>1, <1>2

\* The symbols of an input file.
LEMMA InputLinks ==
  ASSUME ChainInv, NEW n \in Names, Regular(n) \/ Dso(n), ld'.fatal = "none"
  PROVE  LinkStep(ld, ld') /\ OptionsOnly'
<1>1. Running /\ stage' = "load"
  BY DEF Regular, Dso
<1>2. Good(ld) /\ ld.fatal = "none" /\ LinksGood(ld)
  BY <1>1, ChainFacts
<1>3. PICK s \in Symbol, dflt \in BOOLEAN :
         /\ s.ref = 0 /\ s.prev = 0 /\ ~ s.provide
         /\ dflt => s.ver # Unversioned
         /\ dflt /\ s.ver # Unversioned /\ s.shndx # "undef" => s.shndx = "def" /\ s.dso
         /\ ld' = AddElfSymbol(ld, s, dflt)
  <2>1. CASE Regular(n)
    <3>1. PICK s \in RegularSymbols(n) : ld' = AddElfSymbol(ld, s, FALSE)
      BY <2>1 DEF Regular
    <3>2. s \in Symbol /\ s.ref = 0 /\ s.prev = 0 /\ ~ s.provide /\ FALSE \in BOOLEAN
      BY NewSymbolType, InputSymbols
    <3> QED BY <3>1, <3>2, Zenon
  <2>2. CASE Dso(n)
    <3>1. PICK s \in DsoSymbols(n), dflt \in BOOLEAN :
             (dflt => s.ver # Unversioned) /\ ld' = AddElfSymbol(ld, s, dflt)
      BY <2>2 DEF Dso
    <3>2. s \in Symbol
      BY NewSymbolType
    <3>3. /\ s.ref = 0 /\ s.prev = 0 /\ ~ s.provide
          /\ s.ver # Unversioned /\ s.shndx # "undef" => s.shndx = "def" /\ s.dso
      BY InputSymbols
    <3> QED BY <3>1, <3>2, <3>3, Zenon
  <2> QED BY <2>1, <2>2
<1>4. ASSUME NEW m, m = ld' PROVE LinkStep(ld, m)
  BY <1>2, <1>3, <1>4, ElfStep
<1> QED BY <1>1, <1>4 DEF OptionsOnly

\* Every step keeps the chains, unless it stops ld.
LEMMA NextLinks ==
  ASSUME ChainInv, Next, ld'.fatal = "none"
  PROVE  LinkStep(ld, ld') /\ OptionsOnly'
  BY ExternLinks, VariableLinks, InternalLinks, InputLinks DEF Next

LEMMA ChainStep == ChainInv /\ [Next]_vars => ChainInv'
<1> SUFFICES ASSUME ChainInv, [Next]_vars PROVE ChainInv'
  OBVIOUS
<1>1. ResolveInv'
  BY ResolveStep DEF ChainInv
<1>2. CASE Next
  <2>1. CASE ld'.fatal = "none"
    BY <1>1, <1>2, <2>1, NextLinks DEF ChainInv, LinkStep
  <2>2. CASE ld'.fatal # "none"
    BY <1>1, <2>2 DEF ChainInv, LinksGood, OptionsOnly
  <2> QED BY <2>1, <2>2
<1>3. CASE UNCHANGED vars
  <2>1. ld' = ld /\ stage' = stage
    BY <1>3 DEF vars
  <2>2. LinksGood(ld')
    BY <2>1 DEF ChainInv
  <2> QED BY <1>1, <2>1, <2>2 DEF ChainInv, OptionsOnly
<1> QED BY <1>2, <1>3

\* The chains of every symbol table ld comes to are as ChainInv says.
THEOREM ChainInvariant == Spec => []ChainInv
<1> QED BY ChainInit, ChainStep, PTL DEF Spec

\* The end of a chain, where ld goes on.
LEMMA ChainEnd ==
  ASSUME ChainInv, ~ Stopped, NEW i \in Symbols
  PROVE  Ref(ld, i) \in ld.sym /\ Stands(ld, i)
<1>1. Forest(ld, ld.sym) /\ ld.lsb \in Seq(Symbol) /\ i \in 1..Len(ld.lsb)
  BY DEF ChainInv, ResolveInv, LinksGood, Stopped, Symbols, Good, Table
<1>2. Ref(ld, i) \in 1..Len(ld.lsb) /\ ld.lsb[Ref(ld, i)].ref = 0
  BY <1>1, RefEnds DEF Forest
<1> QED BY <1>1, <1>2 DEF Forest

\* Following lsb_ref from any symbol that was read ends at an entry of the table,
\* so every relocation has a target (ld_symbols_ref, _resolve_symbol).
THEOREM ChainsAlwaysEnd == Spec => []ChainsEndInTable
<1>1. ChainInv => ChainsEndInTable
  BY ChainEnd DEF ChainsEndInTable
<1> QED BY <1>1, ChainInvariant, PTL

\* The entry at the end knows whether regular objects and libraries refer to the
\* symbols it stands for (_resolve_symbol, ld_symbols_scan).
THEOREM ReferencesAlwaysKnown == Spec => []KeptKnowsReferences
<1>1. ChainInv => KeptKnowsReferences
  <2> SUFFICES ASSUME ChainInv, ~ Stopped, NEW i \in Symbols
               PROVE  LET r == Ref(ld, i) IN /\ ld.lsb[i].ref_ndso => ld.lsb[r].ref_ndso
                                             /\ ld.lsb[i].ref_dso => ld.lsb[r].ref_dso
    BY DEF KeptKnowsReferences
  <2>1. Stands(ld, i)
    BY ChainEnd
  <2> QED BY <2>1, Zenon DEF Stands
<1> QED BY <1>1, ChainInvariant, PTL

\* A strong definition of a regular object is what every reference to its name
\* reaches, in whatever order the inputs come, unless a library gives the name a
\* default version (_resolve_and_add_symbol, ld_symbols.c:786-808).
THEOREM StrongAlwaysWins == Spec => []StrongDefinitionWins
<1>1. ChainInv => StrongDefinitionWins
  <2> SUFFICES ASSUME ChainInv, ~ Stopped, NEW i \in Symbols,
                      ld.lsb[i].shndx = "def", ~ ld.lsb[i].dso, ld.lsb[i].bind = "global",
                      ~ ld.lsb[i].provide, ld.defver[ld.lsb[i].name] = Unversioned
               PROVE  NotWeakDef(ld.lsb[Ref(ld, i)])
    BY Zenon DEF StrongDefinitionWins, NotWeakDef
  <2>1. Stands(ld, i)
    BY ChainEnd
  <2>2. StrongDef(ld.lsb[i])
    BY DEF StrongDef
  <2> QED BY <2>1, <2>2 DEF Stands
<1> QED BY <1>1, ChainInvariant, PTL

\* References that reach one symbol go on reaching one, whatever replaces it
\* (_resolve_symbol relinks the middle of a chain).
THEOREM BoundAlwaysTogether == Spec => BoundStaysBound
<1>1. ChainInv /\ [Next]_vars =>
        [ld'.fatal = "none" => \A i \in Symbols : Ref(ld', i) = Ref(ld', Ref(ld, i))]_vars
  <2> SUFFICES ASSUME ChainInv, Next, ld'.fatal = "none", NEW i \in Symbols
               PROVE  Ref(ld', i) = Ref(ld', Ref(ld, i))
    OBVIOUS
  <2>1. Moves(ld, ld')
    BY NextLinks DEF LinkStep
  <2> QED BY <2>1 DEF Moves, Symbols
<1> QED BY <1>1, ChainInvariant, PTL DEF Spec, BoundStaysBound

\* A reference without a version and one with a version reach one symbol from the
\* moment a library defines the version as the default one (ld_symbols.c:685).
THEOREM JoinedWhenDefined == Spec => JoinedAtDefinition
<1>1. ChainInv /\ [Next]_vars =>
        [ld'.fatal = "none" =>
          \A i, j \in ld.sym :
            /\ ld.lsb[i].name = ld.lsb[j].name
            /\ ld.lsb[i].shndx = "undef" /\ ld.lsb[j].shndx = "undef"
            /\ ld.lsb[i].ver = Unversioned
            /\ ld.lsb[j].ver = ld'.defver[ld.lsb[j].name]
            => Ref(ld', i) = Ref(ld', j)]_vars
  <2> SUFFICES ASSUME ChainInv, Next, ld'.fatal = "none" PROVE JoinedIn(ld, ld')
    BY DEF JoinedIn
  <2> QED BY NextLinks DEF LinkStep
<1> QED BY <1>1, ChainInvariant, PTL DEF Spec, JoinedAtDefinition
=============================================================================
