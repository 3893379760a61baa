------------------------------ MODULE Demangler ------------------------------
(***************************************************************************)
(* The reader of names mangled by the Itanium C++ ABI that c++filt, nm and *)
(* addr2line call: libelftc_dem_gnu3.c.                                    *)
(*                                                                         *)
(* A mangled name is a sequence of tokens: a source name (its length left  *)
(* out), a number, a substitution "S0_", a template parameter "T_", or a   *)
(* code of one or more letters.  What is written is real text: the code    *)
(* compares the text of its components, and so does the model.  A state    *)
(* of the reader is a record that every read_ function takes and returns.  *)
(* CPP_DEMANGLE_TRY_LIMIT is left out: it is far beyond the names read.    *)
(***************************************************************************)
EXTENDS Integers, Sequences, TLC

LOCAL INSTANCE SequencesExt

CONSTANTS
    SourceNames,    \* the tokens that are source names
    Numbers         \* the tokens that are decimal numbers

(* What the last source name is when it was looked for in another vector   *)
(* than the one it was pushed on.                                          *)
Wild == "?"

BuiltinText ==
    "v" :> "void" @@ "w" :> "wchar_t" @@ "b" :> "bool" @@ "c" :> "char" @@ "a" :> "signed char"
    @@ "h" :> "unsigned char" @@ "s" :> "short" @@ "t" :> "unsigned short" @@ "i" :> "int"
    @@ "j" :> "unsigned int" @@ "l" :> "long" @@ "m" :> "unsigned long" @@ "x" :> "long long"
    @@ "y" :> "unsigned long long" @@ "n" :> "__int128" @@ "o" :> "unsigned __int128"
    @@ "f" :> "float" @@ "d" :> "double" @@ "e" :> "long double" @@ "g" :> "__float128"
    @@ "z" :> "..."

WideText ==
    "Da" :> "auto" @@ "Dc" :> "decltype(auto)" @@ "Dd" :> "decimal64" @@ "De" :> "decimal128"
    @@ "Df" :> "decimal32" @@ "Dh" :> "half" @@ "Di" :> "char32_t" @@ "Dn" :> "decltype(nullptr)"
    @@ "Ds" :> "char16_t"

(* Operators of two operands in an expression; the code has "~", "!", "++" *)
(* and "--" among them.                                                    *)
BinaryText ==
    "aa" :> "&&" @@ "an" :> "&" @@ "aN" :> "&=" @@ "aS" :> "=" @@ "cl" :> "()" @@ "cm" :> ","
    @@ "co" :> "~" @@ "cv" :> "(cast)" @@ "dv" :> "/" @@ "dV" :> "/=" @@ "eo" :> "^" @@ "eO" :> "^="
    @@ "eq" :> "==" @@ "ge" :> ">=" @@ "gt" :> ">" @@ "ix" :> "[]" @@ "le" :> "<=" @@ "ls" :> "<<"
    @@ "lS" :> "<<=" @@ "lt" :> "<" @@ "mi" :> "-" @@ "mI" :> "-=" @@ "ml" :> "*" @@ "mL" :> "*="
    @@ "mm" :> "--" @@ "ne" :> "!=" @@ "nt" :> "!" @@ "oo" :> "||" @@ "or" :> "|" @@ "oR" :> "|="
    @@ "pl" :> "+" @@ "pL" :> "+=" @@ "pm" :> "->*" @@ "pp" :> "++" @@ "pt" :> "->" @@ "rm" :> "%"
    @@ "rM" :> "%=" @@ "rs" :> ">>" @@ "rS" :> ">>="

UnaryText ==
    "ad" :> "&" @@ "da" :> "delete []" @@ "de" :> "*" @@ "dl" :> "delete" @@ "na" :> "new []"
    @@ "ng" :> "-" @@ "nw" :> "new" @@ "ps" :> "+" @@ "rz" :> "sizeof" @@ "sv" :> "sizeof"

OperatorText ==
    [t \in DOMAIN BinaryText \cup DOMAIN UnaryText |->
        "operator" \o IF t \in DOMAIN BinaryText THEN BinaryText[t]
                      ELSE IF UnaryText[t] \in {"new", "new []", "delete", "delete []"}
                           THEN " " \o UnaryText[t]
                      ELSE IF UnaryText[t] = "sizeof" THEN " sizeof " ELSE UnaryText[t]]
    @@ "qu" :> "operator?" @@ "sr" :> "scope resolution operator "

AbbrevText ==
    "Sa" :> "std::allocator" @@ "Sb" :> "std::basic_string"
    @@ "Ss" :> "std::basic_string<char, std::char_traits<char>, std::allocator<char> >"
    @@ "Si" :> "std::basic_istream<char, std::char_traits<char> >"
    @@ "So" :> "std::basic_ostream<char, std::char_traits<char> >"
    @@ "Sd" :> "std::basic_iostream<char, std::char_traits<char> >"

(* The name a constructor of an abbreviated class has.                     *)
AbbrevName == "Ss" :> "string" @@ "Si" :> "basic_istream" @@ "So" :> "basic_ostream"
              @@ "Sd" :> "basic_iostream"

SpecialText ==
    "TF" :> "typeinfo fn for " @@ "TI" :> "typeinfo for " @@ "TJ" :> "java Class for "
    @@ "TS" :> "typeinfo name for " @@ "TT" :> "VTT for " @@ "TV" :> "vtable for "

NamedText == "GV" :> "guard variable for " @@ "TH" :> "TLS init function for "
             @@ "TW" :> "TLS wrapper function for "

CloneText == "GA" :> "hidden alias for " @@ "GTn" :> "non-transaction clone for "
             @@ "GTt" :> "transaction clone for "

Seconds == <<"S_", "S0_", "S1_", "S2_", "S3_", "S4_", "S5_", "S6_", "S7_", "S8_", "S9_">>
Params  == <<"T_", "T0_", "T1_", "T2_">>
IndexOf(tokens, t) == CHOOSE i \in DOMAIN tokens : tokens[i] = t
IsSubst(t) == t \in Range(Seconds) \cup DOMAIN AbbrevText \cup {"St"}
IsParam(t) == t \in Range(Params)

CvQuals == {"r", "V", "K"}
QualText == "P" :> "*" @@ "R" :> "&" @@ "O" :> "&&" @@ "C" :> " complex" @@ "G" :> " imaginary"
            @@ "r" :> " restrict" @@ "V" :> " volatile" @@ "K" :> " const"

-----------------------------------------------------------------------------
(* The reader: `vecs' holds the output vector and those that took its      *)
(* place for a while, `w' is the one written to (cur_output).              *)

Data(tokens) ==
    [ok |-> TRUE, in |-> tokens, vecs |-> <<<<>>>>, w |-> 1, subst |-> <<>>, tmpl |-> <<>>,
     class |-> <<>>, cmds |-> <<>>, mem |-> {}, isTmpl |-> FALSE, isFunc |-> FALSE, ref |-> "",
     push |-> "all", funcs |-> 0, last |-> ""]

Fail(s)  == [s EXCEPT !.ok = FALSE]
On(s, r) == IF s.ok THEN r ELSE s
Need(s, cond) == IF cond THEN s ELSE Fail(s)
Cur(s)   == IF s.in = <<>> THEN "" ELSE Head(s.in)
Eat(s)   == IF s.in = <<>> THEN Fail(s) ELSE [s EXCEPT !.in = Tail(@)]
Expect(s, t) == On(s, IF Cur(s) = t THEN Eat(s) ELSE Fail(s))
Out(s)   == s.vecs[s.w]

Flat(v)       == FoldLeft(LAMBDA a, b : a \o b, "", v)
Since(v, n)   == Flat(SubSeq(v, n + 1, Len(v)))
Begins(a, b)  == Len(b) <= Len(a) /\ SubSeq(a, 1, Len(b)) = b

(* vector_str_find compares as many characters as the text looked for has. *)
Known(v, text) == \E i \in DOMAIN v : Begins(v[i], text)

Push(s, text) ==
    On(s, IF text = "" THEN Fail(s) ELSE [s EXCEPT !.isTmpl = FALSE, !.vecs[s.w] = Append(@, text)])

Pop(s) == [s EXCEPT !.vecs[s.w] = IF @ = <<>> THEN @ ELSE SubSeq(@, 1, Len(@) - 1)]

PushSubst(s, text) ==
    On(s, IF text = "" THEN Fail(s)
          ELSE IF Known(s.subst, text) THEN s ELSE [s EXCEPT !.subst = Append(@, text)])

(* What was written since the n-th element, and the reader without it.     *)
Cut(s, n) == [s EXCEPT !.vecs[s.w] = SubSeq(@, 1, n)]

FromTable(s, table, t) ==
    On(s, LET i == IndexOf(table, Cur(s)) IN
          IF Len(t) < i THEN Fail(s) ELSE Eat(Push(s, t[i])))

GetSubst(s)     == FromTable(s, Seconds, s.subst)
ReadTmplParam(s) == FromTable(s, Params, s.tmpl)

PtrMem(s)  == SelectSeq(s.cmds, LAMBDA c : c.cmd = "ptrmem")
InTmpl(s)  == \E i \in DOMAIN s.cmds : s.cmds[i].cmd = "tmpl"
PushCmd(s, cmd, quals) == On(s, [s EXCEPT !.cmds = Append(@, [cmd |-> cmd, quals |-> quals])])
PopCmd(s)  == On(s, [s EXCEPT !.cmds = SubSeq(@, 1, Len(@) - 1)])

-----------------------------------------------------------------------------
(* Qualifiers, in the order read; vendor qualifiers and vector sizes keep  *)
(* their text in a vector of their own, which is read from its start.      *)

NoQuals == [list |-> <<>>, ext |-> <<>>]

Qualify(q, t) == [q EXCEPT !.list = Append(@, t)]

(* From the last qualifier read to the first; each type made on the way    *)
(* is a candidate for substitution, but only the last of several           *)
(* cv-qualifiers in a row.                                                 *)
RECURSIVE PushQual(_, _, _, _, _, _)
PushQual(s, q, i, cv, e, type) ==
    IF i = 0 \/ ~s.ok THEN s
    ELSE LET k     == q.list[i]
             isCv  == k \in CvQuals
             skip  == IF isCv THEN s.push = IF cv THEN "noncv" ELSE "cv"
                      ELSE s.push = "cv"
             isExt == k \in {"U", "Dv"}
             text  == IF isExt /\ e <= Len(q.ext)
                      THEN IF k = "U" THEN " " \o q.ext[e] ELSE " __vector(" \o q.ext[e] \o ")"
                      ELSE IF isExt THEN "" ELSE QualText[k]
             whole == IF type = "" THEN "" ELSE type \o text
             inRun == isCv /\ i > 1 /\ q.list[i - 1] \in CvQuals
         IN IF skip THEN PushQual(s, q, i - 1, cv /\ isCv, e, type)
            ELSE PushQual(IF type = "" \/ inRun THEN Push(s, text) ELSE PushSubst(Push(s, text), whole),
                          q, i - 1, cv /\ isCv, IF isExt THEN e + 1 ELSE e, whole)

PushTypeQualifier(s, q, type) == PushQual(s, q, Len(q.list), TRUE, 1, type)

-----------------------------------------------------------------------------
(* The grammar.  Its rules call each other through ByRule, which ends the    *)
(* module.  `td' is "none" for a type by itself, "first" and "next" for    *)
(* the types of a list of arguments.                                       *)

RECURSIVE ByRule(_, _, _)
ReadType(s, td)   == ByRule("type", s, td)
ReadEncoding(s)   == ByRule("encoding", s, "none")
ReadExpression(s) == ByRule("expression", s, "none")
ReadTmplArgs(s)   == ByRule("tmpl_args", s, "none")
ReadName(s)       == ByRule("name", s, "none")

RECURSIVE ReadTypes(_, _, _), ReadQuals(_, _), TmplArgs(_, _), ReadNestedFrom(_, _, _)

(* [n] <decimal>, as text.                                                 *)
NumberText(s) ==
    IF Cur(s) = "n" THEN IF Len(s.in) > 1 THEN "-" \o s.in[2] ELSE "" ELSE Cur(s)
EatNumber(s) == Need(Eat(s), Cur(s) \in Numbers)
ReadNumber(s) ==
    On(s, EatNumber(IF Cur(s) = "n" THEN Eat(s) ELSE s))

(* The last source name is the last element of the output vector, looked   *)
(* for in the vector written to.                                           *)
SetLast(s, at) ==
    [s EXCEPT !.last = IF InTmpl(s) THEN @ ELSE IF at \in DOMAIN Out(s) THEN Out(s)[at] ELSE Wild]

SnameText(t) == IF t = "_GLOBAL__N_1" THEN "(anonymous namespace)" ELSE t

ReadSname(s) ==
    On(s, IF Cur(s) \notin SourceNames \cup {"_GLOBAL__N_1"} THEN Fail(s)
          ELSE SetLast(Push(Eat(s), SnameText(Cur(s))), Len(s.vecs[1]) + IF s.w = 1 THEN 1 ELSE 0))

Discriminator(s) ==
    IF s.ok /\ Cur(s) = "_" THEN IF Cur(Eat(s)) \in Numbers THEN Eat(Eat(s)) ELSE Eat(s) ELSE s

LocalSourceName(s) == Discriminator(ReadSname(Eat(s)))

CtorDtor == {"C1", "C2", "C3", "D0", "D1", "D2"}

CtorDtorName(s) ==
    LET mark == IF SubSeq(Cur(s), 1, 1) = "C" THEN "::" ELSE "::~"
    IN IF s.last = "" THEN Fail(s) ELSE Eat(Push(Push(s, mark), s.last))

VendorOps == {"v0", "v1"}
VendorOp(s) == ReadSname(Eat(Push(Push(s, "vendor extened operator "), SubSeq(Cur(s), 2, 2))))

(* The type a conversion is to follows its code.                           *)
Conversion(s) == ReadType(Eat(Push(s, OperatorText["cv"])), "none")

ReadUqname(s) ==
    On(s, CASE s.in = <<>>                       -> Fail(s)
            [] Cur(s) = "cv"                     -> Conversion(s)
            [] Cur(s) \in DOMAIN OperatorText \ {"cv"} -> Eat(Push(s, OperatorText[Cur(s)]))
            [] Cur(s) \in VendorOps              -> VendorOp(s)
            [] Cur(s) \in CtorDtor               -> CtorDtorName(s)
            [] Cur(s) \in SourceNames \cup Numbers \cup {"_GLOBAL__N_1"} -> ReadSname(s)
            [] Cur(s) = "L"                      -> LocalSourceName(s)
            [] OTHER                             -> s)

(* What a reader wrote from state s to state t, and a candidate from it.   *)
Wrote(s, t) == Since(t.vecs[s.w], Len(s.vecs[s.w]))
Candidate(s, t, before) ==
    On(t, IF Wrote(s, t) = "" THEN Fail(t) ELSE PushSubst(t, before \o Wrote(s, t)))

(* An unqualified name and its template arguments, which both become       *)
(* candidates.                                                             *)
WithArgs(t, name) ==
    On(t, IF Cur(t) = "I" THEN Candidate(t, ReadTmplArgs(t), name) ELSE t)

NameAndArgs(s, name, before) == WithArgs(Candidate(s, name, before), before \o Wrote(s, name))

HasOperator(text) == Len(text) > 8 /\ \E i \in 1..(Len(text) - 7) : SubSeq(text, i, i + 7) = "operator"

StdName(s) == NameAndArgs(s, ReadUqname(s), "std::")
ReadSubstStd(s) == StdName(Push(Eat(s), "std::"))

ReadAbbrev(s, abbrev) ==
    WithArgs(Eat(Push([s EXCEPT !.last = IF abbrev \in DOMAIN AbbrevName THEN AbbrevName[abbrev] ELSE @],
                      AbbrevText[abbrev])), AbbrevText[abbrev])

ReadSubst(s) ==
    On(s, CASE Cur(s) = "St"                  -> ReadSubstStd(s)
            [] Cur(s) \in DOMAIN AbbrevText   -> ReadAbbrev(s, Cur(s))
            [] OTHER                          -> GetSubst(s))

(* One component after the other; each prefix is a candidate.              *)
ReadComponent(s) ==
    CASE Cur(s) = "I"       -> ReadTmplArgs(s)
      [] IsSubst(Cur(s))    -> ReadSubst(s)
      [] IsParam(Cur(s))    -> ReadTmplParam(s)
      [] OTHER              -> ReadUqname(s)

AddPrefix(t, whole, text) == IF text = "" THEN t ELSE PushSubst(t, whole)

MoreComponents(s, u, w, whole, text) ==
    IF ~u.ok THEN u
    ELSE IF Cur(u) = "E" THEN Eat(u)
    ELSE IF u.in = s.in THEN Fail(u)
    ELSE IF text # "" /\ Cur(u) \notin CtorDtor \cup {"I"}
         THEN ReadNestedFrom(Push(u, "::"), w, whole \o "::")
    ELSE ReadNestedFrom(u, w, whole)

AfterComponent(s, t, w, before, text) ==
    MoreComponents(s, AddPrefix(t, before \o text, text), w, before \o text, text)

NestedFrom(s, t, w, before) == AfterComponent(s, t, w, before, Since(t.vecs[w], Len(s.vecs[w])))

ReadNestedFrom(s, w, before) == NestedFrom(s, ReadComponent(s), w, before)

RECURSIVE MemberQuals(_)
MemberQuals(s) ==
    IF Cur(s) \in {"r", "V", "K", "R", "O"} THEN MemberQuals([Eat(s) EXCEPT !.mem = @ \cup {Cur(s)}]) ELSE s

ReadNestedName(s) == ReadNestedFrom(MemberQuals(Eat(s)), s.w, "")

(* A name within a function: the function goes to a vector of its own,     *)
(* so that a return type can be put before it.                             *)
LocalEnd(s) ==
    On(s, Discriminator(IF Cur(s) = "s" THEN Eat(s) ELSE ReadName(Push(s, "::"))))

LocalReturn(s, isTmpl) == IF isTmpl THEN ReadType(s, "none") ELSE s

LocalFunction(inner, at) ==
    On(inner,
       LET named(s) == [s EXCEPT !.vecs[1] = @ \o inner.vecs[at]]
       IN LocalEnd(Expect(Push(ReadTypes(named(LocalReturn([inner EXCEPT !.w = 1, !.isTmpl = FALSE], inner.isTmpl)),
                                         "first", "E"), ")"), "E")))

ReadLocalName(s) ==
    LocalFunction(ReadEncoding([Eat(s) EXCEPT !.vecs = Append(@, <<>>), !.w = Len(s.vecs) + 1]),
                  Len(s.vecs) + 1)

UnqualifiedName(s, name) ==
    IF name.ok /\ HasOperator(Wrote(s, name)) THEN name ELSE NameAndArgs(s, name, "")

NameRule(s) ==
    On(s, CASE s.in = <<>>        -> Fail(s)
            [] IsSubst(Cur(s))    -> ReadSubst(s)
            [] Cur(s) = "N"       -> ReadNestedName(s)
            [] Cur(s) = "Z"       -> ReadLocalName(s)
            [] OTHER              -> UnqualifiedName(s, ReadUqname(s)))

(* What the _flat readers do: the text, and the reader without it.         *)
Flattened(s, t) == On(t, IF Wrote(s, t) = "" THEN Fail(t) ELSE Cut(t, Len(Out(s))))

-----------------------------------------------------------------------------
(* Template arguments.  An argument known already, as text, gets no place  *)
(* of its own among the parameters.                                        *)

IntegerLiteral(s) == On(s, Expect(Eat(Need(Push(s, Cur(s)), Cur(s) \in Numbers)), "E"))
Minus(s) == IF Cur(s) = "n" THEN Eat(Push(s, "-")) ELSE s
BoolText(t) == IF t = "1" THEN "true" ELSE "false"

Literal(s, type) ==
    CASE type = "_Z"                     -> Eat(ReadEncoding(s))
      [] type = "b"                      -> Expect(Eat(Push(s, BoolText(Cur(s)))), "E")
      [] type \in {"d", "e", "f", "g"}   -> Expect(Eat(Push(s, Cur(s))), "E")
      [] type \in {"i", "j", "l", "m", "n", "s", "t", "x", "y"} -> IntegerLiteral(Minus(s))
      [] OTHER                           -> Fail(s)

ReadExprPrimary(s) == Literal(Eat(Eat(s)), Cur(Eat(s)))

ReadExpressionBinary(s, name) == ReadExpression(Push(ReadExpression(s), name))
ReadExpressionUnary(s, name)  == Push(ReadExpression(s), name)
ReadExpressionTrinary(s, name1, name2) ==
    ReadExpression(Push(ReadExpression(Push(ReadExpression(s), name1)), name2))

MaybeArgs(s) == On(s, IF Cur(s) = "I" THEN ReadTmplArgs(s) ELSE s)
ScopeResolution(s) == MaybeArgs(ReadUqname(ReadType(s, "none")))

ExpressionRule(s) ==
    On(s, CASE Cur(s) = "st"                  -> ReadType(Eat(s), "none")
            [] Cur(s) = "sr"                  -> ScopeResolution(Eat(s))
            [] Cur(s) \in DOMAIN BinaryText   -> ReadExpressionBinary(Eat(s), BinaryText[Cur(s)])
            [] Cur(s) \in DOMAIN UnaryText    -> ReadExpressionUnary(Eat(s), UnaryText[Cur(s)])
            [] Cur(s) = "qu"                  -> ReadExpressionTrinary(Eat(s), "?", ":")
            [] Cur(s) = "L"                   -> ReadExprPrimary(s)
            [] IsParam(Cur(s))                -> ReadTmplParam(s)
            [] OTHER                          -> Fail(s))

ReadTmplArg(s) ==
    On(s, CASE Cur(s) = "L"  -> ReadExprPrimary(s)
            [] Cur(s) = "X"  -> Expect(ReadExpression(Eat(s)), "E")
            [] OTHER         -> ReadType(s, "none"))

CloseArgs(s, last) == [Push(Eat(s), IF Begins(last, ">") THEN " >" ELSE ">") EXCEPT !.isTmpl = TRUE]

MoreArgs(s, w) ==
    IF Cur(s) = "E" THEN CloseArgs(s, s.vecs[w][Len(s.vecs[w])])
    ELSE TmplArgs(IF Cur(s) = "I" THEN s ELSE Push(s, ", "), w)

KeepArg(t, arg, w) ==
    IF ~t.ok \/ arg = "" THEN Fail(t)
    ELSE MoreArgs([t EXCEPT !.tmpl = IF Known(@, arg) THEN @ ELSE Append(@, arg)], w)

NextArg(s, t, w) == KeepArg(t, Since(t.vecs[w], Len(s.vecs[w])), w)

TmplArgs(s, w) == NextArg(s, ReadTmplArg(s), w)

TmplArgsRule(s) == On(s, PopCmd(TmplArgs(Push(PushCmd(Eat(s), "tmpl", NoQuals), "<"), s.w)))

-----------------------------------------------------------------------------
(* Compound types.  Some of them look at the output vector although the    *)
(* text went to another one, and find nothing there.                       *)

OnlyInOutput(s) == On(s, Need(s, s.w = 1))

Sized(s, size) == Push(Push(Push(ReadType(Expect(s, "_"), "none"), " ["), size), "]")

SizedBy(s, e) == On(e, Sized(OnlyInOutput(Flattened(s, e)), Wrote(s, e)))

ArrayOf(s) ==
    CASE Cur(s) = "_"          -> Push(ReadType(Eat(s), "none"), " []")
      [] Cur(s) \in Numbers    -> Sized(Eat(s), Cur(s))
      [] OTHER                 -> SizedBy(s, ReadExpression(s))

ReadArray(s) == ArrayOf(Eat(s))

(* The arguments of a function, until the token that ends them; a list     *)
(* that is not ended is one that ends with the name.                       *)
MoreTypes(t, end) == IF ~t.ok \/ Cur(t) \in {end, ""} THEN t ELSE ReadTypes(t, "next", end)
ReadTypes(s, td, end) == MoreTypes(ReadType(s, td), end)

RefText == "R" :> " &" @@ "O" :> " &&"

WithRef(s) == IF s.ref = "" THEN s ELSE [Push(s, RefText[s.ref]) EXCEPT !.ref = ""]

QualsAs(s, which, q) == PushTypeQualifier([s EXCEPT !.push = which], q, "")

(* The class and the qualifiers of the innermost pointer to member there   *)
(* is, as soon as there is one.                                            *)
MemberOf(s, mems, spaced) ==
    IF mems = <<>> THEN s
    ELSE [QualsAs(Push(Push(IF spaced THEN Push(s, " ") ELSE s, s.class[Len(s.class)]), "::*"),
                  "all", mems[Len(mems)].quals) EXCEPT !.funcs = @ + 1]

FunctionName(ret, q, paren, nonCv) ==
    LET open == IF paren THEN Push(Push(ret, " "), "(") ELSE Push(ret, " ")
        close(s) == IF paren THEN Push(s, ")") ELSE s
    IN close(MemberOf(QualsAs(open, "noncv", q), PtrMem(ret), nonCv))

FunctionArgs(s, q) ==
    [QualsAs(Push([ReadTypes([s EXCEPT !.isFunc = TRUE], "first", "E") EXCEPT !.isFunc = FALSE], ")"),
             "cv", q) EXCEPT !.push = "all"]

FunctionOf(ret, q, nonCv) ==
    IF ~ret.ok THEN [s |-> ret, q |-> q]
    ELSE IF Cur(ret) = "E" THEN [s |-> Eat(ret), q |-> q]
    ELSE [s |-> Expect(WithRef(FunctionArgs(FunctionName(ret, q, nonCv \/ PtrMem(ret) # <<>>, nonCv), q)), "E"),
          q |-> NoQuals]

SkipExternC(s) == IF Cur(s) = "Y" THEN Eat(s) ELSE s

ReadFunction(s, q) ==
    FunctionOf(ReadType(SkipExternC(Eat(s)), "none"), q, \E i \in DOMAIN q.list : q.list[i] \notin CvQuals)

NamedMember(s, funcs, name) ==
    IF s.funcs = funcs THEN Push(Push(Push(s, " "), name), "::*") ELSE s

MemberType(s, name) ==
    On(s, PopCmd([NamedMember(ReadType([s EXCEPT !.class = Append(@, name)], "none"), s.funcs, name)
                     EXCEPT !.class = SubSeq(@, 1, Len(@) - 1)]))

MemberOfClass(s, class, q) == MemberType(PushCmd(OnlyInOutput(Flattened(s, class)), "ptrmem", q), Wrote(s, class))

ReadPointerToMember(s, q) ==
    [s |-> MemberOfClass(Eat(s), ReadType(Eat(s), "none"), q), q |-> NoQuals]

-----------------------------------------------------------------------------
(* Types.                                                                  *)

(* A second reference in a row is refused: the first one was the           *)
(* ref-qualifier of a function, if the type ends here.                     *)
ExtQual(s, q, k, text) == ReadQuals(s, [Qualify(q, k) EXCEPT !.ext = Append(@, text)])

VectorOf(s, e, q) == ExtQual(Expect(OnlyInOutput(Flattened(s, e)), "_"), q, "Dv", Wrote(s, e))

VectorQual(s, q) ==
    IF Cur(s) = "_" THEN VectorOf(Eat(s), ReadExpression(Eat(s)), q)
    ELSE ExtQual(Expect(ReadNumber(s), "_"), q, "Dv", NumberText(s))

QualsFrom(s, q, k) ==
    CASE ~s.ok -> [s |-> s, q |-> q]
      [] k \in {"R", "O"} /\ s.ref # ""  -> [s |-> Fail(s), q |-> q]
      [] k \in {"R", "O"} /\ s.ref = ""  -> ReadQuals([Eat(s) EXCEPT !.ref = k], Qualify(q, k))
      [] k \in {"P", "C", "G"} \cup CvQuals -> ReadQuals(Eat(s), Qualify(q, k))
      [] k = "U"  -> ExtQual(Need(Eat(Eat(s)), Cur(Eat(s)) \in SourceNames), q, "U", Cur(Eat(s)))
      [] k = "Dv" -> VectorQual(Eat(s), q)
      [] OTHER    -> [s |-> s, q |-> q]

ReadQuals(s, q) ==
    QualsFrom(IF Cur(s) \in {"R", "O", "E"} THEN s ELSE [s EXCEPT !.ref = ""], q, Cur(s))

(* "void" is left out when it is all there is, up to a ref-qualifier.      *)
OmitVoid(s, first) ==
    LET rest == SelectSeq(Tail(s.in), LAMBDA t : t \notin {"R", "O"})
    IN first /\ (rest = <<>> \/ Head(rest) = "E")

NeedTwo(s) == Need(s, Len(s.vecs[1]) >= 2)
Delimited(s, td) ==
    CASE td = "first" -> NeedTwo(Push(s, "("))
      [] td = "next" /\ Cur(s) # "I" -> Push(s, ", ")
      [] OTHER -> s

(* The end of read_type: a type that is not built in is a candidate, and   *)
(* so is each type that the qualifiers make of it.                         *)
AddType(t, text, builtin) ==
    IF builtin \/ text = "" \/ Known(t.subst, text) THEN t ELSE [t EXCEPT !.subst = Append(@, text)]

Finish(s, t, q, builtin) ==
    On(t, PushTypeQualifier(AddType(t, Wrote(s, t), builtin), q, Wrote(s, t)))

FinishCompound(s, r) == Finish(s, r.s, r.q, FALSE)

UnexpectedEnd(s) == IF s.ref # "" /\ s.isFunc THEN Pop(s) ELSE Fail(s)

BaseType(s, a, q, k, first) ==
    CASE ~s.ok \/ ~a.ok -> Fail(a)
      [] k = "v" /\ q = NoQuals /\ OmitVoid(a, first) -> Eat(a)
      [] k \in DOMAIN BuiltinText -> Finish(s, Eat(Push(a, BuiltinText[k])), q, TRUE)
      [] k \in DOMAIN WideText    -> Finish(s, Eat(Push(a, WideText[k])), q, TRUE)
      [] k = "A" -> Finish(s, ReadArray(a), q, FALSE)
      [] k = "E" -> UnexpectedEnd(a)
      [] k = "F" -> FinishCompound(s, ReadFunction(a, q))
      [] k = "M" -> FinishCompound(s, ReadPointerToMember(a, q))
      [] k = "I" -> Finish(s, Candidate(a, ReadTmplArgs(a), ""), q, TRUE)
      [] k = "u" -> Finish(s, ReadSname(Eat(a)), q, FALSE)
      [] IsParam(k) -> Finish(s, ReadTmplParam(a), q, FALSE)
      [] IsSubst(k) -> Finish(s, ReadSubst(a), q, FALSE)
      [] OTHER   -> Finish(s, ReadName(a), q, FALSE)

TypeFrom(s, r, td) == BaseType(s, r.s, r.q, Cur(r.s), td = "first")
TypeAfter(s, td)   == TypeFrom(s, ReadQuals(s, NoQuals), td)
TypeRule(s, td)    == TypeAfter(Delimited(s, td), td)

-----------------------------------------------------------------------------
(* Functions, data and special names.                                      *)

OffsetText(s) == On(s, Expect(Push(Push(Eat(s), Cur(s)), " "), "_"))
OffsetNumber(s) == OffsetText(Minus(s))

NvOffset(s) == OffsetNumber(Push(s, "offset : "))

(* The result of the second number is inverted: what was read right is     *)
(* taken for a failure.                                                    *)
Inverted(s, t) == On(s, [t EXCEPT !.ok = ~ @])
SecondOffset(s) == Inverted(s, OffsetNumber(s))
VOffset(s) == SecondOffset(Push(OffsetNumber(Push(s, "offset : ")), "virtual offset : "))

ReadOffset(s) ==
    On(s, CASE Cur(s) = "h" -> NvOffset(Eat(s)) [] Cur(s) = "v" -> VOffset(Eat(s)) [] OTHER -> Fail(s))

VtableIn(s, t) ==
    On(t, Push(Push(ReadType(Expect(ReadNumber(Flattened(s, t)), "_"), "none"), "-in-"), Wrote(s, t)))
ConstructionVtable(s) == VtableIn(s, ReadType(s, "none"))

TemporaryFor(s, name) == On(s, Push(Push(Push(ReadNumber(s), NumberText(s)), " for "), name))
NumberedName(s, t) == TemporaryFor(Flattened(s, t), Wrote(s, t))
ReferenceTemporary(s) == NumberedName(s, ReadName(s))

EncodingRule(s) ==
    LET k == Cur(s)
        after(text) == Eat(Push(s, text))
    IN CASE ~s.ok \/ s.in = <<>>   -> Fail(s)
         [] k \in DOMAIN CloneText -> ReadEncoding(after(CloneText[k]))
         [] k \in DOMAIN NamedText -> ReadName(after(NamedText[k]))
         [] k \in DOMAIN SpecialText -> ReadType(after(SpecialText[k]), "none")
         [] k = "GR" -> ReferenceTemporary(after("reference temporary #"))
         [] k = "TC" -> ConstructionVtable(after("construction vtable for "))
         [] k = "Tc" -> ReadEncoding(ReadOffset(ReadOffset(after("virtual function covariant override "))))
         [] k = "Th" -> ReadEncoding(NvOffset(after("virtual function non-virtual override ")))
         [] k = "Tv" -> ReadEncoding(VOffset(after("virtual function virtual override ")))
         [] OTHER    -> ReadName(s)

ByRule(rule, s, td) ==
    CASE rule = "type"       -> TypeRule(s, td)
      [] rule = "name"       -> NameRule(s)
      [] rule = "encoding"   -> EncodingRule(s)
      [] rule = "expression" -> ExpressionRule(s)
      [] rule = "tmpl_args"  -> TmplArgsRule(s)

\* Mutant: the name stays a candidate.
PopFunctionName_Kept(s) == s

(* The name of a function is no candidate, and was the last one read.      *)
PopFunctionName(s) ==
    IF Cur(s) # "" /\ s.subst # <<>> THEN [s EXCEPT !.subst = SubSeq(@, 1, Len(@) - 1)] ELSE s

(* The type after template arguments is what the function returns.         *)
AtEnd(s) == Cur(s) \in {"", "@@"}

PutInFront(s) == On(s, Need([s EXCEPT !.vecs[1] = s.vecs[s.w] \o @, !.w = 1], ~ AtEnd(s)))

ReturnType(s) ==
    IF s.ok /\ s.isTmpl /\ ~ AtEnd(s)
    THEN PutInFront(Push(ReadType([s EXCEPT !.isTmpl = FALSE, !.vecs = Append(@, <<>>), !.w = Len(s.vecs) + 1],
                                  "none"), " "))
    ELSE s

Arguments(s) == IF ~s.ok \/ AtEnd(s) THEN s ELSE Push(ReadTypes(s, "first", "@@"), ")")

MemberText(mem) ==
    Flat([i \in 1..5 |-> IF <<"V", "K", "r", "R", "O">>[i] \in mem
                         THEN <<" volatile", " const", " restrict", " &", " &&">>[i] ELSE ""])

TextRead(s) == IF s.ok THEN Flat(s.vecs[1]) \o MemberText(s.mem) ELSE ""

(* The demangled name, "" for a name that cannot be read.                  *)
cpp_demangle_gnu3(tokens) ==
    IF tokens # <<>> /\ Head(tokens) = "_GLOBAL__I_"
    THEN "global constructors keyed to " \o Flat(Tail(tokens))
    ELSE TextRead(Arguments(ReturnType(PopFunctionName(ReadEncoding(Data(tokens))))))
=============================================================================
