------------------------------ MODULE SmallNames ------------------------------
(***************************************************************************)
(* Declarations of C++, grown one argument and one qualifier at a time;    *)
(* how a compiler mangles them, after the Itanium C++ ABI; and how they    *)
(* are spelt.  The reader of mangled names must give the spelling back.    *)
(***************************************************************************)
EXTENDS Demangler, FiniteSets

LOCAL INSTANCE SequencesExt

CONSTANTS
    Heads,      \* what is declared, before its arguments
    Bases,      \* the types that arguments are made from
    Marks,      \* the qualifiers put on them
    MaxGrowth   \* how many arguments and qualifiers a declaration gets

VARIABLES
    head,       \* what is declared
    args        \* the types of its arguments

declVars == <<head, args>>

(* Types: built in, a class (its path and the arguments of the template),  *)
(* a qualified type, a parameter of the template, a function and a         *)
(* pointer to a member.                                                    *)
Builtin(t)      == [kind |-> "builtin", code |-> t]
Class(p, a)     == [kind |-> "class", path |-> p, targs |-> a]
Qualified(q, t) == [kind |-> "qualified", mark |-> q, of |-> t]
Param(i)        == [kind |-> "param", index |-> i]
Function(r, a)  == [kind |-> "function", returns |-> r, takes |-> a]
PointerToMember(c, t) == [kind |-> "member", class |-> c, of |-> t]

(* A head: the code of a special name, the path of what is declared, its   *)
(* template arguments and those of its class, the type returned, the one a *)
(* conversion is to, and the variable in it.                               *)
Head0(p) == [special |-> "", path |-> p, targs |-> <<>>, cv |-> <<>>, returns |-> Builtin("v"), var |-> "",
              class |-> <<>>, conv |-> Builtin("v")]

-----------------------------------------------------------------------------
(* Mangling: the tokens so far, the candidates for substitution so far,    *)
(* and whether one was named and whether a template was named by one.      *)

Mangled0 == [toks |-> <<>>, cands |-> <<>>, used |-> FALSE, reused |-> FALSE]

Write(m, toks) == [m EXCEPT !.toks = @ \o toks]
Add(m, c)     == [m EXCEPT !.cands = Append(@, c)]
Has(m, c)     == \E i \in DOMAIN m.cands : m.cands[i] = c
Refer(m, c)   == [Write(m, <<Seconds[IndexOf(m.cands, c)]>>) EXCEPT !.used = TRUE]

RECURSIVE MangleType(_, _), MangleTypes(_, _), ManglePath(_, _, _)

ManglePath(m, path, targs) ==
    CASE path = <<"std">>         -> Write(m, <<"St">>)
      [] Has(m, Class(path, targs)) -> Refer(m, Class(path, targs))
      [] targs # <<>>             ->
            LET name == [ManglePath(m, path, <<>>) EXCEPT !.reused = @ \/ Has(m, Class(path, <<>>))]
            IN Add(Write(MangleTypes(Write(name, <<"I">>), targs), <<"E">>), Class(path, targs))
      [] Len(path) = 1            -> Add(Write(m, path), Class(path, <<>>))
      [] OTHER                    ->
            Add(Write(ManglePath(m, Front(path), <<>>), <<Last(path)>>), Class(path, <<>>))

IsNested(path) == Len(path) > IF path[1] = "std" THEN 2 ELSE 1

MangleClass(m, c) ==
    IF Has(m, c) THEN Refer(m, c)
    ELSE IF IsNested(c.path) THEN Write(ManglePath(Write(m, <<"N">>), c.path, c.targs), <<"E">>)
    ELSE ManglePath(m, c.path, c.targs)

(* const and volatile on one type are one step.                            *)
MangleType(m, t) ==
    CASE t.kind = "builtin"   -> Write(m, <<t.code>>)
      [] t.kind = "class"     -> MangleClass(m, t)
      [] Has(m, t)            -> Refer(m, t)
      [] t.kind = "qualified" -> Add(MangleType(Write(m, t.mark), t.of), t)
      [] t.kind = "param"     -> Add(Write(m, <<Params[t.index]>>), t)
      [] t.kind = "member"    -> Add(MangleType(MangleType(Write(m, <<"M">>), t.class), t.of), t)
      [] t.kind = "function"  ->
            Add(Write(MangleTypes(Write(m, <<"F">>), <<t.returns>> \o
                                 IF t.takes = <<>> THEN <<Builtin("v")>> ELSE t.takes), <<"E">>), t)

MangleTypes(m, ts) == FoldLeft(MangleType, m, ts)

(* The type a conversion is to follows its code.                           *)
MangleScope(m, h) == IF Len(h.path) = 1 THEN m ELSE ManglePath(m, Front(h.path), h.class)
MangleOwn(m, h)   == MangleTypes(Write(m, <<Last(h.path)>>), IF Last(h.path) = "cv" THEN <<h.conv>> ELSE <<>>)

(* A function is no candidate, but the template it is made from is one.    *)
MangleArgs(m, h) ==
    IF h.targs = <<>> THEN m
    ELSE Write(MangleTypes(Write(Add(m, Class(h.path, <<>>)), <<"I">>), h.targs), <<"E">>)

MangleName(m, h) == MangleArgs(MangleOwn(MangleScope(m, h), h), h)

MangleHead(m, h) ==
    LET nested == IsNested(h.path)
    IN Write(MangleName(Write(m, IF nested THEN <<"N">> \o h.cv ELSE <<>>), h),
             IF nested THEN <<"E">> ELSE <<>>)

Mangle(h, ts) ==
    CASE h.special = "data" -> MangleHead(Mangled0, h)
      [] h.special \in DOMAIN SpecialText -> MangleType(Write(Mangled0, <<h.special>>), Class(h.path, h.targs))
      [] OTHER ->
         LET start == Write(Mangled0, (IF h.var = "" THEN <<>> ELSE <<"Z">>)
                               \o CASE h.special = "Th" -> <<"Th", "16", "_">> [] OTHER -> <<>>)
             named == MangleHead(start, h)
             typed == IF h.targs = <<>> THEN named ELSE MangleType(named, h.returns)
             whole == MangleTypes(typed, IF ts = <<>> THEN <<Builtin("v")>> ELSE ts)
         IN IF h.var = "" THEN whole ELSE Write(whole, <<"E", h.var>>)

-----------------------------------------------------------------------------
(* Spelling.                                                               *)

RECURSIVE SpeltType(_, _), SpeltList(_, _), Core(_), MarksOf(_)

(* What is qualified, and the text of the qualifiers from the inside out.  *)
Core(t)    == IF t.kind = "qualified" THEN Core(t.of) ELSE t
MarksOf(t) == IF t.kind = "qualified"
              THEN MarksOf(t.of) \o Flat([i \in DOMAIN t.mark |-> QualText[t.mark[Len(t.mark) + 1 - i]]]) ELSE ""

JoinedBy(texts, between) ==
    Flat([i \in DOMAIN texts |-> IF i = 1 THEN texts[i] ELSE between \o texts[i]])

Angle(ts, own) == IF ts = <<>> THEN "" ELSE "<" \o SpeltList(ts, own) \o ">"

SpeltFunction(t, inner, own) ==
    SpeltType(t.returns, own) \o " (" \o inner \o ")(" \o SpeltList(t.takes, own) \o ")"

(* `own' are the template arguments that parameters stand for.             *)
SpeltType(t, own) ==
    CASE t.kind = "builtin"   -> BuiltinText[t.code]
      [] t.kind = "class"     -> JoinedBy(t.path, "::") \o Angle(t.targs, own)
      [] t.kind = "param"     -> SpeltType(own[t.index], own)
      [] t.kind = "qualified" -> IF Core(t).kind = "function" THEN SpeltFunction(Core(t), MarksOf(t), own)
                                 ELSE SpeltType(Core(t), own) \o MarksOf(t)
      [] t.kind = "member"    -> IF t.of.kind = "function"
                                 THEN SpeltFunction(t.of, SpeltType(t.class, own) \o "::*", own)
                                 ELSE SpeltType(t.of, own) \o " " \o SpeltType(t.class, own) \o "::*"

SpeltList(ts, own) == JoinedBy([i \in DOMAIN ts |-> SpeltType(ts[i], own)], ", ")

SpeltName(h) ==
    LET scope == Front(h.path)
        last  == Last(h.path)
        own   == CASE last = "C1" -> Last(scope) [] last = "D1" -> "~" \o Last(scope)
                   [] last \in DOMAIN OperatorText -> OperatorText[last] [] OTHER -> last
    IN (IF scope = <<>> THEN "" ELSE JoinedBy(scope, "::") \o Angle(h.class, h.class) \o "::") \o own
       \o (IF last = "cv" THEN SpeltType(h.conv, h.targs) ELSE "") \o Angle(h.targs, h.targs)

Spelt(h, ts) ==
    CASE h.special = "data" -> SpeltName(h)
      [] h.special \in DOMAIN SpecialText -> SpecialText[h.special] \o SpeltType(Class(h.path, h.targs), <<>>)
      [] OTHER -> (IF h.special = "Th" THEN "virtual function non-virtual override offset : 16 " ELSE "")
                  \o (IF h.targs = <<>> THEN "" ELSE SpeltType(h.returns, h.targs) \o " ")
                  \o SpeltName(h) \o "(" \o SpeltList(ts, h.targs) \o ")"
                  \o (IF h.cv = <<>> THEN "" ELSE MarksOf(Qualified(h.cv, Builtin("v"))))
                  \o (IF h.var = "" THEN "" ELSE "::" \o h.var)

-----------------------------------------------------------------------------
(* Growing a declaration.                                                  *)

RECURSIVE Depth(_), HasFunction(_)
Depth(t) == IF t.kind = "qualified" THEN 1 + Depth(t.of) ELSE 0
HasFunction(t) == CASE t.kind = "function" -> TRUE
                    [] t.kind \in {"qualified", "member"} -> HasFunction(t.of)
                    [] OTHER -> FALSE
Growth == Len(args) + FoldLeft(LAMBDA n, t : n + Depth(t), 0, args)

DeclInit == head \in Heads /\ args = <<>>

TakesArguments == head.special \in {"", "Th"}

AddArgument ==
    /\ TakesArguments /\ Growth < MaxGrowth
    /\ \E t \in Bases :
          /\ t.kind = "param" => t.index <= Len(head.targs)
          /\ args' = Append(args, t)
    /\ UNCHANGED head

(* A reference is the outermost step, and const is not put on one.         *)
Decorate ==
    /\ args # <<>> /\ Growth < MaxGrowth
    /\ \E q \in Marks :
          /\ Last(args).kind = "qualified" =>
                /\ Last(args).mark # <<"R">>
                /\ ~(Last(args).mark[1] \in CvQuals /\ q[1] \in CvQuals)
          /\ Last(args).kind # "member"
          /\ args' = Append(Front(args), Qualified(q, Last(args)))
    /\ UNCHANGED head

DeclNext == AddArgument \/ Decorate

DeclSpec == DeclInit /\ [][DeclNext]_declVars

-----------------------------------------------------------------------------
(* What is left out, because the reader is known to fail there (README):   *)
(* a candidate spelt like the beginning of an earlier one, which is found  *)
(* to be known; template arguments likewise; a template named by a         *)
(* substitution; anything behind a function type; a substitution in a name *)
(* within a function; and qualifiers on a pointer to member.               *)

NoneBegins(texts) == \A i, j \in DOMAIN texts : i < j => ~Begins(texts[i], texts[j])

CanBeRead(h, ts) ==
    LET m == Mangle(h, ts) IN
    /\ ~m.reused
    /\ h.var # "" => ~m.used
    /\ \A i \in DOMAIN ts : HasFunction(ts[i]) => i = Len(ts)
    /\ NoneBegins([i \in DOMAIN h.targs |-> SpeltType(h.targs[i], h.targs)])
    /\ NoneBegins([i \in DOMAIN m.cands |->
                      IF m.cands[i].kind = "function" THEN "function" ELSE SpeltType(m.cands[i], h.targs)])

(* The text read from the mangled name of a declaration is the declaration *)
(* (libelftc_dem_gnu3.c): every candidate for substitution was entered, in *)
(* the order in which the compiler counts them, and none twice.            *)
DemangledIsDeclared ==
    CanBeRead(head, args) => cpp_demangle_gnu3(Mangle(head, args).toks) = Spelt(head, args)
=============================================================================
