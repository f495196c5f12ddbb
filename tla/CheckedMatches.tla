--------------------------- MODULE CheckedMatches ---------------------------
(***************************************************************************)
(* The matches that the type checker lets through, as Matching has them.   *)
(* A program declares types and ends in a match; where it is accepted, the *)
(* annotations say what each pattern is and where its parts are.           *)
(***************************************************************************)
EXTENDS TypingRules, Statements

CONSTANTS
  Declarations,  \* the statements that declare the types of a program
  Endings        \* the match statements that may follow them

(* The context after declarations that are accepted.                       *)
RECURSIVE ContextOf(_)
ContextOf(ss) == IF ss = <<>> THEN EmptyCtx ELSE Typecheck(ContextOf(Front(ss)), Last(ss)).ctx

Declared == ContextOf(Declarations)

-----------------------------------------------------------------------------
(* Records *)

(* The position of a field in a record of type t: where it is in the row.  *)
FieldIndex(t, label) ==
  CHOOSE j \in DOMAIN RowFields(t.a[1]) : RowFields(t.a[1])[j].l = label

(* Mutant: the fields are numbered as they are in the source.              *)
Slot_InSource(e, i) == i

(* The field that an access or a `with` names i-th.                        *)
Slot(e, i) == FieldIndex(e.c[1].typ, e.n[i])

-----------------------------------------------------------------------------
(* Values *)

(* The value of an expression made of literals and constructors.           *)
RECURSIVE BuildExpr(_)
BuildExpr(e) ==
  LET Parts(es) == [i \in DOMAIN es |-> BuildExpr(es[i])]
  IN CASE e.k = "lit"   -> Value("lit", e.n, <<>>)
       [] e.k = "list"  -> FoldRight(LAMBDA x, l : Value("cons", <<>>, <<x, l>>), Parts(e.c), Value("nil", <<>>, <<>>))
       [] e.k = "cons"  -> Value("cons", <<>>, Parts(e.c))
       [] e.k = "tuple" -> Value("tuple", <<>>, Parts(e.c))
       [] e.k \in {"var", "app"} -> Value("ctor", HeadOf(e).n, Parts(ArgsOf(e)))
       [] e.k = "record" ->
            LET fields == RowFields(e.typ.a[1])
                Given(l) == CHOOSE i \in DOMAIN e.c : e.n[i + 1] = l /\ \A k \in 1 .. i - 1 : e.n[k + 1] # l
            IN Value("rec", [j \in DOMAIN fields |-> fields[j].l],
                     [j \in DOMAIN fields |-> BuildExpr(e.c[Given(fields[j].l)])])
       [] e.k = "with"  ->
            FoldLeft(LAMBDA r, i : [r EXCEPT !.c[Slot(e, i)] = BuildExpr(e.c[i + 1])],
                     BuildExpr(e.c[1]), [i \in DOMAIN e.n |-> i])
       [] e.k = "field" -> BuildExpr(e.c[1]).c[Slot(e, 1)]
       [] e.k = "if"    -> BuildExpr(IF e.c[1].n = <<"true">> THEN e.c[2] ELSE e.c[3])

-----------------------------------------------------------------------------
(* Patterns: what PatternBind makes of pattern p, matched at type t.       *)

RECURSIVE PatternBind(_, _)
PatternBind(p, t) ==
  LET Part(q, u, at, l) == [p |-> PatternBind(q, u), at |-> at, l |-> l]
      A(k, label, parts) == [k |-> k, label |-> label, typ |-> t, parts |-> parts]
      Cell(head, tail)   == A("cons", "", <<Part(head, t.a[1], 1, ""), Part(tail, t, 2, "")>>)
  IN CASE p.k = "lit"    -> A("literal", p.n[1], <<>>)
       [] p.k = "var"    -> A(IF p.n[1] \in CtorsOf(Declared) THEN "ctor" ELSE "any", p.n[1], <<>>)
       [] p.k = "list"   -> IF p.c = <<>> THEN A("empty", "", <<>>)
                            ELSE Cell(Head(p.c), [p EXCEPT !.c = Tail(@)])
       [] p.k = "cons"   -> Cell(p.c[1], p.c[2])
       [] p.k = "tuple"  -> A("tuple", "", [i \in DOMAIN p.c |-> Part(p.c[i], t.a[i], i, "")])
       [] p.k = "record" -> LET Index(i) == FieldIndex(t, p.n[i + 1])
                            IN A("record", "", [i \in DOMAIN p.c |->
                                 Part(p.c[i], RowFields(t.a[1])[Index(i)].t, Index(i), p.n[i + 1])])
       [] p.k = "app"    -> LET ctor == HeadOf(p).n[1]
                            IN A("ctor", ctor, [i \in DOMAIN ArgsOf(p) |->
                                 Part(ArgsOf(p)[i], FieldTypes(Declared, ctor, t)[i], i, "")])

-----------------------------------------------------------------------------
MatchOf(e) ==
  LET t == DefaultFreeVars(e.c[1].typ)
  IN [scrutinee |-> e.c[1],
      typ   |-> t,
      cases |-> [i \in DOMAIN e.p |-> PatternBind(e.p[i], t)],
      names |-> [i \in DOMAIN e.p |-> DOMAIN Binds(Declared, e.p[i], t)]]

AcceptedMatches ==
  LET Result(s) == Typecheck(Declared, s)
  IN {MatchOf(Result(s).s.c[1]) : s \in {r \in Endings : Returns(Result(r))}}

RECURSIVE WithParts(_)
WithParts(p) == {p} \cup UNION {WithParts(p.parts[i].p) : i \in DOMAIN p.parts}

AcceptedPatterns == UNION {UNION {WithParts(m.cases[i]) : i \in DOMAIN m.cases} : m \in AcceptedMatches}

(* The values of each of their types, constructors to depth 3.             *)
Universes == [t \in {p.typ : p \in AcceptedPatterns} |-> Values(Declared, t, 3)]

-----------------------------------------------------------------------------
(* Each field access and `with` in e reaches the fields that it names.     *)
RECURSIVE ReachesFields(_)
ReachesFields(e) ==
  LET Reaches(i) == BuildExpr(e.c[1]).n[Slot(e, i)] = e.n[i]
  IN /\ \A i \in DOMAIN e.c : ReachesFields(e.c[i])
     /\ e.k \in {"field", "with"} => \A i \in DOMAIN e.n : Reaches(i)
=============================================================================
