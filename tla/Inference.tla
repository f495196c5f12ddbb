----------------------------- MODULE Inference -----------------------------
(***************************************************************************)
(* Type inference over one statement (algo_w and its callees, types.rs).   *)
(*                                                                         *)
(* An expression is a node: its kind k, the names it holds n, the patterns *)
(* of a match p, an annotation t, its sub-expressions c in source order,   *)
(* and typ, the type inference records on it.  algo_w records the type it  *)
(* infers; `Resolve` then applies the statement's substitution to every    *)
(* recorded type.  Codegen reads the recorded types.                       *)
(*                                                                         *)
(* A type is inferred in a context that is changed on the way: it comes    *)
(* back with the substitution, the type and the annotated node.            *)
(***************************************************************************)
EXTENDS Unification

Node(k, n, c) == [k |-> k, n |-> n, p |-> <<>>, t |-> TInfer, c |-> c, typ |-> Var("")]

Builtins ==
  LET Typ == [print |-> Fn(TStr, TUnit), println |-> Fn(TStr, TUnit), readin |-> Fn(TUnit, TStr),
              itostr |-> Fn(TInt, TStr), ftostr |-> Fn(TFloat, TStr), btostr |-> Fn(TBool, TStr),
              strtoi |-> Fn(TStr, TInt), strtof |-> Fn(TStr, TFloat), strtob |-> Fn(TStr, TBool),
              itof |-> Fn(TInt, TFloat), ftoi |-> Fn(TFloat, TInt),
              tochars |-> Fn(TStr, List(TChar)), fromchars |-> Fn(List(TChar), TStr)]
  IN [x \in DOMAIN Typ |-> Mono(Typ[x])]

IsBuiltin(x) == x \in DOMAIN Builtins

EmptyCtx == [ctr |-> 0, vars |-> Builtins, aliases |-> <<>>, enums |-> <<>>]

Inferred(ctx, sub, typ, c) ==
  [is |-> "ok", ctx |-> ctx, sub |-> sub, typ |-> typ, c |-> c]

-----------------------------------------------------------------------------
(* Patterns *)

(* The head and the arguments of `C p1 ... pn`.                            *)
RECURSIVE HeadOf(_), ArgsOf(_)
HeadOf(p) == IF p.k = "app" THEN HeadOf(p.c[1]) ELSE p
ArgsOf(p) == IF p.k = "app" THEN Append(ArgsOf(p.c[1]), p.c[2]) ELSE <<>>

RECURSIVE TypePattern(_, _, _), CtorArgs(_, _, _, _), PatternSeq(_, _, _, _)

(* The sub-patterns against their types, the context refined after each.   *)
PatternSeq(ctx, sub, ps, ts) ==
  IF ps = <<>> THEN Solved(ctx, sub)
  ELSE Then(TypePattern(ctx, Head(ps), Apply(Head(ts), sub)), LAMBDA r :
         PatternSeq(ApplyCtx(r.ctx, r.sub), Combine(sub, r.sub), Tail(ps), Tail(ts)))

CtorArgs(ctx, sub, ctor, ps) ==
  IF ps = <<>> THEN Inferred(ctx, sub, ctor, <<>>)
  ELSE IF IsVar(ctor) THEN Error
  ELSE IF ctor.f # "Fn" THEN Error
  ELSE Then(TypePattern(ctx, Head(ps), Apply(ctor.a[1], sub)), LAMBDA r :
         LET sub2 == Combine(sub, r.sub)
         IN CtorArgs(ApplyCtx(r.ctx, r.sub), sub2, Apply(ctor.a[2], sub2), Tail(ps)))

(* The substitution of the last unification is returned and not applied to *)
(* the context.                                                            *)
CtorPattern(ctx, p, typ) ==
  LET head == HeadOf(p)
  IN IF head.k # "var" THEN Error
     ELSE IF ~Knows(ctx, head.n[1]) THEN Error
     ELSE Then(Instantiate(ctx, ctx.vars[head.n[1]]), LAMBDA i :
          Then(CtorArgs(i.ctx, NoSub, i.typ, ArgsOf(p)), LAMBDA r :
          Then(Unify(r.ctx, typ, r.typ), LAMBDA u :
            Solved(u.ctx, Combine(r.sub, u.sub)))))

ConsPattern(ctx, p, typ) ==
  LET alpha == NewVar(ctx)
  IN Then(Unify(Bump(ctx, 1), typ, List(alpha)), LAMBDA u :
     LET elem == Apply(alpha, u.sub)
     IN Then(TypePattern(ApplyCtx(u.ctx, u.sub), p.c[1], elem), LAMBDA r1 :
        Then(TypePattern(r1.ctx, p.c[2], List(Apply(elem, r1.sub))), LAMBDA r2 :
          Solved(r2.ctx, Combine(Combine(u.sub, r1.sub), r2.sub)))))

(* The elements of a list pattern are all typed against the element type   *)
(* as the list left it.                                                    *)
RECURSIVE ElementPatterns(_, _, _, _)
ElementPatterns(ctx, sub, ps, elem) ==
  IF ps = <<>> THEN Solved(ctx, sub)
  ELSE Then(TypePattern(ctx, Head(ps), elem), LAMBDA r :
         ElementPatterns(ApplyCtx(r.ctx, r.sub), Combine(sub, r.sub), Tail(ps), elem))

ListPattern(ctx, p, typ) ==
  LET alpha == NewVar(ctx)
  IN Then(Unify(Bump(ctx, 1), typ, List(alpha)), LAMBDA u :
       ElementPatterns(ApplyCtx(u.ctx, u.sub), u.sub, p.c, Apply(alpha, u.sub)))

(* The fields are given variables from the last to the first.              *)
RECURSIVE OpenRow(_, _, _)
OpenRow(labels, ts, tail) ==
  IF labels = <<>> THEN tail
  ELSE RowExt(Head(labels), Head(ts), OpenRow(Tail(labels), Tail(ts), tail))

RecordPattern(ctx, p, typ) ==
  LET labels == Tail(p.n)
      n      == Len(labels)
      ts     == Reverse(Fresh(Bump(ctx, 1), n))
  IN Then(Unify(Bump(ctx, n + 1), typ, Rec(OpenRow(labels, ts, NewVar(ctx)))), LAMBDA u :
       PatternSeq(ApplyCtx(u.ctx, u.sub), u.sub, p.c, ts))

TuplePattern(ctx, p, typ) ==
  LET ts == Fresh(ctx, Len(p.c))
  IN Then(Unify(Bump(ctx, Len(p.c)), typ, Tuple(ts)), LAMBDA u :
       PatternSeq(ApplyCtx(u.ctx, u.sub), u.sub, p.c, ts))

TypePattern(ctx, p, typ) ==
  CASE p.k = "lit"    -> Then(Unify(ctx, typ, p.t), LAMBDA u : Solved(ApplyCtx(u.ctx, u.sub), u.sub))
    [] p.k = "var"    -> Solved(Add(ctx, p.n[1], Mono(typ)), NoSub)
    [] p.k = "cons"   -> ConsPattern(ctx, p, typ)
    [] p.k = "app"    -> CtorPattern(ctx, p, typ)
    [] p.k = "list"   -> ListPattern(ctx, p, typ)
    [] p.k = "record" -> RecordPattern(ctx, p, typ)
    [] p.k = "tuple"  -> TuplePattern(ctx, p, typ)
    [] OTHER          -> Error

-----------------------------------------------------------------------------
(* Exhaustiveness: a coverage of the constructors at the head of the cases *)

CtorName(p) == IF HeadOf(p).k = "var" THEN {HeadOf(p).n[1]} ELSE {}

CatchAll(p)  == p.k = "var"
LitPat(p, v) == p.k = "lit" /\ p.t = TBool /\ p.n = <<v>>

(* Mutant: a constructor without fields is taken for a variable.           *)
EnumExhaustive_AnyVariable(ctx, name, ps) ==
  \/ \E i \in DOMAIN ps : CatchAll(ps[i])
  \/ ctx.enums[name] \subseteq UNION {CtorName(ps[i]) : i \in DOMAIN ps}

EnumExhaustive(ctx, name, ps) ==
  /\ name \in DOMAIN ctx.enums
  /\ \/ \E i \in DOMAIN ps : CatchAll(ps[i]) /\ ps[i].n[1] \notin ctx.enums[name]
     \/ ctx.enums[name] \subseteq UNION {CtorName(ps[i]) : i \in DOMAIN ps}

Exhaustive(ctx, t, ps) ==
  LET Some(Is(_)) == \E i \in DOMAIN ps : Is(ps[i])
  IN IF ~IsVar(t) /\ t.f = "Enum" THEN EnumExhaustive(ctx, t.n, ps)
     ELSE \/ Some(CatchAll)
          \/ /\ t = TBool
             /\ Some(LAMBDA p : LitPat(p, "true"))
             /\ Some(LAMBDA p : LitPat(p, "false"))
          \/ /\ ~IsVar(t) /\ t.f = "List"
             /\ Some(LAMBDA p : p.k = "list" /\ p.c = <<>>)
             /\ Some(LAMBDA p : p.k = "cons")

-----------------------------------------------------------------------------
(* Expressions *)

RECURSIVE AlgoW(_, _), Stmts(_, _, _, _), Elements(_, _, _, _, _), Cases(_, _, _, _), Items(_, _, _, _, _),
          Fields(_, _, _, _, _, _), NamedFields(_, _, _, _, _), Updates(_, _, _, _, _, _)

InferVariable(ctx, e) ==
  IF ~Knows(ctx, e.n[1]) THEN Error
  ELSE Then(Instantiate(ctx, ctx.vars[e.n[1]]), LAMBDA i : Inferred(i.ctx, NoSub, i.typ, <<>>))

(* What the parameter shadowed is put back as it was before the body: not  *)
(* under the body's substitution, which the caller applies.                *)
InferAbstraction(ctx, e) ==
  LET x == e.n[1]
  IN Then(Expand(ctx, e.t, {}), LAMBDA b :
     Then(AlgoW(Add(b.ctx, x, Mono(b.typ)), e.c[1]), LAMBDA r :
       Inferred(RestoreVar(r.ctx, b.ctx, x), r.sub, Apply(Fn(b.typ, r.typ), r.sub), <<r.e>>)))

InferApplication(ctx, e) ==
  Then(AlgoW(ctx, e.c[1]), LAMBDA r1 :
  Then(AlgoW(ApplyCtx(r1.ctx, r1.sub), e.c[2]), LAMBDA r2 :
  LET ret == NewVar(r2.ctx)
  IN Then(Unify(Bump(r2.ctx, 1), Apply(r1.typ, r2.sub), Fn(r2.typ, ret)), LAMBDA u :
       Inferred(u.ctx, Combine(Combine(r1.sub, r2.sub), u.sub), Apply(ret, u.sub), <<r1.e, r2.e>>))))

(* The binding of the let is left in the context.                          *)
InferLet(ctx, e) ==
  LET x   == e.n[1]
      rec == NewVar(ctx)
  IN IF IsBuiltin(x) THEN Error
     ELSE Then(AlgoW(Add(Bump(ctx, 1), x, Mono(rec)), e.c[1]), LAMBDA r1 :
          Then(Unify(ApplyCtx(r1.ctx, r1.sub), r1.typ, Apply(rec, r1.sub)), LAMBDA u :
          LET sub == Combine(r1.sub, u.sub)
              g   == Generalise(RestoreVar(ApplyCtx(u.ctx, sub), ctx, x), Apply(r1.typ, u.sub))
          IN Then(AlgoW(Add(g.ctx, x, g.poly), e.c[2]), LAMBDA r2 :
               Inferred(r2.ctx, Combine(sub, r2.sub), r2.typ, <<r1.e, r2.e>>))))

InferIfElse(ctx, e) ==
  Then(AlgoW(ctx, e.c[1]), LAMBDA r1 :
  Then(Unify(r1.ctx, r1.typ, TBool), LAMBDA u1 :
  Then(AlgoW(ApplyCtx(ApplyCtx(u1.ctx, r1.sub), u1.sub), e.c[2]), LAMBDA r2 :
  Then(AlgoW(ApplyCtx(r2.ctx, r2.sub), e.c[3]), LAMBDA r3 :
  Then(Unify(r3.ctx, Apply(r2.typ, r3.sub), r3.typ), LAMBDA u2 :
    Inferred(u2.ctx, Combine(Combine(Combine(Combine(r1.sub, u1.sub), r2.sub), r3.sub), u2.sub),
             Apply(Apply(r2.typ, r3.sub), u2.sub), <<r1.e, r2.e, r3.e>>))))))

(* `let x : t = e` in a context: x is generalised when e has been typed.   *)
(* The substitution of the initializer comes after `before`.               *)
Declare(ctx, s, before) ==
  LET x == s.n[1]
  IN IF IsBuiltin(x) THEN Error
     ELSE Then(Expand(ctx, s.t, {}), LAMBDA b :
          Then(AlgoW(Add(b.ctx, x, Mono(b.typ)), s.c[1]), LAMBDA r :
          LET sub1 == Combine(before, r.sub)
          IN Then(Unify(ApplyCtx(r.ctx, r.sub), Apply(b.typ, sub1), r.typ), LAMBDA u :
             LET sub2 == Combine(sub1, u.sub)
                 typ  == Apply(b.typ, sub2)
                 g    == Generalise(RestoreVar(ApplyCtx(u.ctx, u.sub), b.ctx, x), typ)
             IN Inferred(Add(g.ctx, x, g.poly), sub2, typ, <<r.e>>))))

(* A block's declarations stay in the context when it ends.                *)
Stmts(ctx, sub, ss, done) ==
  IF Len(ss) = 1
  THEN Then(AlgoW(ctx, ss[1]), LAMBDA r :
         Inferred(r.ctx, Combine(sub, r.sub), r.typ, Append(done, r.e)))
  ELSE LET s == Head(ss)
       IN CASE s.k = "decl" ->
                 Then(Declare(ctx, s, sub), LAMBDA r :
                   Stmts(r.ctx, r.sub, Tail(ss), Append(done, [s EXCEPT !.c = r.c])))
            [] s.k \in {"enum", "rectype", "alias"} -> Error
            [] OTHER ->
                 Then(AlgoW(ctx, s), LAMBDA r :
                   Stmts(ApplyCtx(r.ctx, r.sub), Combine(sub, r.sub), Tail(ss), Append(done, r.e)))

(* The type of the elements so far is unified as it was before the         *)
(* substitution of the next element.                                       *)
Elements(ctx, sub, elem, es, done) ==
  IF es = <<>> THEN Inferred(ctx, sub, List(elem), done)
  ELSE Then(AlgoW(ctx, Head(es)), LAMBDA r :
       Then(Unify(ApplyCtx(r.ctx, r.sub), elem, r.typ), LAMBDA u :
         Elements(u.ctx, Combine(Combine(sub, r.sub), u.sub), Apply(elem, u.sub), Tail(es), Append(done, r.e))))

InferList(ctx, e) ==
  IF e.c = <<>> THEN Inferred(Bump(ctx, 1), NoSub, List(NewVar(ctx)), <<>>)
  ELSE Then(AlgoW(ctx, e.c[1]), LAMBDA r :
         Elements(ApplyCtx(r.ctx, r.sub), r.sub, r.typ, Tail(e.c), <<r.e>>))

(* Mutant: what the list makes of the element is not in the substitution.  *)
InferCons_Dropped(ctx, e) ==
  Then(AlgoW(ctx, e.c[1]), LAMBDA r1 :
  Then(AlgoW(ApplyCtx(r1.ctx, r1.sub), e.c[2]), LAMBDA r2 :
  LET elem == Apply(r1.typ, r2.sub)
  IN Then(Unify(r2.ctx, r2.typ, List(elem)), LAMBDA u :
       Inferred(u.ctx, Combine(r1.sub, r2.sub), List(Apply(elem, u.sub)), <<r1.e, r2.e>>))))

InferCons(ctx, e) ==
  Then(AlgoW(ctx, e.c[1]), LAMBDA r1 :
  Then(AlgoW(ApplyCtx(r1.ctx, r1.sub), e.c[2]), LAMBDA r2 :
  LET elem == Apply(r1.typ, r2.sub)
  IN Then(Unify(r2.ctx, r2.typ, List(elem)), LAMBDA u :
       Inferred(u.ctx, Combine(Combine(r1.sub, r2.sub), u.sub), List(Apply(elem, u.sub)), <<r1.e, r2.e>>))))

(* The cases one after the other, each in a copy of the context (whose     *)
(* counter is all that is kept of it); m is the match so far.              *)
Cases(m, ret, ps, bodies) ==
  IF ps = <<>> THEN m
  ELSE Then(TypePattern(ApplyCtx(m.ctx, m.sub), Head(ps), m.typ), LAMBDA p :
       Then(AlgoW(p.ctx, Head(bodies)), LAMBDA r :
       LET sub2 == Combine(Combine(m.sub, p.sub), r.sub)
           ctx2 == IF r.ctx.ctr > m.ctx.ctr THEN [m.ctx EXCEPT !.ctr = r.ctx.ctr] ELSE m.ctx
       IN Then(Unify(ctx2, Apply(ret, sub2), Apply(r.typ, sub2)), LAMBDA u :
          LET sub3 == Combine(sub2, u.sub)
          IN Cases(Inferred(u.ctx, sub3, Apply(m.typ, sub3), Append(m.c, r.e)),
                   ret, Tail(ps), Tail(bodies)))))

InferMatch(ctx, e) ==
  Then(AlgoW(ctx, e.c[1]), LAMBDA r :
  LET ret == NewVar(r.ctx)
  IN Then(Cases(Inferred(Bump(ApplyCtx(r.ctx, r.sub), 1), r.sub, r.typ, <<r.e>>),
                ret, e.p, Tail(e.c)), LAMBDA m :
       IF Exhaustive(m.ctx, m.typ, e.p)
       THEN Inferred(m.ctx, m.sub, Apply(ret, m.sub), m.c)
       ELSE Error))

(* Two operands of one type; Result says what the type of the whole is, or *)
(* that an operator does not take the operands' type.                      *)
InferBinary(ctx, e, Takes(_), Result(_)) ==
  Then(AlgoW(ctx, e.c[1]), LAMBDA r1 :
  Then(AlgoW(ApplyCtx(r1.ctx, r1.sub), e.c[2]), LAMBDA r2 :
  LET t1 == Apply(r1.typ, r2.sub)
  IN Then(Unify(r2.ctx, t1, r2.typ), LAMBDA u :
     LET unified == Apply(t1, u.sub)
     IN IF Takes(unified)
        THEN Inferred(u.ctx, Combine(Combine(r1.sub, r2.sub), u.sub), Result(unified), <<r1.e, r2.e>>)
        ELSE Error)))

Number == {TInt, TFloat}

(* An operand whose type is a variable is taken by every operator.         *)
TakesArith(op, t) == IsVar(t) \/ t \in Number \/ (op = "+" /\ t = TStr)
TakesComp(op, t) ==
  IsVar(t) \/ t \in Number \/ (op \in {"==", "!="} /\ t.f # "Fn")

InferArithmetic(ctx, e) ==
  InferBinary(ctx, e, LAMBDA t : TakesArith(e.n[1], t), LAMBDA t : t)

InferComparison(ctx, e) ==
  InferBinary(ctx, e, LAMBDA t : TakesComp(e.n[1], t), LAMBDA t : TBool)

(* Unlike the others, `&&` makes a variable a bool.                        *)
InferLogical(ctx, e) ==
  Then(InferBinary(ctx, e, LAMBDA t : TRUE, LAMBDA t : t), LAMBDA r :
  Then(Unify(r.ctx, r.typ, TBool), LAMBDA u :
    Inferred(u.ctx, Combine(r.sub, u.sub), TBool, r.c)))

InferNegate(ctx, e) ==
  Then(AlgoW(ctx, e.c[1]), LAMBDA r :
    IF IsVar(r.typ) \/ r.typ \in Number
    THEN Inferred(ApplyCtx(r.ctx, r.sub), r.sub, r.typ, <<r.e>>)
    ELSE Error)

InferNot(ctx, e) ==
  Then(AlgoW(ctx, e.c[1]), LAMBDA r :
  Then(Unify(r.ctx, r.typ, TBool), LAMBDA u :
  LET sub == Combine(r.sub, u.sub)
  IN Inferred(ApplyCtx(u.ctx, sub), sub, TBool, <<r.e>>)))

InferFieldAccess(ctx, e) ==
  Then(AlgoW(ctx, e.c[1]), LAMBDA r :
  LET alpha == Fresh(r.ctx, 2)[1]
      rho   == Fresh(r.ctx, 2)[2]
  IN Then(Unify(Bump(ApplyCtx(r.ctx, r.sub), 2), Apply(r.typ, r.sub), Rec(RowExt(e.n[1], alpha, rho))), LAMBDA u :
     LET sub == Combine(r.sub, u.sub)
     IN Inferred(u.ctx, sub, Apply(alpha, sub), <<r.e>>)))

(* `{ l1: e1, ..., ln: en }`: the row grows at the front.                  *)
Fields(ctx, sub, row, labels, es, done) ==
  IF es = <<>> THEN Inferred(ctx, sub, Rec(row), done)
  ELSE Then(AlgoW(ctx, Head(es)), LAMBDA r :
         Fields(ApplyCtx(r.ctx, r.sub), Combine(sub, r.sub),
                RowExt(Head(labels), Apply(r.typ, r.sub), Apply(row, r.sub)),
                Tail(labels), Tail(es), Append(done, r.e)))

(* The fields of a closed row, in order.                                   *)
RECURSIVE RowFields(_)
RowFields(row) == IF row = EmptyRow THEN <<>> ELSE <<[l |-> row.n, t |-> row.a[1]]>> \o RowFields(row.a[2])

(* `Name { ... }`: the values in the order of the declaration.             *)
NamedFields(ctx, sub, declared, e, done) ==
  IF declared = <<>> THEN Inferred(ctx, sub, TUnit, done)
  ELSE LET d  == Head(declared)
           at == {i \in DOMAIN e.c : e.n[i + 1] = d.l}
           i  == CHOOSE j \in at : \A k \in at : j <= k
       IN IF at = {} THEN Error
          ELSE Then(AlgoW(ctx, e.c[i]), LAMBDA r :
               LET sub2 == Combine(sub, r.sub)
               IN Then(Unify(ApplyCtx(r.ctx, r.sub), Apply(d.t, sub2), r.typ), LAMBDA u :
                    NamedFields(ApplyCtx(u.ctx, u.sub), Combine(sub2, u.sub), Tail(declared), e,
                                [done EXCEPT ![i] = r.e])))

InferNamedRecord(ctx, e) ==
  LET name     == e.n[1]
      alias    == ctx.aliases[name]
      n        == Len(alias.params)
      fresh    == Fresh(ctx, n)
      map      == [x \in ToSet(alias.params) |-> fresh[CHOOSE i \in 1..n : alias.params[i] = x]]
      rec      == ApplyOnce(alias.rhs, map)
      declared == RowFields(rec.a[1])
  IN IF name \notin DOMAIN ctx.aliases THEN Error
     ELSE IF IsVar(rec) \/ rec.f # "Rec" THEN Error
     ELSE IF ~(ToSet(Tail(e.n)) \subseteq {declared[i].l : i \in DOMAIN declared}) THEN Error
     ELSE Then(NamedFields(Bump(ctx, n), NoSub, declared, e, e.c), LAMBDA r :
            Inferred(r.ctx, r.sub, Apply(rec, r.sub), r.c))

InferRecord(ctx, e) ==
  IF e.n[1] # "" THEN InferNamedRecord(ctx, e)
  ELSE Fields(ctx, NoSub, EmptyRow, Tail(e.n), e.c, <<>>)

(* `r with { l1: e1, ... }`: every field has the type the record has it at *)
Updates(ctx, sub, typ, labels, es, done) ==
  IF es = <<>> THEN Inferred(ctx, sub, Apply(typ, sub), done)
  ELSE LET tau == Fresh(ctx, 2)[1]
           rho == Fresh(ctx, 2)[2]
       IN Then(Unify(Bump(ctx, 2), Apply(typ, sub), Rec(RowExt(Head(labels), tau, rho))), LAMBDA u1 :
          LET sub1 == Combine(sub, u1.sub)
          IN Then(AlgoW(ApplyCtx(u1.ctx, u1.sub), Head(es)), LAMBDA r :
             LET sub2 == Combine(sub1, r.sub)
             IN Then(Unify(ApplyCtx(r.ctx, r.sub), Apply(tau, sub2), r.typ), LAMBDA u2 :
                  Updates(ApplyCtx(u2.ctx, u2.sub), Combine(sub2, u2.sub), typ,
                          Tail(labels), Tail(es), Append(done, r.e)))))

InferWith(ctx, e) ==
  Then(AlgoW(ctx, e.c[1]), LAMBDA r :
    Updates(ApplyCtx(r.ctx, r.sub), r.sub, r.typ, e.n, Tail(e.c), <<r.e>>))

Items(ctx, sub, ts, es, done) ==
  IF es = <<>> THEN Inferred(ctx, sub, Tuple(ts), done)
  ELSE Then(AlgoW(ctx, Head(es)), LAMBDA r :
       LET sub2 == Combine(sub, r.sub)
       IN Items(ApplyCtx(r.ctx, r.sub), sub2, Append(ts, Apply(r.typ, sub2)), Tail(es), Append(done, r.e)))

AlgoW(ctx, e) ==
  LET r == CASE e.k = "var"    -> InferVariable(ctx, e)
             [] e.k = "abs"    -> InferAbstraction(ctx, e)
             [] e.k = "app"    -> InferApplication(ctx, e)
             [] e.k = "let"    -> InferLet(ctx, e)
             [] e.k = "if"     -> InferIfElse(ctx, e)
             [] e.k = "block"  -> Stmts(ctx, NoSub, e.c, <<>>)
             [] e.k = "list"   -> InferList(ctx, e)
             [] e.k = "cons"   -> InferCons(ctx, e)
             [] e.k = "match"  -> InferMatch(ctx, e)
             [] e.k = "arith"  -> InferArithmetic(ctx, e)
             [] e.k = "comp"   -> InferComparison(ctx, e)
             [] e.k = "logic"  -> InferLogical(ctx, e)
             [] e.k = "neg"    -> InferNegate(ctx, e)
             [] e.k = "not"    -> InferNot(ctx, e)
             [] e.k = "lit"    -> Inferred(ctx, NoSub, e.t, <<>>)
             [] e.k = "field"  -> InferFieldAccess(ctx, e)
             [] e.k = "record" -> InferRecord(ctx, e)
             [] e.k = "with"   -> InferWith(ctx, e)
             [] e.k = "tuple"  -> Items(ctx, NoSub, <<>>, e.c, <<>>)
  IN Then(r, LAMBDA x :
       [is |-> "ok", ctx |-> x.ctx, sub |-> x.sub, typ |-> x.typ,
        e |-> [e EXCEPT !.typ = x.typ, !.c = x.c]])

(* The statement's substitution on every type recorded in it.              *)
RECURSIVE Resolve(_, _)
Resolve(e, sub) ==
  [e EXCEPT !.typ = Apply(@, sub), !.c = [i \in DOMAIN @ |-> Resolve(@[i], sub)]]
=============================================================================
