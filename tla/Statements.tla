----------------------------- MODULE Statements -----------------------------
(***************************************************************************)
(* Stmt::typecheck: what checking one statement in a context returns.      *)
(***************************************************************************)
EXTENDS Inference

-----------------------------------------------------------------------------
(* Declarations of types *)

(* `type`, `enum` and `record` declarations hold the name and the type     *)
(* parameters n, and the variants, fields or right-hand side d, each a     *)
(* name n and its types a.                                                 *)
TypeDecls == {"enum", "rectype", "alias"}

Undeclared(t, params) == ~(FreeVars(t) \subseteq {params[i].v : i \in DOMAIN params})

(* The type of a constructor: a function from its fields, elaborated from  *)
(* the last to the first, to the enum.                                     *)
RECURSIVE CtorType(_, _, _, _), AddVariants(_, _, _, _, _), RowType(_, _, _, _)
CtorType(c, ts, map, typ) ==
  IF ts = <<>> THEN Typed(c, typ)
  ELSE Then(Expand(c, ApplyOnce(Last(ts), map), {}), LAMBDA r :
         CtorType(r.ctx, Front(ts), map, Fn(r.typ, typ)))

AddVariants(c, vs, map, params, enum) ==
  IF vs = <<>> THEN Typed(c, enum)
  ELSE Then(CtorType(c, Head(vs).a, map, enum), LAMBDA r :
         IF Undeclared(r.typ, params) THEN Error
         ELSE LET g == Generalise(r.ctx, r.typ)
              IN AddVariants(Add(g.ctx, Head(vs).n, g.poly), Tail(vs), map, params, enum))

RowType(c, fs, map, row) ==
  IF fs = <<>> THEN Typed(c, row)
  ELSE Then(Expand(c, ApplyOnce(Last(fs).a[1], map), {}), LAMBDA r :
         IF Undeclared(r.typ, map) THEN Error
         ELSE RowType(r.ctx, Front(fs), map, RowExt(Last(fs).n, r.typ, row)))

AddAlias(c, name, params, rhs) ==
  [c EXCEPT !.aliases = [x \in DOMAIN @ \cup {name} |->
     IF x = name THEN [params |-> [i \in DOMAIN params |-> params[i].v], rhs |-> rhs] ELSE @[x]]]

AddEnum(c, name, variants) ==
  [c EXCEPT !.enums = [x \in DOMAIN @ \cup {name} |-> IF x = name THEN variants ELSE @[x]]]

HandleTypeDecl(before, s) ==
  LET name   == s.n[1]
      tvars  == Tail(s.n)
      params == Fresh(before, Len(tvars))
      map    == [x \in ToSet(tvars) |-> params[CHOOSE i \in DOMAIN tvars : tvars[i] = x]]
      c      == Bump(before, Len(tvars))
      rhs    == ApplyOnce(s.d[1].a[1], map)
  IN IF name \in DOMAIN c.aliases \cup DOMAIN c.enums THEN Error
     ELSE CASE s.k = "enum" ->
                 AddVariants(AddEnum(c, name, {s.d[i].n : i \in DOMAIN s.d}), s.d, map, params, Enum(name, params))
            [] s.k = "rectype" ->
                 Then(RowType(c, s.d, map, EmptyRow), LAMBDA r :
                   Typed(AddAlias(r.ctx, name, params, Rec(r.typ)), TUnit))
            [] s.k = "alias" ->
                 IF Undeclared(rhs, params) THEN Error ELSE Typed(AddAlias(c, name, params, rhs), TUnit)

(* Stmt::typecheck, for each kind of statement: the context it leaves, its *)
(* substitution and the annotated statement.                               *)
Checked(c, sub, s) == [is |-> "ok", ctx |-> c, sub |-> sub, s |-> s]

TypecheckDecl(c, s) ==
  LET x == s.n[1]
  IN IF IsBuiltin(x) THEN Error
     ELSE Then(Expand(c, s.t, {}), LAMBDA b :
          Then(AlgoW(Add(b.ctx, x, Mono(b.typ)), s.c[1]), LAMBDA r :
          Then(Unify(r.ctx, Apply(b.typ, r.sub), r.typ), LAMBDA u :
          LET sub == Combine(r.sub, u.sub)
              g   == Generalise(RestoreVar(ApplyCtx(u.ctx, sub), b.ctx, x), Apply(b.typ, sub))
          IN Checked(Add(g.ctx, x, g.poly), sub, [s EXCEPT !.c = <<Resolve(r.e, sub)>>]))))

TypecheckExpr(c, s) ==
  Then(AlgoW(c, s.c[1]), LAMBDA r :
    Checked(ApplyCtx(r.ctx, r.sub), r.sub, [s EXCEPT !.c = <<Resolve(r.e, r.sub)>>]))

TypecheckTypeDecl(c, s) ==
  Then(HandleTypeDecl(c, s), LAMBDA r : Checked(r.ctx, NoSub, s))

Typecheck(c, s) ==
  CASE s.k = "decl" -> TypecheckDecl(c, s)
    [] s.k = "expr" -> TypecheckExpr(c, s)
    [] s.k \in TypeDecls -> TypecheckTypeDecl(c, s)

(* A result that has an endless type in it never came back.                *)
RECURSIVE HasEndless(_), Records(_)
HasEndless(t) == ~IsVar(t) /\ (t = Endless \/ \E i \in DOMAIN t.a : HasEndless(t.a[i]))
Records(e) == {e.typ} \cup UNION {Records(e.c[i]) : i \in DOMAIN e.c}
Recorded(s) == IF s.k \in TypeDecls THEN {} ELSE Records(s.c[1])

Returns(r) ==
  /\ r.is = "ok"
  /\ \A x \in DOMAIN r.ctx.vars : ~HasEndless(r.ctx.vars[x].m)
  /\ \A x \in DOMAIN r.sub : ~HasEndless(r.sub[x])
  /\ \A t \in Recorded(r.s) : ~HasEndless(t)
=============================================================================
