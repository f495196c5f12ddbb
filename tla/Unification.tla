---------------------------- MODULE Unification ----------------------------
(***************************************************************************)
(* Types, substitutions and unification (src/src/types.rs).                *)
(*                                                                         *)
(* A type is a variable or a constructor applied to types.  A record type  *)
(* is Rec of a row, and a row is RowExt(label) of a field type and the     *)
(* rest, ending in EmptyRow or in a variable.  A substitution is a         *)
(* function from the names of variables to types; it is applied again to   *)
(* what it gives (Monotype::apply recurses), so a cycle in it makes the    *)
(* code recurse for ever: Endless stands for the type that is never        *)
(* returned.                                                               *)
(*                                                                         *)
(* The context is threaded through every operator, as `&mut TypeContext`   *)
(* is through every function: a result has the context it leaves behind.   *)
(***************************************************************************)
EXTENDS Naturals, Sequences, FiniteSets, SequencesExt

-----------------------------------------------------------------------------
(* Types *)

Var(name)      == [v |-> name]
App(f, n, ts)  == [f |-> f, n |-> n, a |-> ts]
Con(f)         == App(f, "", <<>>)
IsVar(t)       == "v" \in DOMAIN t

TInt            == Con("Int")
TFloat          == Con("Float")
TBool           == Con("Bool")
TStr            == Con("Str")
TChar           == Con("Char")
TUnit           == Con("Unit")
TInfer          == Con("Infer")
Fn(t1, t2)     == App("Fn", "", <<t1, t2>>)
List(t)        == App("List", "", <<t>>)
Enum(n, ts)    == App("Enum", n, ts)
Tuple(ts)      == App("Tuple", "", ts)
Rec(row)       == App("Rec", "", <<row>>)
EmptyRow       == Con("EmptyRow")
RowExt(l, t, rest) == App("RowExt", l, <<t, rest>>)
Endless        == Con("Endless")

RECURSIVE FreeVars(_), Occurs(_, _), ApplyOnce(_, _), ApplyFrom(_, _, _)

FreeVars(t) ==
  IF IsVar(t) THEN {t.v} ELSE UNION {FreeVars(t.a[i]) : i \in DOMAIN t.a}

(* The occurs check.                                                       *)
Occurs(t, x) ==
  IF IsVar(t) THEN t = x ELSE \E i \in DOMAIN t.a : Occurs(t.a[i], x)

(* Monotype::instantiate: the mapping is applied once.                     *)
ApplyOnce(t, map) ==
  IF IsVar(t)
  THEN IF t.v \in DOMAIN map THEN map[t.v] ELSE t
  ELSE App(t.f, t.n, [i \in DOMAIN t.a |-> ApplyOnce(t.a[i], map)])

(* Monotype::apply: to the variables it gives too, until none is mapped.   *)
(* `seen` is the variables being replaced on the way here.                 *)
ApplyFrom(t, sub, seen) ==
  IF ~IsVar(t)
  THEN App(t.f, t.n, [i \in DOMAIN t.a |-> ApplyFrom(t.a[i], sub, seen)])
  ELSE IF t.v \notin DOMAIN sub THEN t
  ELSE IF t.v \in seen THEN Endless
  ELSE ApplyFrom(sub[t.v], sub, seen \cup {t.v})

Apply(t, sub) == ApplyFrom(t, sub, {})

(* What codegen makes of a type that is still variable: an int.            *)
RECURSIVE DefaultFreeVars(_)
DefaultFreeVars(t) ==
  IF IsVar(t) THEN TInt ELSE App(t.f, t.n, [i \in DOMAIN t.a |-> DefaultFreeVars(t.a[i])])

NoSub     == [x \in {} |-> TUnit]
Bind(x, t) == [y \in {x} |-> t]

(* s1.combine(s2): where both bind a variable, s2's type is kept.          *)
Combine(s1, s2) ==
  [x \in DOMAIN s1 \cup DOMAIN s2 |->
     IF x \in DOMAIN s2 THEN Apply(s2[x], s1) ELSE s1[x]]

-----------------------------------------------------------------------------
(* Contexts: the counter of type variables, the polytypes of the names     *)
(* (bound variables q, body m), the type aliases and the enums' variants.  *)

Mono(t)       == [q |-> <<>>, m |-> t]
NameOf(ctr)   == "t" \o ToString(ctr)
Bump(ctx, n)  == [ctx EXCEPT !.ctr = @ + n]
NewVar(ctx)   == Var(NameOf(ctx.ctr))
Fresh(ctx, n) == [i \in 1..n |-> Var(NameOf(ctx.ctr + i - 1))]

Knows(ctx, x)   == x \in DOMAIN ctx.vars
Add(ctx, x, p)  == [ctx EXCEPT !.vars = [y \in DOMAIN @ \cup {x} |-> IF y = x THEN p ELSE @[y]]]
Forget(ctx, x)  == [ctx EXCEPT !.vars = [y \in DOMAIN @ \ {x} |-> @[y]]]

(* Mutant: what x was bound to before is lost.                             *)
RestoreVar_Forgotten(ctx, old, x) == Forget(ctx, x)

(* The binding of x in ctx is put back to what it was in old.              *)
RestoreVar(ctx, old, x) ==
  IF Knows(old, x) THEN Add(ctx, x, old.vars[x]) ELSE Forget(ctx, x)

(* A polytype's bound variables are not protected from the substitution.   *)
ApplyPoly(p, sub) == [p EXCEPT !.m = Apply(@, sub)]
ApplyCtx(ctx, sub) ==
  [ctx EXCEPT !.vars = [x \in DOMAIN @ |-> ApplyPoly(@[x], sub)]]

PolyFree(p)   == FreeVars(p.m) \ ToSet(p.q)
CtxFree(ctx)  == UNION {PolyFree(ctx.vars[x]) : x \in DOMAIN ctx.vars}

-----------------------------------------------------------------------------
(* Results.  A function that fails returns no context: its caller drops    *)
(* the one it was working on.                                              *)

Error     == [is |-> "error"]
Never     == [is |-> "endless"]
Solved(ctx, sub) == [is |-> "ok", ctx |-> ctx, sub |-> sub]
Typed(ctx, typ)  == [is |-> "ok", ctx |-> ctx, typ |-> typ]

(* The `?` operator.                                                       *)
Then(r, Rest(_)) == IF r.is = "ok" THEN Rest(r) ELSE r

(* Polytype::instantiate: every bound variable becomes a fresh one.        *)
Instantiate(ctx, p) ==
  LET n     == Len(p.q)
      fresh == Fresh(ctx, n)
      map   == [x \in ToSet(p.q) |-> fresh[CHOOSE i \in 1..n : p.q[i] = x]]
  IN Typed(Bump(ctx, n), ApplyOnce(p.m, map))

(* Mutants: the first fresh name is skipped, and not counted; the          *)
(* variables bound are those of the context.                               *)
Generalise_OffByOne(ctx, typ) ==
  LET quants == SetToSeq(FreeVars(typ) \ CtxFree(ctx))
      n      == Len(quants)
      fresh  == Fresh(Bump(ctx, 1), n)
      sub    == [x \in ToSet(quants) |-> fresh[CHOOSE i \in 1..n : quants[i] = x]]
  IN [ctx |-> Bump(ctx, n), poly |-> [q |-> [i \in 1..n |-> fresh[i].v], m |-> Apply(typ, sub)]]

Generalise_Swapped(ctx, typ) ==
  [ctx |-> ctx, poly |-> [q |-> SetToSeq(CtxFree(ctx) \ FreeVars(typ)), m |-> typ]]

(* TypeContext::generalise: the variables of typ that are not free in the  *)
(* context are renamed apart and bound.                                    *)
Generalise(ctx, typ) ==
  LET quants == SetToSeq(FreeVars(typ) \ CtxFree(ctx))
      n      == Len(quants)
      fresh  == Fresh(ctx, n)
      sub    == [x \in ToSet(quants) |-> fresh[CHOOSE i \in 1..n : quants[i] = x]]
  IN [ctx |-> Bump(ctx, n), poly |-> [q |-> [i \in 1..n |-> fresh[i].v], m |-> Apply(typ, sub)]]

-----------------------------------------------------------------------------
(* Unification *)

RowCons == {"Rec", "RowExt", "EmptyRow"}
Peel(t) == IF ~IsVar(t) /\ t.f = "Rec" THEN t.a[1] ELSE t

(* Mutant: no occurs check.                                                *)
BindVar_Unchecked(ctx, x, t) == Solved(ctx, Bind(x.v, t))

BindVar(ctx, x, t) ==
  IF Occurs(t, x) THEN Error ELSE Solved(ctx, Bind(x.v, t))

RECURSIVE Unify(_, _, _), UnifyAll(_, _, _, _), UnifyRow(_, _, _)

Unify(ctx, t1, t2) ==
  IF Endless \in {t1, t2} THEN Never
  ELSE IF IsVar(t1) /\ t1 = t2 THEN Solved(ctx, NoSub)
  ELSE IF IsVar(t1) THEN BindVar(ctx, t1, t2)
  ELSE IF IsVar(t2) THEN Unify(ctx, t2, t1)
  ELSE IF {t1.f, t2.f} \cap RowCons # {} THEN UnifyRow(ctx, t1, t2)
  ELSE IF <<t1.f, t1.n, Len(t1.a)>> # <<t2.f, t2.n, Len(t2.a)>> THEN Error
  ELSE UnifyAll(ctx, NoSub, t1.a, t2.a)

(* Pointwise, each argument under the substitution of those before it.     *)
UnifyAll(ctx, sub, ts1, ts2) ==
  IF ts1 = <<>> THEN Solved(ctx, sub)
  ELSE Then(Unify(ctx, Apply(Head(ts1), sub), Apply(Head(ts2), sub)), LAMBDA u :
         UnifyAll(u.ctx, Combine(sub, u.sub), Tail(ts1), Tail(ts2)))

(* Two rows with different first labels: each is looked for in the rest of *)
(* the other, over a fresh tail they share.                                *)
Commute(ctx, row1, row2) ==
  LET rest == NewVar(ctx)
  IN Then(UnifyRow(Bump(ctx, 1), row1.a[2], RowExt(row2.n, row2.a[1], rest)), LAMBDA u1 :
     Then(UnifyRow(u1.ctx, Apply(row2.a[2], u1.sub),
                   RowExt(row1.n, Apply(row1.a[1], u1.sub), Apply(rest, u1.sub))), LAMBDA u2 :
       Solved(u2.ctx, Combine(u1.sub, u2.sub))))

SameLabel(ctx, row1, row2) ==
  Then(Unify(ctx, row1.a[1], row2.a[1]), LAMBDA u1 :
  Then(UnifyRow(u1.ctx, Apply(row1.a[2], u1.sub), Apply(row2.a[2], u1.sub)), LAMBDA u2 :
    Solved(u2.ctx, Combine(u1.sub, u2.sub))))

UnifyRow(ctx, t1, t2) ==
  LET row1 == Peel(t1)
      row2 == Peel(t2)
  IN IF Endless \in {row1, row2} THEN Never
     ELSE IF IsVar(row1) THEN BindVar(ctx, row1, row2)
     ELSE IF IsVar(row2) THEN BindVar(ctx, row2, row1)
     ELSE IF row1.f = "EmptyRow" /\ row2.f = "EmptyRow" THEN Solved(ctx, NoSub)
     ELSE IF row1.f # "RowExt" \/ row2.f # "RowExt" THEN Error
     ELSE IF row1.n = row2.n THEN SameLabel(ctx, row1, row2)
     ELSE Commute(ctx, row1, row2)

-----------------------------------------------------------------------------
(* Aliases *)

RECURSIVE Expand(_, _, _), ExpandAll(_, _, _)

(* The arguments first, then the type itself: a fresh variable for an      *)
(* annotation left out, the right-hand side for an alias.                  *)
Expand(ctx, t, visited) ==
  IF IsVar(t) THEN Typed(ctx, t)
  ELSE Then(ExpandAll(ctx, t.a, visited), LAMBDA r :
    IF t.f = "Infer" THEN Typed(Bump(r.ctx, 1), NewVar(r.ctx))
    ELSE IF t.f # "Enum" \/ t.n \notin DOMAIN ctx.aliases THEN Typed(r.ctx, App(t.f, t.n, r.typ))
    ELSE LET alias == ctx.aliases[t.n]
             map   == [x \in ToSet(alias.params) |->
                         r.typ[CHOOSE i \in DOMAIN alias.params : alias.params[i] = x]]
         IN IF t.n \in visited \/ Len(r.typ) # Len(alias.params) THEN Error
            ELSE Expand(r.ctx, ApplyOnce(alias.rhs, map), visited \cup {t.n}))

ExpandAll(ctx, ts, visited) ==
  IF ts = <<>> THEN Typed(ctx, <<>>)
  ELSE Then(Expand(ctx, Head(ts), visited), LAMBDA r1 :
       Then(ExpandAll(r1.ctx, Tail(ts), visited), LAMBDA r2 :
         Typed(r2.ctx, <<r1.typ>> \o r2.typ)))
=============================================================================
