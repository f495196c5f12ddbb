---------------------------- MODULE Typechecking ----------------------------
(***************************************************************************)
(* Program::typecheck: the statements of a program one after the other,    *)
(* each in the context the one before it left (types.rs).  A statement     *)
(* works on a copy of the context, which is dropped when it fails, and the *)
(* program is rejected at the first one that fails.                        *)
(***************************************************************************)
EXTENDS TypingRules, Statements

CONSTANT Programs  \* the programs considered: sequences of statements

VARIABLES
  prog,     \* prog.stmts as it was parsed
  checked,  \* the statements checked so far, with the types recorded
  ctx,      \* prog.ctx
  subst,    \* the substitution of the last statement checked
  verdict   \* what typecheck returns; "endless" when it does not

vars == <<prog, checked, ctx, subst, verdict>>

-----------------------------------------------------------------------------
(* The program *)

Statement == prog[Len(checked) + 1]

Init ==
  /\ prog \in Programs
  /\ checked = <<>>
  /\ ctx = EmptyCtx
  /\ subst = NoSub
  /\ verdict = "checking"

Accept(r) ==
  /\ Returns(r)
  /\ checked' = Append(checked, r.s)
  /\ ctx' = r.ctx
  /\ subst' = r.sub
  /\ verdict' = IF Len(checked') = Len(prog) THEN "ok" ELSE "checking"

CheckDecl ==
  /\ verdict = "checking"
  /\ Statement.k = "decl"
  /\ Accept(TypecheckDecl(ctx, Statement))
  /\ UNCHANGED prog

CheckExpr ==
  /\ verdict = "checking"
  /\ Statement.k = "expr"
  /\ Accept(TypecheckExpr(ctx, Statement))
  /\ UNCHANGED prog

CheckTypeDecl ==
  /\ verdict = "checking"
  /\ Statement.k \in TypeDecls
  /\ Accept(TypecheckTypeDecl(ctx, Statement))
  /\ UNCHANGED prog

Reject ==
  /\ verdict = "checking"
  /\ LET r == Typecheck(ctx, Statement)
     IN /\ ~Returns(r)
        /\ verdict' = IF r.is = "error" THEN "error" ELSE "endless"
  /\ UNCHANGED <<prog, checked, ctx, subst>>

Next == CheckDecl \/ CheckExpr \/ CheckTypeDecl \/ Reject

Spec == Init /\ [][Next]_vars

-----------------------------------------------------------------------------
(* Properties *)

(* The polytype of a constructor, from its declaration s.                  *)
CtorPoly(s, v) ==
  LET tvars == Tail(s.n)
      enum  == Enum(s.n[1], [i \in DOMAIN tvars |-> Var(tvars[i])])
      Field(t) == Expand(ctx, t, {}).typ
  IN [q |-> tvars, m |-> FoldRight(LAMBDA t, rest : Fn(Field(t), rest), v.a, enum)]

(* The names in scope after the first n statements.                        *)
RECURSIVE EnvAfter(_), TypesAfter(_)
EnvAfter(n) ==
  IF n = 0 THEN Builtins
  ELSE LET s   == checked[n]
           env == EnvAfter(n - 1)
       IN CASE s.k = "decl" -> Bound(env, s.n[1], Closure(env, s.c[1].typ))
            [] s.k = "enum" -> AllBound(env, [C \in {s.d[i].n : i \in DOMAIN s.d} |->
                                 CtorPoly(s, s.d[CHOOSE i \in DOMAIN s.d : s.d[i].n = C])])
            [] OTHER -> env

(* The types in the Universe of each of these names.                       *)
Grounds(p) == {t \in Universe : InstanceOf(p, t)}
TypesAfter(n) ==
  IF n = 0 THEN [x \in DOMAIN Builtins |-> {Builtins[x].m}]
  ELSE LET s   == checked[n]
           env == TypesAfter(n - 1)
       IN CASE s.k = "decl" -> Bound(env, s.n[1], DeclTypings(ctx, env, s.n[1], s.t, s.c[1]))
            [] s.k = "enum" -> AllBound(env, [C \in {s.d[i].n : i \in DOMAIN s.d} |->
                                 Grounds(CtorPoly(s, s.d[CHOOSE i \in DOMAIN s.d : s.d[i].n = C]))])
            [] OTHER -> env

Latest == checked[Len(checked)]

DeclaredNames(n) == {checked[i].n[1] : i \in {j \in 1..n : checked[j].k = "decl"}}

(* The context is one the checker builds: its polytypes bind names the     *)
(* counter of new_typevar (types.rs:380) has passed, so that no variable   *)
(* allocated later has the name of a bound one.                            *)
TypeOK ==
  /\ prog \in Programs
  /\ Len(checked) <= Len(prog)
  /\ verdict \in {"checking", "ok", "error", "endless"}
  /\ \A x \in DOMAIN ctx.vars : ToSet(ctx.vars[x].q) \subseteq {NameOf(i) : i \in 0..(ctx.ctr - 1)}

(* A statement that Stmt::typecheck (types.rs:1281) accepts is well typed: *)
(* the types it leaves on the expressions, after resolve_stmt_types, are   *)
(* a derivation by the typing rules, with each name in its scope.          *)
SoundInference ==
  checked # <<>> =>
    CASE Latest.k = "decl" -> DeclDerivation(ctx, EnvAfter(Len(checked) - 1), Latest)
      [] Latest.k = "expr" -> Derivation(ctx, EnvAfter(Len(checked) - 1), Latest.c[1])
      [] OTHER -> TRUE

(* Stmt::typecheck (types.rs:1281) rejects no statement that has a type by *)
(* the rules, and every type that one has is an instance of the polytype   *)
(* generalise (types.rs:399) gives it: inference is complete, and what it  *)
(* finds is principal, for the types in the Universe.                      *)
PrincipalTypes ==
  LET n     == Len(checked)
      env   == TypesAfter(IF verdict = "error" THEN n ELSE n - 1)
      Of(s) == IF s.k = "decl" THEN DeclTypings(ctx, env, s.n[1], s.t, s.c[1]) ELSE Typings(ctx, env, s.c[1])
  IN IF verdict = "error"
     THEN \/ Statement.k \in TypeDecls
          \/ Statement.k = "decl" /\ IsBuiltin(Statement.n[1])
          \/ Of(Statement) = {}
     ELSE (checked # <<>> /\ Latest.k \notin TypeDecls) =>
       \A t \in Of(Latest) :
         InstanceOf(IF Latest.k = "decl" THEN ctx.vars[Latest.n[1]] ELSE Closure(<<>>, Latest.c[1].typ), t)

(* Every value of the type a match is on is matched by one of its cases:   *)
(* check_exhaustive (types.rs:655) accepts no other, as the lowering of    *)
(* the last case relies on (codegen/expr.rs:626).                          *)
MatchesCover ==
  (checked # <<>> /\ Latest.k \notin TypeDecls) => CoversIn(ctx, Latest.c[1])

(* Type checking a statement comes to an end: no cycle gets into the       *)
(* substitutions that Monotype::apply (types.rs:98) follows.               *)
Terminates == verdict # "endless"

(* A statement changes the polytype of no name but the one it declares:    *)
(* not by the names it binds inside (types.rs:781, 803, 850), nor by the   *)
(* substitutions it applies to the context (types.rs:371).                 *)
SchemesStable ==
  [][\A x \in DeclaredNames(Len(checked)) \cup DOMAIN Builtins :
       \/ \E i \in (Len(checked) + 1)..Len(checked') : checked'[i].n = <<x>>
       \/ Knows(ctx', x) /\ ctx'.vars[x] = ctx.vars[x]]_<<checked, ctx>>
=============================================================================
