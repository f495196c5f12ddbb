------------------------------ MODULE Lowering ------------------------------
(***************************************************************************)
(* Name resolution and on-demand specialization in the code generator      *)
(* (src/src/codegen): how `lower` walks the top-level statements, how a    *)
(* name is looked up in the local environment and in the module's          *)
(* registries, and how a lambda is compiled once per concrete type the     *)
(* first time it is used at it.                                            *)
(*                                                                         *)
(* A program is written over BINDERS: every occurrence of a variable names *)
(* the binder it is lexically bound to.  The code generator never sees     *)
(* them: it sees prog.name[b], the identifier in the source, and           *)
(* everything it looks up is looked up by name.  Each entry it stores      *)
(* carries the binder it was stored for, so "the look-up found the right   *)
(* thing" is a statement about binders.                                    *)
(*                                                                         *)
(* The recursion of lower_expr is the stack of frames: a frame is the body *)
(* of one function being built, or of one scope within it, with the items  *)
(* of it still to be lowered.  Operators, literals, lists and records do   *)
(* not look names up and are left out: an expression is the sequence of    *)
(* the uses, bindings, lambdas and scopes met while lowering it, in the    *)
(* order they are lowered.                                                 *)
(***************************************************************************)
EXTENDS Integers, Sequences, FiniteSets

CONSTANTS
  Binder,       \* binding occurrences: declarations, parameters, let names
  Name,         \* identifiers
  NameOrder,    \* the place of each identifier in `caps.sort_by`'s order
  Builtin,      \* the binders of the runtime builtins (print, itostr, ...)
  Types,        \* concrete types
  DefaultType,  \* what default_free_vars puts for a free type variable
  MLIRType,     \* for each type, one of those lowered to the same MLIR type
  Programs,     \* the programs considered
  LetName,      \* LetName[n + 1] is the identifier format!("let_{n}"): its
                \* length bounds the local lambdas registered
  MaxFuncs,     \* bound on the functions begun
  MaxArgs       \* bound on the arguments inlining collects

Same == "same"  \* the type at which the enclosing function is instantiated

Kinds == {"fn", "app", "val", "expr"}
Ops   == {"use", "let", "letfn", "closure", "scope", "bind", "wrap"}

(* One step of an expression: use f applied to args at type ty (a variable *)
(* when args is empty; an argument is a variable with its own type),       *)
(* `let b = f args`, a local lambda b, a bare lambda b, a scope (an inner  *)
(* let, a block, a branch or a match case) whose items are the body of b,  *)
(* a variable b of the case's pattern ("bind": also what is left of a let  *)
(* when its initializer has been lowered).  "wrap" is what is left of a    *)
(* partial application when its callee has been specialized, to `to`.      *)
Arg == [b : Binder, ty : Types \cup {Same}]

Item == [op : Ops, b : Binder, f : Binder, args : Seq(Arg),
         ty : Types \cup {Same}, to : Nat]

SourceItem == {it \in Item : it.op # "wrap"}

(* The binders of a program: the identifier of each, the parameters of a   *)
(* lambda, the body of a lambda, scope, initializer or top-level           *)
(* expression.                                                             *)
Program ==
  [name   : [Binder -> Name],
   params : [Binder -> Seq(Binder)],
   body   : [Binder -> Seq(SourceItem)],
   top    : Seq([kind : Kinds, b : Binder])]

(* `let s = f a;` has one application as its body. *)
InlineableIsUse(p) ==
  \A i \in DOMAIN p.top :
    p.top[i].kind = "app" => /\ p.body[p.top[i].b] # <<>>
                             /\ p.body[p.top[i].b][1].op = "use"

ASSUME ConstantAssumption ==
  /\ Builtin \subseteq Binder /\ Binder # {} /\ Name # {} /\ IsFiniteSet(Name)
  /\ DefaultType \in Types
  /\ MLIRType \in [Types -> Types]
  /\ Same \notin Types
  /\ Programs \subseteq Program
  /\ \A p \in Programs : InlineableIsUse(p)
  /\ LetName \in Seq(Name)
  /\ \A i, j \in DOMAIN LetName : LetName[i] = LetName[j] => i = j
  /\ NameOrder \in [Name -> Nat]
  /\ \A m, n \in Name : NameOrder[m] = NameOrder[n] => m = n
  /\ MaxFuncs \in Nat /\ MaxArgs \in Nat

VARIABLES
  prog,          \* the type-checked program being lowered
  pc,            \* index of the next top-level statement
  stack,         \* frames of lower_expr, innermost last
  abstractions,  \* Module::abstractions
  inlineable,    \* Module::inlineable
  symbols,       \* Module::symbols
  specs,         \* Module::specializations
  ctr,           \* Module::spec_counter, let_counter and closures
  funcs,         \* every func.func begun so far, in order
  refs,          \* every reference lowered so far and what it resolved to
  outcome        \* what `lower` has come to

vars == <<prog, pc, stack, abstractions, inlineable, symbols, specs, ctr,
          funcs, refs, outcome>>

registries == <<abstractions, inlineable, symbols>>

-----------------------------------------------------------------------------
(* Helpers *)

Put(f, k, v) == [x \in DOMAIN f \cup {k} |-> IF x = k THEN v ELSE f[x]]

Hide(f, g) == [x \in DOMAIN f \cup DOMAIN g |-> IF x \in DOMAIN g THEN g[x] ELSE f[x]]

NamesOf(p, s) == {p.name[s[i]] : i \in DOMAIN s}

(* free_variables over the items of a body, from item i on: an item adds   *)
(* the names it uses, a binding takes its name away, also from the         *)
(* initializer's names.                                                    *)
FreeFrom(p) ==
  LET free[b \in Binder, i \in Nat] ==
        IF i > Len(p.body[b]) THEN {}
        ELSE LET it     == p.body[b][i]
                 used   == {p.name[it.f]} \cup {p.name[it.args[k].b] : k \in DOMAIN it.args}
                 lambda == free[it.b, 1] \ NamesOf(p, p.params[it.b])
                 rest   == free[b, i + 1]
             IN CASE it.op = "use"     -> used \cup rest
                  [] it.op = "let"     -> (used \cup rest) \ {p.name[it.b]}
                  [] it.op = "letfn"   -> (lambda \cup rest) \ {p.name[it.b]}
                  [] it.op = "closure" -> lambda \cup rest
                  [] it.op = "scope"   -> free[it.b, 1] \cup rest
                  [] it.op = "bind"    -> rest \ {p.name[it.b]}
  IN free

FreeVariables(p, b) == FreeFrom(p)[b, 1] \ NamesOf(p, p.params[b])

(* A name bound in an environment: an SSA value of function fn, or a       *)
(* lambda registered under sym.                                            *)
ValueEntry(b, fn, ty)     == [kind |-> "val", b |-> b, sym |-> prog.name[b],
                              fn |-> fn, ty |-> ty]
LambdaEntry(b, s, fn, ty) == [kind |-> "abs", b |-> b, sym |-> s,
                              fn |-> fn, ty |-> ty]

Entry == [kind : {"val", "abs"}, b : Binder, sym : Name, fn : Nat, ty : Types]

EmptyEnv == <<>>

IsValue(env, n) == n \in DOMAIN env /\ env[n].kind = "val"

IsLambda(env, n) == n \in DOMAIN env /\ env[n].kind = "abs"

(* A function's parameters as the inputs of fn; of two with one name the   *)
(* one inserted last remains.                                              *)
ParamEnv(params, fn, ty) ==
  LET last == {i \in DOMAIN params : \A j \in DOMAIN params :
                 j > i => prog.name[params[j]] # prog.name[params[i]]}
  IN [n \in {prog.name[params[i]] : i \in last} |->
        ValueEntry(params[CHOOSE i \in last : prog.name[params[i]] = n], fn, ty)]

(* lambda_captures: the free names of lambda b that are values in the      *)
(* environment of the place that uses it, with the MLIR types of these.    *)
LambdaCaptures(b, self, env) ==
  [n \in {m \in (FreeVariables(prog, b) \ {self}) \cap DOMAIN env : IsValue(env, m)} |->
     [b |-> env[n].b, ty |-> MLIRType[env[n].ty]]]

NoCaptures == <<>>

(* The types of the captures, in the order of their names: all the cache   *)
(* knows of them.                                                          *)
CaptureTypes(caps) ==
  LET upTo(n) == {m \in DOMAIN caps : NameOrder[m] <= NameOrder[n]}
      nth(k)  == CHOOSE n \in DOMAIN caps : Cardinality(upTo(n)) = k
  IN [k \in 1 .. Cardinality(DOMAIN caps) |-> caps[nth(k)].ty]

Use(b, ty) == [op |-> "use", b |-> b, f |-> b, args |-> <<>>, ty |-> ty, to |-> 0]

Uses(args) == [i \in DOMAIN args |-> Use(args[i].b, args[i].ty)]

(* A func.func: the symbol made of kind, `of` and n, compiled from binder  *)
(* b at type ty with the captures caps threaded in as leading inputs.      *)
Fn(kind, b, of, n, ty, caps) ==
  [kind |-> kind, b |-> b, of |-> of, n |-> n, ty |-> ty, caps |-> caps,
   done |-> FALSE]

Frame(fn, ty, env, todo) == [fn |-> fn, ty |-> ty, env |-> env, todo |-> todo]

MainFn    == 1   \* @__main, the entry function
BuiltinFn == 0   \* stands for the functions of the runtime

(* What one use resolved to: in function `in`, binder `use` resolved to    *)
(* binder `got`, by a reference to function `to` with the captures caps as *)
(* leading operands (to is BuiltinFn for an SSA value).                    *)
Ref(in, use, got, to, caps) ==
  [in |-> in, use |-> use, got |-> got, to |-> to, caps |-> caps]

-----------------------------------------------------------------------------
(* The frame being lowered *)

Top == stack[Len(stack)]

Now == Head(Top.todo)

NowName == prog.name[Now.f]

Instance(ty) == IF ty = Same THEN Top.ty ELSE ty

NowType == Instance(Now.ty)

At(op) == /\ outcome = "running"
          /\ stack # <<>>
          /\ Top.todo # <<>>
          /\ Now.op = op

Replace(items) == [Top EXCEPT !.todo = items \o Tail(Top.todo)]

Resume(frame) == stack' = [stack EXCEPT ![Len(stack)] = frame]

(* Begin function f, whose body is lowered before `cont` goes on. *)
Enter(f, frame, cont) ==
  /\ Len(funcs) < MaxFuncs
  /\ funcs' = Append(funcs, f)
  /\ stack' = Append([stack EXCEPT ![Len(stack)] = cont], frame)

NextFn == Len(funcs) + 1

Fail(how) ==
  /\ outcome' = how
  /\ UNCHANGED <<prog, pc, stack, registries, specs, ctr, funcs, refs>>

(* The registry key an application of n goes to: a lambda of the           *)
(* environment, else the top-level lambda of that name, whatever value n   *)
(* is bound to locally.                                                    *)
CalleeOf(env, n) == IF IsLambda(env, n) THEN env[n].sym ELSE n

(* `n` as a variable: the environment hides the registries. *)
ReferencesLambda(env, n) ==
  \/ IsLambda(env, n)
  \/ n \notin DOMAIN env /\ n \notin DOMAIN inlineable /\ n \in DOMAIN abstractions

-----------------------------------------------------------------------------
(* Specialization.  An operator X_... is X with a mistake made: the        *)
(* properties below tell it from X.                                        *)

Key_WithoutCaptures(sym, ty, caps) == <<sym, ty, <<>>>>

Key(sym, ty, caps) == <<sym, ty, CaptureTypes(caps)>>

TargetOf_CountedTwice(key) == IF key \in DOMAIN specs THEN specs[key] ELSE NextFn + 1

TargetOf(key) == IF key \in DOMAIN specs THEN specs[key] ELSE NextFn

Cached_Never(key) == specs

Cached(key) == Put(specs, key, NextFn)

SpecCounted_Forgotten == ctr

SpecCounted == [ctr EXCEPT !.spec = @ + 1]

(* A specialization's inputs: its captures and its parameters. *)
InputEnv(sym, ty, caps, fn) ==
  Hide([n \in DOMAIN caps |-> ValueEntry(caps[n].b, fn, caps[n].ty)],
       ParamEnv(prog.params[abstractions[sym]], fn, ty))

(* The environment its body is lowered in: the inputs, hidden by the       *)
(* lambda's own local name.                                                *)
SpecEnv_Inherits(sym, self, ty, caps, fn) == Hide(Top.env, InputEnv(sym, ty, caps, fn))

SpecEnv(sym, self, ty, caps, fn) ==
  LET inputs == InputEnv(sym, ty, caps, fn)
  IN IF self # sym
     THEN Put(inputs, self, LambdaEntry(abstractions[sym], sym, fn, ty))
     ELSE inputs

(* specialize_binding: a cached instantiation is reused; a new one is      *)
(* cached before its body is lowered.  The using frame goes on as `cont`   *)
(* when the body is finished.                                              *)
ReuseSpecialization(key, cont) ==
  /\ key \in DOMAIN specs
  /\ Resume(cont)
  /\ UNCHANGED <<specs, funcs, ctr>>

NewSpecialization(key, self, caps, cont) ==
  LET sym == key[1]
      ty  == key[2]
      b   == abstractions[sym]
  IN /\ key \notin DOMAIN specs
     /\ specs' = Cached(key)
     /\ Enter(Fn("spec", b, sym, ctr.spec, ty, caps),
              Frame(NextFn, ty, SpecEnv(sym, self, ty, caps, NextFn), prog.body[b]),
              cont)
     /\ ctr' = SpecCounted

(* The type of a use fits the lambda it reaches wherever that is the one   *)
(* meant; where it is not, unify or concrete_func_parts may refuse it,     *)
(* which is left out: the use is wrong already.                            *)
Specialize(sym, self, ty, caps, cont) ==
  \/ ReuseSpecialization(Key(sym, ty, caps), cont)
  \/ NewSpecialization(Key(sym, ty, caps), self, caps, cont)

(* The binder the referenced function was compiled from. *)
CompiledFrom(sym, key) ==
  IF key \in DOMAIN specs THEN funcs[specs[key]].b ELSE abstractions[sym]

SpecRef(use, sym, key, caps) ==
  Ref(Top.fn, use, CompiledFrom(sym, key), TargetOf(key), caps)

-----------------------------------------------------------------------------
(* Top-level statements *)

AtStmt == /\ outcome = "running"
          /\ stack = <<>>
          /\ pc <= Len(prog.top)

(* `let f = \x => e`: registered, nothing emitted. *)
DeclareLambda ==
  LET b == prog.top[pc].b IN
  /\ AtStmt
  /\ prog.top[pc].kind = "fn"
  /\ abstractions' = Put(abstractions, prog.name[b], b)
  /\ pc' = pc + 1
  /\ UNCHANGED <<prog, stack, inlineable, symbols, specs, ctr, funcs, refs, outcome>>

(* `let s = f a` of a function type: kept as an expression to inline. *)
DeclareInlineable ==
  LET b == prog.top[pc].b IN
  /\ AtStmt
  /\ prog.top[pc].kind = "app"
  /\ inlineable' = Put(inlineable, prog.name[b], b)
  /\ pc' = pc + 1
  /\ UNCHANGED <<prog, stack, abstractions, symbols, specs, ctr, funcs, refs, outcome>>

(* `let x = e`: a nullary function; its symbol is registered when e has    *)
(* been lowered (Finish).                                                  *)
DeclareValue ==
  LET b == prog.top[pc].b IN
  /\ AtStmt
  /\ prog.top[pc].kind = "val"
  /\ Len(funcs) < MaxFuncs
  /\ funcs' = Append(funcs, Fn("val", b, prog.name[b], 0, DefaultType, NoCaptures))
  /\ stack' = <<Frame(NextFn, DefaultType, EmptyEnv, prog.body[b])>>
  /\ pc' = pc + 1
  /\ UNCHANGED <<prog, registries, specs, ctr, refs, outcome>>

(* `e;`: lowered into the entry function's block. *)
LowerExprStmt ==
  /\ AtStmt
  /\ prog.top[pc].kind = "expr"
  /\ stack' = <<Frame(MainFn, DefaultType, EmptyEnv, prog.body[prog.top[pc].b])>>
  /\ pc' = pc + 1
  /\ UNCHANGED <<prog, registries, specs, ctr, funcs, refs, outcome>>

(* All statements lowered: emit @__main. *)
EmitEntry ==
  /\ outcome = "running"
  /\ stack = <<>>
  /\ pc = Len(prog.top) + 1
  /\ funcs' = [funcs EXCEPT ![MainFn].done = TRUE]
  /\ outcome' = "ok"
  /\ UNCHANGED <<prog, pc, stack, registries, specs, ctr, refs>>

Appended_ButClosures == [funcs EXCEPT ![Top.fn].done = @ \/ funcs[Top.fn].kind # "closure"]

Appended == [funcs EXCEPT ![Top.fn].done = TRUE]

(* A frame upon one of the same function is a scope of it. *)
InScope == Len(stack) > 1 /\ stack[Len(stack) - 1].fn = Top.fn

Done == /\ outcome = "running"
        /\ stack # <<>>
        /\ Top.todo = <<>>

(* The body of the innermost function is lowered: append its func.func. *)
Finish ==
  /\ Done
  /\ ~InScope
  /\ stack' = SubSeq(stack, 1, Len(stack) - 1)
  /\ IF Top.fn = MainFn
     THEN UNCHANGED <<funcs, symbols>>
     ELSE /\ funcs' = Appended
          /\ IF funcs[Top.fn].kind = "val"
             THEN symbols' = Put(symbols, funcs[Top.fn].of,
                                 [b |-> funcs[Top.fn].b, fn |-> Top.fn])
             ELSE UNCHANGED symbols
  /\ UNCHANGED <<prog, pc, abstractions, inlineable, specs, ctr, refs, outcome>>

-----------------------------------------------------------------------------
(* Scopes and bindings *)

(* A block, branch or match case is lowered in a clone of the environment; *)
(* lower_let puts back what its name was bound to before.                  *)
EnterScope ==
  /\ At("scope")
  /\ stack' = Append([stack EXCEPT ![Len(stack)] = Replace(<<>>)],
                     Frame(Top.fn, Top.ty, Top.env, prog.body[Now.b]))
  /\ UNCHANGED <<prog, pc, registries, specs, ctr, funcs, refs, outcome>>

LeaveScope ==
  /\ Done
  /\ InScope
  /\ stack' = SubSeq(stack, 1, Len(stack) - 1)
  /\ UNCHANGED <<prog, pc, registries, specs, ctr, funcs, refs, outcome>>

(* bind_in_env of a value: the initializer first, then the name. *)
LetValue ==
  /\ At("let")
  /\ Resume(Replace(<<[Now EXCEPT !.op = "use"], [Now EXCEPT !.op = "bind"]>>))
  /\ UNCHANGED <<prog, pc, registries, specs, ctr, funcs, refs, outcome>>

BindValue ==
  /\ At("bind")
  /\ Resume([Replace(<<>>) EXCEPT
               !.env = Put(@, prog.name[Now.b], ValueEntry(Now.b, Top.fn, NowType))])
  /\ UNCHANGED <<prog, pc, registries, specs, ctr, funcs, refs, outcome>>

LetSymbol_Reused == LetName[1]

LetSymbol == LetName[ctr.let + 1]

(* bind_in_env of a lambda: registered under a generated name. *)
LetLambda ==
  /\ At("letfn")
  /\ ctr.let < Len(LetName)
  /\ abstractions' = Put(abstractions, LetSymbol, Now.b)
  /\ ctr' = [ctr EXCEPT !.let = @ + 1]
  /\ Resume([Replace(<<>>) EXCEPT
               !.env = Put(@, prog.name[Now.b], LambdaEntry(Now.b, LetSymbol, Top.fn, Top.ty))])
  /\ UNCHANGED <<prog, pc, inlineable, symbols, specs, funcs, refs, outcome>>

-----------------------------------------------------------------------------
(* Variables *)

ReadLocal ==
  /\ At("use")
  /\ Now.args = <<>>
  /\ IsValue(Top.env, NowName)
  /\ refs' = refs \cup {Ref(Top.fn, Now.f, Top.env[NowName].b, BuiltinFn, NoCaptures)}
  /\ Resume(Replace(<<>>))
  /\ UNCHANGED <<prog, pc, registries, specs, ctr, funcs, outcome>>

(* A function-valued application kept by DeclareInlineable takes the place *)
(* of its name: always as the root of an application, and as a variable    *)
(* when the environment does not bind the name.  Its types are those of    *)
(* the declaration, their free variables defaulted.                        *)
Declared(x) == IF x.ty = Same THEN [x EXCEPT !.ty = DefaultType] ELSE x

Inline ==
  LET rhs  == Declared(prog.body[inlineable[NowName]][1])
      args == [i \in DOMAIN rhs.args |-> Declared(rhs.args[i])]
  IN /\ At("use")
     /\ NowName \in DOMAIN inlineable
     /\ Len(Now.args) < MaxArgs
     /\ Now.args = <<>> => NowName \notin DOMAIN Top.env
     /\ Resume(Replace(<<[rhs EXCEPT !.args = args \o Now.args]>>))
     /\ UNCHANGED <<prog, pc, registries, specs, ctr, funcs, refs, outcome>>

(* reference_specialization: a lambda as a value cannot have captures. *)
ReferenceLambda ==
  LET sym  == CalleeOf(Top.env, NowName)
      caps == LambdaCaptures(abstractions[sym], NowName, Top.env)
      key  == Key(sym, NowType, NoCaptures)
  IN /\ At("use")
     /\ Now.args = <<>>
     /\ ReferencesLambda(Top.env, NowName)
     /\ IF caps # NoCaptures
        THEN Fail("error")
        ELSE /\ Specialize(sym, NowName, NowType, NoCaptures, Replace(<<>>))
             /\ refs' = refs \cup {SpecRef(Now.f, sym, key, NoCaptures)}
             /\ UNCHANGED <<prog, pc, registries, outcome>>

(* A top-level value or a builtin. *)
ReadSymbol ==
  /\ At("use")
  /\ Now.args = <<>>
  /\ NowName \notin DOMAIN Top.env \cup DOMAIN inlineable \cup DOMAIN abstractions
  /\ IF NowName \in DOMAIN symbols
     THEN /\ refs' = refs \cup {Ref(Top.fn, Now.f, symbols[NowName].b,
                                    symbols[NowName].fn, NoCaptures)}
          /\ Resume(Replace(<<>>))
          /\ UNCHANGED <<prog, pc, registries, specs, ctr, funcs, outcome>>
     ELSE Fail("error")

-----------------------------------------------------------------------------
(* Applications *)

AtKnown ==
  /\ At("use")
  /\ Now.args # <<>>
  /\ NowName \notin DOMAIN inlineable
  /\ CalleeOf(Top.env, NowName) \in DOMAIN abstractions

ArityOf(sym) == Len(prog.params[abstractions[sym]])

(* lower_full_application: the specialization, then the arguments, then a  *)
(* call with the captured values in front.                                 *)
Call ==
  LET sym  == CalleeOf(Top.env, NowName)
      caps == LambdaCaptures(abstractions[sym], NowName, Top.env)
      key  == Key(sym, NowType, caps)
  IN /\ AtKnown
     /\ Len(Now.args) = ArityOf(sym)
     /\ Specialize(sym, NowName, NowType, caps, Replace(Uses(Now.args)))
     /\ refs' = refs \cup {SpecRef(Now.f, sym, key, caps)}
     /\ UNCHANGED <<prog, pc, registries, outcome>>

(* lower_partial_application, up to the specialization it will wrap. *)
PartialApply ==
  LET sym  == CalleeOf(Top.env, NowName)
      caps == LambdaCaptures(abstractions[sym], NowName, Top.env)
      key  == Key(sym, NowType, NoCaptures)
      wrap == [Now EXCEPT !.op = "wrap", !.b = abstractions[sym], !.to = TargetOf(key)]
  IN /\ AtKnown
     /\ Len(Now.args) # ArityOf(sym)
     /\ IF caps # NoCaptures
        THEN Fail("error")
        ELSE /\ Specialize(sym, NowName, NowType, NoCaptures, Replace(<<wrap>>))
             /\ UNCHANGED <<prog, pc, registries, refs, outcome>>

(* lower_partial_application, the wrapper: the parameters left over are    *)
(* its inputs and the only local names the supplied arguments are lowered  *)
(* with.  `params[args.len()..]` panics when there are too many.           *)
Wrap ==
  LET params  == prog.params[Now.b]
      k       == Len(Now.args)
      env     == ParamEnv(SubSeq(params, k + 1, Len(params)), NextFn, NowType)
      wrapped == funcs[Now.to]
  IN /\ At("wrap")
     /\ IF k > Len(params)
        THEN Fail("panic")
        ELSE /\ Enter(Fn("partial", Now.b, wrapped.of, ctr.spec, NowType, NoCaptures),
                      Frame(NextFn, NowType, env, Uses(Now.args)), Replace(<<>>))
             /\ ctr' = SpecCounted
             /\ refs' = refs \cup {Ref(Top.fn, Now.f, wrapped.b, NextFn, NoCaptures),
                                   Ref(NextFn, Now.f, wrapped.b, Now.to, NoCaptures)}
             /\ UNCHANGED <<prog, pc, registries, specs, outcome>>

(* A value applied: the value, then, by its type, all the arguments (a     *)
(* function), the last one (a closure struct), or an error (a function     *)
(* that takes another number of them).                                     *)
ApplyValue ==
  LET value == Use(Now.f, Now.ty)
      args  == Uses(Now.args)
  IN /\ At("use")
     /\ Now.args # <<>>
     /\ NowName \notin DOMAIN inlineable
     /\ CalleeOf(Top.env, NowName) \notin DOMAIN abstractions
     /\ \/ /\ \/ Resume(Replace(<<value>> \o args))
              \/ Resume(Replace(<<value, args[Len(args)]>>))
           /\ UNCHANGED <<prog, pc, registries, specs, ctr, funcs, refs, outcome>>
        \/ Fail("error")

-----------------------------------------------------------------------------
(* Bare lambdas: lower_abstraction *)

ClosureFree == FreeVariables(prog, Now.b) \cap DOMAIN Top.env

(* The local lambdas among the free names not yet turned into values; they *)
(* are taken in HashMap order, that is, in any order.                      *)
ClosureLambdas ==
  {n \in ClosureFree : Top.env[n].kind = "abs" /\ Top.env[n].b \notin
                         {Now.args[i].b : i \in DOMAIN Now.args}}

(* A captured lambda becomes a value: its specialization, without          *)
(* captures, at its own type with the type variables left in it defaulted. *)
(* A lambda's own type is not kept here, so that may be any.               *)
CaptureLambda ==
  /\ At("closure")
  /\ \E n \in ClosureLambdas, ty \in Types :
       LET e    == Top.env[n]
           key  == Key(e.sym, ty, NoCaptures)
           done == Append(Now.args, [b |-> e.b, ty |-> ty])
       IN /\ Specialize(e.sym, n, ty, NoCaptures,
                        Replace(<<[Now EXCEPT !.args = done]>>))
          /\ refs' = refs \cup {SpecRef(e.b, e.sym, key, NoCaptures)}
          /\ UNCHANGED <<prog, pc, registries, outcome>>

(* The type of what is captured under a name: of a lambda, the one it      *)
(* became a value at.                                                      *)
ClosureType(n) ==
  LET of == CHOOSE i \in DOMAIN Now.args : Now.args[i].b = Top.env[n].b
  IN CASE Top.env[n].kind = "val" -> Top.env[n].ty
       [] Top.env[n].kind = "abs" -> Instance(Now.args[of].ty)

(* The body is lowered with the parameters and what it captured.           *)
EmitClosure ==
  LET loaded == [n \in ClosureFree |-> ValueEntry(Top.env[n].b, NextFn, ClosureType(n))]
      env    == Hide(loaded, ParamEnv(prog.params[Now.b], NextFn, Top.ty))
  IN /\ At("closure")
     /\ ClosureLambdas = {}
     /\ Enter(Fn("closure", Now.b, prog.name[Now.b], ctr.closure, Top.ty, NoCaptures),
              Frame(NextFn, Top.ty, env, prog.body[Now.b]), Replace(<<>>))
     /\ ctr' = [ctr EXCEPT !.closure = @ + 1]
     /\ refs' = refs \cup {Ref(Top.fn, Now.b, Now.b, NextFn, NoCaptures)}
     /\ UNCHANGED <<prog, pc, registries, specs, outcome>>

-----------------------------------------------------------------------------

Init ==
  /\ prog \in Programs
  /\ pc = 1
  /\ stack = <<>>
  /\ abstractions = <<>>
  /\ inlineable = <<>>
  /\ symbols = [n \in {prog.name[b] : b \in Builtin} |->
                  [b |-> CHOOSE b \in Builtin : prog.name[b] = n, fn |-> BuiltinFn]]
  /\ specs = <<>>
  /\ ctr = [spec |-> 0, let |-> 0, closure |-> 0]
  /\ funcs = <<[kind |-> "main", b |-> CHOOSE b \in Binder : TRUE,
                of |-> CHOOSE n \in Name : TRUE, n |-> 0, ty |-> DefaultType,
                caps |-> NoCaptures, done |-> FALSE]>>
  /\ refs = {}
  /\ outcome = "running"

Next ==
  \/ DeclareLambda \/ DeclareInlineable \/ DeclareValue \/ LowerExprStmt
  \/ EmitEntry \/ Finish \/ EnterScope \/ LeaveScope
  \/ LetValue \/ BindValue \/ LetLambda
  \/ ReadLocal \/ Inline \/ ReferenceLambda \/ ReadSymbol
  \/ Call \/ PartialApply \/ Wrap \/ ApplyValue
  \/ CaptureLambda \/ EmitClosure

(* Lowering is one thread that never waits. *)
Spec == Init /\ [][Next]_vars /\ WF_vars(Next)

-----------------------------------------------------------------------------
(* Programs whose names do not get in each other's way *)

(* No two binders have one name, and none a generated one. *)
NamesDistinct(p) ==
  /\ \A a, b \in Binder : p.name[a] = p.name[b] => a = b
  /\ \A b \in Binder : \A i \in DOMAIN LetName : p.name[b] # LetName[i]

(* The binders that the items of the given kinds are about. *)
Bindings(p, ops) ==
  UNION {{p.body[b][i].b : i \in {j \in DOMAIN p.body[b] : p.body[b][j].op \in ops}} :
           b \in Binder}

(* What an environment may come to bind; the lambdas within bodies.        *)
LocalBinders(p) == Bindings(p, {"let", "letfn", "bind"})
                     \cup UNION {{p.params[b][i] : i \in DOMAIN p.params[b]} : b \in Binder}

LocalLambdas(p) == Bindings(p, {"letfn", "closure"})

Opening == {"let", "letfn", "bind", "scope", "closure"}

(* pos numbers the binders as they are met in the source: those of a body  *)
(* in its order, after the parameters and what the body is the body of; a  *)
(* local name a lambda has free is bound before the lambda, and one a      *)
(* top-level lambda has free is not local.  The type checker rejects a     *)
(* program that uses a name nothing around it binds.                       *)
MetInOrder(p, pos) ==
  /\ \A b \in Binder : \A i \in DOMAIN p.body[b] : p.body[b][i].op \in Opening =>
       /\ pos[b] < pos[p.body[b][i].b]
       /\ \A k \in DOMAIN p.params[b] : pos[p.params[b][k]] < pos[p.body[b][i].b]
       /\ \A j \in DOMAIN p.body[b] :
            j < i /\ p.body[b][j].op \in Opening => pos[p.body[b][j].b] < pos[p.body[b][i].b]
  /\ \A b \in LocalLambdas(p), x \in LocalBinders(p) :
       p.name[x] \in FreeVariables(p, b) \ {p.name[b]} => pos[x] < pos[b]
  /\ \A i \in DOMAIN p.top : p.top[i].kind = "fn" =>
       \A x \in LocalBinders(p) : p.name[x] \notin FreeVariables(p, p.top[i].b)

WellScoped(p) == NamesDistinct(p) /\ \E pos \in [Binder -> Nat] : MetInOrder(p, pos)

-----------------------------------------------------------------------------
(* Properties *)

Outcomes == {"running", "ok", "error", "panic"}

(* Every registry, frame and reference holds values of the right kind, and *)
(* every function number names a function that has been begun.             *)
TypeOK ==
  /\ pc \in 1 .. Len(prog.top) + 1
  /\ ctr \in [spec : Nat, let : Nat, closure : Nat]
  /\ outcome \in Outcomes
  /\ abstractions \in [DOMAIN abstractions -> Binder]
  /\ inlineable \in [DOMAIN inlineable -> Binder]
  /\ symbols \in [DOMAIN symbols -> [b : Binder, fn : 0 .. Len(funcs)]]
  /\ specs \in [DOMAIN specs -> 1 .. Len(funcs)]
  /\ \A i \in DOMAIN funcs :
       /\ funcs[i].kind \in {"main", "val", "spec", "partial", "closure"}
       /\ funcs[i].b \in Binder /\ funcs[i].of \in Name /\ funcs[i].ty \in Types
       /\ funcs[i].done \in BOOLEAN
  /\ \A i \in DOMAIN stack :
       /\ stack[i].fn \in 1 .. Len(funcs) /\ stack[i].ty \in Types
       /\ stack[i].todo \in Seq(Item)
       /\ \A n \in DOMAIN stack[i].env : stack[i].env[n] \in Entry
  /\ \A r \in refs : /\ r.use \in Binder /\ r.got \in Binder
                     /\ r.in \in 1 .. Len(funcs) /\ r.to \in 0 .. Len(funcs)

(* Every use ends up at the declaration, parameter or local name it is     *)
(* lexically bound to, through whichever of the environment, the inlined   *)
(* bindings, the lambdas and the symbols lower_variable and                *)
(* lower_application find its name in.                                     *)
LexicalResolution == \A r \in refs : r.got = r.use

(* specialize_binding emits each instantiation once, recursive and nested  *)
(* uses included: no two specializations of one registered lambda have the *)
(* same type and the same capture types.                                   *)
SpecializedOnce ==
  \A i, j \in DOMAIN funcs :
    /\ funcs[i].kind = "spec" /\ funcs[j].kind = "spec"
    /\ funcs[i].of = funcs[j].of /\ funcs[i].ty = funcs[j].ty
    /\ CaptureTypes(funcs[i].caps) = CaptureTypes(funcs[j].caps)
    => i = j

(* A call passes, as its leading operands, exactly the captures the        *)
(* specialization was compiled to receive: they are computed anew at each  *)
(* call, the specialization is not.                                        *)
CaptureAgreement ==
  \A r \in refs : r.to # BuiltinFn /\ funcs[r.to].kind = "spec"
                 => r.caps = funcs[r.to].caps

(* A value is only ever visible to the function that computes it: what a   *)
(* nested body needs of its surroundings has been threaded in (func.func   *)
(* regions are isolated from above).                                       *)
ValuesStayInTheirFunction ==
  \A i \in DOMAIN stack : \A n \in DOMAIN stack[i].env :
    stack[i].env[n].kind = "val" => stack[i].env[n].fn = stack[i].fn

(* The symbols of the functions specializing and closing over make are     *)
(* all different, though two kinds share one counter and a function takes  *)
(* its number before its body takes any.                                   *)
SymbolsUnique ==
  \A i, j \in DOMAIN funcs :
    /\ funcs[i].kind \in {"spec", "partial", "closure"}
    /\ funcs[j].kind = funcs[i].kind /\ funcs[j].n = funcs[i].n
    => i = j

(* A module that is handed on is complete: every function begun is         *)
(* finished, so every symbol referenced is defined.                        *)
ModuleClosed ==
  outcome = "ok" => /\ \A i \in DOMAIN funcs : funcs[i].done
                    /\ \A r \in refs : r.to \in {BuiltinFn} \cup DOMAIN funcs

(* Lowering comes to an end: specializing on demand does not chase its own *)
(* tail through recursive, mutually nested or inlined bindings.            *)
Termination == <>(outcome # "running")
=============================================================================
