----------------------------- MODULE TailCalls -----------------------------
(***************************************************************************)
(* Self tail calls (codegen/tail.rs).  The body of a specialization that   *)
(* has one is lowered to blocks under a loop header; a self tail call is a *)
(* branch to the header with new arguments, any other call a call.  A step *)
(* is what the compiled program does up to the next binding, branch, call  *)
(* or return.                                                              *)
(*                                                                         *)
(* Values are integers.  An expression is a record of its kind k and its   *)
(* parts: `ret` of an operand, `if` and `match` on an operand being 0,     *)
(* `let` and `block` of one declaration, whose initializer r is an         *)
(* operand, a lambda or a call, and `app`, a call in tail position.  A     *)
(* lambda has the symbol it is stored under, its parameters, the names     *)
(* free in it and its body.                                                *)
(***************************************************************************)
EXTENDS Integers, Sequences, FiniteSets, SequencesExt

CONSTANTS
  Programs,  \* the top-level lambdas of each, and the expression that runs
  Names,     \* what is named in them
  Exprs(_),  \* the expressions a program is made of
  Depth(_),  \* how deep an expression is nested
  MaxDepth   \* how deep the recursion is followed that loops are compared with

-----------------------------------------------------------------------------
(* Syntax *)

Operands ==
  [k : {"int"}, n : Int] \cup [k : {"name"}, x : Names]
    \cup [k : {"plus"}, x : Names, y : Names] \cup [k : {"less"}, x : Names, n : Int]

(* The lambdas, initializers and expressions with parts in E.              *)
LambdasOf(E) == [sym : STRING, params : Seq(Names), free : SUBSET Names, body : E]
InitializersOf(E) ==
  [k : {"atom"}, a : Operands] \cup [k : {"call"}, f : Names, as : Seq(Operands)]
    \cup [k : {"lambda"}, f : LambdasOf(E)]
ExprsOf(E) ==
  [k : {"ret"}, a : Operands]
    \cup [k : {"if"}, a : Operands, then : E, else : E]
    \cup [k : {"match"}, a : Operands, then : E, x : Names, else : E]
    \cup [k : {"let", "block"}, x : Names, r : InitializersOf(E), e : E]
    \cup [k : {"app"}, f : Names, as : Seq(Operands)]

Branches(e) == e.k \in {"if", "match"}
Declares(e) == e.k \in {"let", "block"}

Parts(e) ==
  CASE Branches(e) -> {e.then, e.else}
    [] Declares(e) -> {e.e} \cup IF e.r.k = "lambda" THEN {e.r.f.body} ELSE {}
    [] OTHER -> {}

AllExprs == UNION {Exprs(p) : p \in Programs}

(* A program has its expressions' parts, which are nested less deep.       *)
ASSUME TailCallsAssumption ==
  /\ \A p \in Programs :
       /\ p.main \in Exprs(p)
       /\ Exprs(p) \subseteq ExprsOf(Exprs(p))
       /\ DOMAIN p.globals \subseteq Names
       /\ \A x \in DOMAIN p.globals : p.globals[x] \in LambdasOf(Exprs(p))
  /\ \A e \in AllExprs :
       /\ Depth(e) \in Nat
       /\ \A d \in Parts(e) : Depth(d) < Depth(e)
  /\ MaxDepth \in Nat

VARIABLES
  program,
  frames,  \* the activations, the current one last
  result   \* of the program, once it has ended (a sequence of at most one)

vars == <<program, frames, result>>

-----------------------------------------------------------------------------
(* Names: an environment entry is a value or a lambda (EnvEntry), or there *)
(* is none.                                                                *)

Unbound   == [is |-> "none"]
Value(v)  == [is |-> "value", v |-> v]
Lambda(f) == [is |-> "lambda", f |-> f]
With(env, x, entry) == [env EXCEPT ![x] = entry]

Entries == {Unbound} \cup [is : {"value"}, v : Int] \cup [is : {"lambda"}, f : LambdasOf(AllExprs)]
Envs == [Names -> Entries]
NoEnv == [x \in Names |-> Unbound]

IsValue(env, x)  == env[x].is = "value"
IsLambda(env, x) == env[x].is = "lambda"

(* The local lambdas come before those of the top level.                   *)
Callee(p, env, name) == IF IsLambda(env, name) THEN env[name].f ELSE p.globals[name]

(* What a lambda takes from the environment it is called in, and so which  *)
(* specialization of it is called.                                         *)
Captures(f, env) == {x \in f.free : IsValue(env, x)}
Spec(f, name, env) == [f |-> f, self |-> name, captures |-> Captures(f, env)]
Symbol(spec) == <<spec.f.sym, spec.captures>>

Atom(a, env) ==
  CASE a.k = "int"  -> a.n
    [] a.k = "name" -> env[a.x].v
    [] a.k = "plus" -> env[a.x].v + env[a.y].v
    [] a.k = "less" -> env[a.x].v - a.n
Atoms(as, env) == [i \in DOMAIN as |-> Atom(as[i], env)]

(* The inputs of a specialization: captures, parameters and, for a lambda  *)
(* that is local, its own name.                                            *)
Inputs(spec, env, args) ==
  LET params == spec.f.params
      Param(x) == CHOOSE i \in DOMAIN params : params[i] = x
  IN [x \in Names |->
        IF x = spec.self /\ spec.self # spec.f.sym THEN Lambda(spec.f)
        ELSE IF x \in ToSet(params) THEN Value(args[Param(x)])
        ELSE IF x \in spec.captures THEN env[x]
        ELSE Unbound]

-----------------------------------------------------------------------------
(* What type checking has seen to                                          *)

Calls(e) == e.k = "app" \/ (Declares(e) /\ e.r.k = "call")
TheCall(e) == IF e.k = "app" THEN e ELSE e.r

(* The operands that are read where e begins, and the names in an operand. *)
Read(e) ==
  CASE e.k = "ret" \/ Branches(e) -> {e.a}
    [] Calls(e) -> ToSet(TheCall(e).as)
    [] Declares(e) /\ e.r.k = "atom" -> {e.r.a}
    [] OTHER -> {}
NamesIn(a) ==
  CASE a.k = "int" -> {}
    [] a.k = "plus" -> {a.x, a.y}
    [] OTHER -> {a.x}

(* What is read is a value, what is called is not and gets all its         *)
(* arguments: a partial application makes a function value, and there are  *)
(* none here.                                                              *)
WellTyped(p, e, env) ==
  /\ \A a \in Read(e) : \A x \in NamesIn(a) : IsValue(env, x)
  /\ Calls(e) =>
       LET call == TheCall(e)
       IN /\ ~IsValue(env, call.f)
          /\ IsLambda(env, call.f) \/ call.f \in DOMAIN p.globals
          /\ Len(call.as) = Len(Callee(p, env, call.f).params)

-----------------------------------------------------------------------------
(* The name of each binding of a lambda, and the lambda.                   *)
Bindings(p) ==
  {<<x, p.globals[x]>> : x \in DOMAIN p.globals}
    \cup {<<e.x, e.r.f>> : e \in {d \in Exprs(p) : Declares(d) /\ d.r.k = "lambda"}}

(* A symbol stands for one lambda: a local one is stored under a counter   *)
(* that only grows, and a global is declared once.                         *)
WellNamed(p) ==
  /\ \A b, c \in Bindings(p) : b[2].sym = c[2].sym => b = c
  /\ \A b \in Bindings(p) : b[2].sym # "__main"

-----------------------------------------------------------------------------
(* Which bodies get a loop header                                          *)

Unhidden(calls, x) == {call \in calls : call[1] # x}

(* Mutant: the cases of a match are not searched.                          *)
TailCallsOf_NotMatches[e \in AllExprs] ==
  CASE e.k = "if"  -> TailCallsOf_NotMatches[e.then] \cup TailCallsOf_NotMatches[e.else]
    [] Declares(e) -> Unhidden(TailCallsOf_NotMatches[e.e], e.x)
    [] e.k = "app" -> {<<e.f, Len(e.as)>>}
    [] OTHER -> {}
HasHeader_NotMatches(spec) ==
  <<spec.self, Len(spec.f.params)>> \in TailCallsOf_NotMatches[spec.f.body]

(* The names called in tail position, each with the number of arguments,   *)
(* but for those called below another binding of the name.                 *)
TailCallsOf[e \in AllExprs] ==
  CASE e.k = "if"    -> TailCallsOf[e.then] \cup TailCallsOf[e.else]
    [] e.k = "match" -> TailCallsOf[e.then] \cup Unhidden(TailCallsOf[e.else], e.x)
    [] Declares(e)   -> Unhidden(TailCallsOf[e.e], e.x)
    [] e.k = "app"   -> {<<e.f, Len(e.as)>>}
    [] OTHER -> {}

(* has_self_tail_call: the lambda's own name, with all its arguments.      *)
HasHeader(spec) == <<spec.self, Len(spec.f.params)>> \in TailCallsOf[spec.f.body]

-----------------------------------------------------------------------------
(* Running *)

Frame == frames[Len(frames)]
Now == Frame.e
Env == Frame.env

Goto(e, env) == frames' = [frames EXCEPT ![Len(frames)] = [spec |-> Frame.spec, env |-> env, e |-> e]]

Activation(spec, env, args) == [spec |-> spec, env |-> Inputs(spec, env, args), e |-> spec.f.body]

(* The caller waits for the value it binds to x, or returns.               *)
Waiting(e) == [k |-> "waiting", e |-> e]
Call(name, as) ==
  LET spec == Spec(Callee(program, Env, name), name, Env)
  IN frames' = Append([frames EXCEPT ![Len(frames)] = [@ EXCEPT !.e = Waiting(Now)]],
                      Activation(spec, Env, Atoms(as, Env)))

MainSpec(e) == [f |-> [sym |-> "__main", params |-> <<>>, free |-> {}, body |-> e],
                self |-> "__main", captures |-> {}]

Init ==
  /\ program \in Programs
  /\ frames = <<[spec |-> MainSpec(program.main), env |-> NoEnv, e |-> program.main]>>
  /\ result = <<>>

Runs(k) == result = <<>> /\ Now.k = k /\ WellTyped(program, Now, Env)

Branch ==
  /\ Runs("if")
  /\ Goto(IF Atom(Now.a, Env) = 0 THEN Now.then ELSE Now.else, Env)
  /\ UNCHANGED <<program, result>>

(* `match a | 0 => e1 | x => e2`: the last case is not tested.             *)
TakeCase ==
  /\ Runs("match")
  /\ IF Atom(Now.a, Env) = 0
     THEN Goto(Now.then, Env)
     ELSE Goto(Now.else, With(Env, Now.x, Value(Atom(Now.a, Env))))
  /\ UNCHANGED <<program, result>>

Binds(k) == (Runs("let") \/ Runs("block")) /\ Now.r.k = k

BindValue ==
  /\ Binds("atom")
  /\ Goto(Now.e, With(Env, Now.x, Value(Atom(Now.r.a, Env))))
  /\ UNCHANGED <<program, result>>

BindLambda ==
  /\ Binds("lambda")
  /\ Goto(Now.e, With(Env, Now.x, Lambda(Now.r.f)))
  /\ UNCHANGED <<program, result>>

CallForValue ==
  /\ Binds("call")
  /\ Call(Now.r.f, Now.r.as)
  /\ UNCHANGED <<program, result>>

(* try_self_tail_call: the callee, specialized for the captures there are  *)
(* at the call, is the specialization that runs.                           *)
IsSelfTailCall ==
  /\ Runs("app")
  /\ HasHeader(Frame.spec)
  /\ LET f == Callee(program, Env, Now.f)
     IN /\ Len(Now.as) = Len(f.params)
        /\ Symbol(Spec(f, Now.f, Env)) = Symbol(Frame.spec)

(* Mutant: each parameter is assigned before the next argument is lowered. *)
LoopBack_OneByOne ==
  /\ IsSelfTailCall
  /\ LET params == Frame.spec.f.params
         env == FoldLeft(LAMBDA g, i : With(g, params[i], Value(Atom(Now.as[i], g))), Env,
                         [i \in DOMAIN params |-> i])
     IN Goto(Frame.spec.f.body, Inputs(Frame.spec, env, [i \in DOMAIN params |-> env[params[i]].v]))
  /\ UNCHANGED <<program, result>>

(* Mutant: the header is entered with what it was entered with before.     *)
LoopBack_SameArguments ==
  /\ IsSelfTailCall
  /\ LET params == Frame.spec.f.params
     IN Goto(Frame.spec.f.body, Inputs(Frame.spec, Env, [i \in DOMAIN params |-> Env[params[i]].v]))
  /\ UNCHANGED <<program, result>>

(* `cf.br ^header(captures..., args...)`                                   *)
LoopBack ==
  /\ IsSelfTailCall
  /\ Goto(Frame.spec.f.body, Inputs(Frame.spec, Env, Atoms(Now.as, Env)))
  /\ UNCHANGED <<program, result>>

CallAndReturn ==
  /\ Runs("app")
  /\ ~IsSelfTailCall
  /\ Call(Now.f, Now.as)
  /\ UNCHANGED <<program, result>>

(* A value is returned to the call it answers: the caller binds it, or     *)
(* returns it in turn.                                                     *)
Answer(v) == [k |-> "ret", a |-> [k |-> "int", n |-> v]]
Return ==
  /\ Runs("ret")
  /\ LET v == Atom(Now.a, Env)
         caller == frames[Len(frames) - 1]
         waits == caller.e.e
         resumed == IF waits.k = "app"
                    THEN [caller EXCEPT !.e = Answer(v)]
                    ELSE [caller EXCEPT !.e = waits.e, !.env = With(@, waits.x, Value(v))]
     IN \/ /\ Len(frames) = 1
           /\ result' = <<v>>
           /\ UNCHANGED frames
        \/ /\ Len(frames) > 1
           /\ frames' = Append(SubSeq(frames, 1, Len(frames) - 2), resumed)
           /\ UNCHANGED result
  /\ UNCHANGED program

Next ==
  \/ Branch \/ TakeCase \/ BindValue \/ BindLambda
  \/ CallForValue \/ LoopBack \/ CallAndReturn \/ Return

Behavior == Init /\ [][Next]_vars /\ WF_vars(Next)

-----------------------------------------------------------------------------
(* Properties *)

(***************************************************************************)
(* The reference: what an expression evaluates to when every call is a     *)
(* call.  Eval[n][<<p, e, env>>] has the value, once n is large enough for *)
(* the depth of the recursion, and is empty before.                        *)
(***************************************************************************)
Configs == Programs \X AllExprs \X Envs

(* One level of the evaluation, ev being that of the ones below.           *)
Unfolded(ev, p, e, env) ==
  LET Called(call) ==
        LET spec == Spec(Callee(p, env, call.f), call.f, env)
        IN ev[<<p, spec.f.body, Inputs(spec, env, Atoms(call.as, env))>>]
      Bound == CASE e.r.k = "atom"   -> {Value(Atom(e.r.a, env))}
                 [] e.r.k = "lambda" -> {Lambda(e.r.f)}
                 [] e.r.k = "call"   -> {Value(v) : v \in Called(e.r)}
  IN CASE e.k = "ret" -> {Atom(e.a, env)}
       [] e.k = "if" -> ev[<<p, IF Atom(e.a, env) = 0 THEN e.then ELSE e.else, env>>]
       [] e.k = "match" -> IF Atom(e.a, env) = 0 THEN ev[<<p, e.then, env>>]
                           ELSE ev[<<p, e.else, With(env, e.x, Value(Atom(e.a, env)))>>]
       [] e.k = "app" -> Called(e)
       [] Declares(e) -> UNION {ev[<<p, e.e, With(env, e.x, entry)>>] : entry \in Bound}

Eval[n \in Nat] ==
  [c \in Configs |-> IF n = 0 \/ ~WellTyped(c[1], c[2], c[3]) THEN {}
                     ELSE Unfolded(Eval[n - 1], c[1], c[2], c[3])]

(***************************************************************************)
(* A loop computes what the recursion does: the arguments are evaluated    *)
(* before any parameter changes, captures go round with them, nothing      *)
(* bound in one iteration is seen in the next, and a call of another       *)
(* lambda of the same name is not taken for a self call.                   *)
(***************************************************************************)
LoopIsRecursion ==
  result # <<>> => Eval[MaxDepth][<<program, program.main, NoEnv>>] \subseteq ToSet(result)

(***************************************************************************)
(* "the recursion runs in constant stack space" (tail.rs:11): a            *)
(* specialization has no activation directly above one of its own, but by  *)
(* a call that is not in tail position.                                    *)
(***************************************************************************)
ConstantStack ==
  \A i \in 1 .. Len(frames) - 1 :
    Symbol(frames[i].spec) = Symbol(frames[i + 1].spec) => frames[i].e.e.k # "app"

(***************************************************************************)
(* The program ends, as its recursion does.                                *)
(***************************************************************************)
Ends == <>(result # <<>>)
=============================================================================
