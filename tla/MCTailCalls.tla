----------------------------- MODULE MCTailCalls -----------------------------
(***************************************************************************)
(* The shapes of tests/codegen.rs:446-524 and the ones around them.        *)
(***************************************************************************)
EXTENDS TailCalls

Num(n)     == [k |-> "int", n |-> n]
Of(x)      == [k |-> "name", x |-> x]
Plus(x, y) == [k |-> "plus", x |-> x, y |-> y]
Less(x)    == [k |-> "less", x |-> x, n |-> 1]
More(x)    == [k |-> "less", x |-> x, n |-> -1]

Ret(a)           == [k |-> "ret", a |-> a]
If(a, e1, e2)    == [k |-> "if", a |-> a, then |-> e1, else |-> e2]
Match(a, e1, x, e2) == [k |-> "match", a |-> a, then |-> e1, x |-> x, else |-> e2]
App(f, as)       == [k |-> "app", f |-> f, as |-> as]
Let(x, r, e)     == [k |-> "let", x |-> x, r |-> r, e |-> e]
Block(x, r, e)   == [k |-> "block", x |-> x, r |-> r, e |-> e]
Is(a)            == [k |-> "atom", a |-> a]
ResultOf(f, as)  == [k |-> "call", f |-> f, as |-> as]
Fun(sym, params, free, body) ==
  [k |-> "lambda", f |-> [sym |-> sym, params |-> params, free |-> free, body |-> body]]

Counts == 0 .. 3
Main(globals, e) == [globals |-> globals, main |-> e]
Top(f, params, body, as) ==
  Main([x \in {f} |-> Fun(f, params, {}, body).f], App(f, as))

(* `\n acc => if n == 0 then acc else count (n - 1) (acc + 1)`             *)
Counting(n) == Top("count", <<"n", "acc">>,
  If(Of("n"), Ret(Of("acc")), App("count", <<Less("n"), More("acc")>>)), <<Num(n), Num(0)>>)

(* `\n => match n | 0 => 0 | x => down (x - 1)`                            *)
Down(n) == Top("down", <<"n">>, Match(Of("n"), Ret(Num(0)), "x", App("down", <<Less("x")>>)), <<Num(n)>>)

(* `\n => if n == 0 then 0 else { let m = n - 1; down m }`                 *)
BlockDown(n) == Top("down", <<"n">>,
  If(Of("n"), Ret(Num(0)), Block("m", Is(Less("n")), App("down", <<Of("m")>>))), <<Num(n)>>)

(* `\n => let loop = \i a b => if i == 0 then a else loop (i - 1) b (a + b) in loop n 0 1` *)
Fib(n) == Top("fib", <<"n">>,
  Let("loop", Fun("let_0", <<"i", "a", "b">>, {},
                  If(Of("i"), Ret(Of("a")), App("loop", <<Less("i"), Of("b"), Plus("a", "b")>>))),
      App("loop", <<Of("n"), Num(0), Num(1)>>)), <<Num(n)>>)

(* `\start => let step = \n acc => ... step (n - 1) (acc + start) in step 2 0`, the self call below `e` *)
Step(n, Below(_)) == Top("make", <<"start">>,
  Let("step", Fun("let_0", <<"n", "acc">>, {"start"},
                  If(Of("n"), Ret(Of("acc")), Below(App("step", <<Less("n"), Plus("acc", "start")>>)))),
      App("step", <<Num(2), Num(0)>>)), <<Num(n)>>)

(* `\n => if n == 0 then 0 else (let f = \x => 99 in f (n - 1))`           *)
Hidden(n, Bind(_, _, _)) == Top("f", <<"n">>,
  If(Of("n"), Ret(Num(0)),
     Bind("f", Fun("let_0", <<"x">>, {}, Ret(Num(99))), App("f", <<Less("n")>>))), <<Num(n)>>)

(* The name is hidden in one branch and not in the other.                  *)
HalfHidden(n) == Top("f", <<"n", "m">>,
  If(Of("n"),
     Let("f", Fun("let_0", <<"x", "y">>, {}, Ret(Plus("x", "y"))), App("f", <<Of("m"), Of("n")>>)),
     App("f", <<Less("n"), More("m")>>)), <<Num(n), Num(0)>>)

(* `\n => if n == 0 then 0 else depth (n - 1) + n`                         *)
Adds(n) == Top("depth", <<"n">>,
  If(Of("n"), Ret(Num(0)), Let("d", ResultOf("depth", <<Less("n")>>), Ret(Plus("d", "n")))), <<Num(n)>>)

(* `\n m => ... ack (n - 1) (ack n (m - 1))`: both kinds of call.          *)
Ackermann(n, m) == Top("ack", <<"n", "m">>,
  If(Of("n"), Ret(More("m")),
     If(Of("m"), App("ack", <<Less("n"), Num(1)>>),
        Let("a", ResultOf("ack", <<Of("n"), Less("m")>>), App("ack", <<Less("n"), Of("a")>>)))),
  <<Num(n), Num(m)>>)

(* `\n => ... odd (n - 1)`, `\n => ... even (n - 1)`                       *)
Even(n) == Main(
  [x \in {"even", "odd"} |->
     Fun(x, <<"n">>, {}, If(Of("n"), Ret(Num(IF x = "even" THEN 1 ELSE 0)),
                            App(IF x = "even" THEN "odd" ELSE "even", <<Less("n")>>))).f],
  App("even", <<Num(n)>>))

MCPrograms ==
  UNION {{Counting(n), Down(n), BlockDown(n), Fib(n), Hidden(n, Let), Hidden(n, Block), HalfHidden(n),
          Adds(n), Even(n), Step(n, LAMBDA e : e), Step(n, LAMBDA e : Let("acc", Is(Num(7)), e)),
          Step(n, LAMBDA e : Let("start", Is(Num(7)), e))} : n \in Counts}
    \cup {Ackermann(n, m) : n \in 0 .. 2, m \in 0 .. 1}

MCNames == {"n", "m", "acc", "x", "y", "d", "a", "b", "i", "start", "f", "loop", "step", "count", "down",
            "fib", "make", "depth", "ack", "even", "odd"}

RECURSIVE Within(_), Height(_)
Within(e) == {e} \cup UNION {Within(d) : d \in Parts(e)}
Height(e) == 1 + FoldSet(LAMBDA d, h : IF Height(d) > h THEN Height(d) ELSE h, 0, Parts(e))

MCExprs(p) == Within(p.main) \cup UNION {Within(p.globals[x].body) : x \in DOMAIN p.globals}

ASSUME AllWellNamed == \A p \in Programs : WellNamed(p)

(* The recursions all end, so that the loops are compared with something.  *)
ASSUME RecursionsEnd == \A p \in Programs : Eval[MaxDepth][<<p, p.main, NoEnv>>] # {}
=============================================================================
