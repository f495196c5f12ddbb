--------------------------- MODULE MCTypechecking ---------------------------
(***************************************************************************)
(* Programs for TLC.                                                       *)
(***************************************************************************)
EXTENDS Typechecking, Syntax

(* The universe: simple types, and lists, functions and pairs of them.     *)
Simple == {TInt, TStr, TBool, List(TInt), List(TStr), Fn(TInt, TStr), Fn(TInt, TInt),
           Enum("Option", <<TInt>>), Tuple(<<TInt, TStr>>),
           Rec(RowExt("x", TInt, EmptyRow)), Rec(RowExt("x", TStr, RowExt("y", TInt, EmptyRow)))}

Types2 == Simple \cup {TUnit} \cup {List(t) : t \in Simple} \cup {Fn(t, u) : t, u \in Simple}
            \cup {Tuple(<<t, u>>) : t, u \in {TInt, TStr}}

(* Expressions of one operator over the atoms in A.                        *)
OneOp(A) ==
  {Ap(a, b) : a, b \in A} \cup {Ls(<<a, b>>) : a, b \in A} \cup {Push(a, Ls(<<b>>)) : a, b \in A}
    \cup {IfE(a, b) : a, b \in A} \cup {Op("arith", "+", a, b) : a, b \in A}

Atoms(vs) == {One, Txt} \cup {V(x) : x \in vs}

(* `let f = \x => e; let g = f u; f w`, where f may be polymorphic, used   *)
(* at one type after another.                                              *)
Lambdas ==
  {Lam("x", e) : e \in OneOp(Atoms({"x"}))}
    \cup {Lam("x", Lam("y", e)) : e \in OneOp({One, V("x"), V("y")})}
    \cup {Lam("x", IfE(V("x"), Ap(V("f"), V("x")))), Lam("f", Ap(V("f"), One)), V("itostr")}

(* `\x y => e` with an operator over another.                              *)
Inner == {V("x"), V("y")}
InnerOp ==
  {Ap(a, b) : a, b \in Inner} \cup UNION {{Push(a, Ls(<<>>)), Op("arith", "+", a, One), Ap(V("itostr"), a),
                                            Lam("x", a), Lam("z", Ap(V("z"), a))} : a \in Inner}
Compound ==
  UNION {{Ap(a, b), Ap(b, a), IfE(b, a), Node("if", <<>>, <<b, a, V("x")>>), Push(b, Ls(<<a>>)), Push(a, Ls(<<b>>)),
          Ls(<<b, a>>), Tup(<<b, a>>), LetIn("z", b, Tup(<<a, V("z")>>))} : a \in Inner, b \in InnerOp}

CompoundPrograms == {<<Decl("f", Lam("x", Lam("y", e)))>> : e \in Compound}

Arguments == {One, Txt, V("itostr")}

CorePrograms ==
  {<<Decl("f", e), Decl("g", Ap(V("f"), u)), Expr(Ap(V("f"), w))>> : e \in Lambdas, u, w \in Arguments}

(* A parameter with the name of an earlier declaration, an annotation, a   *)
(* redeclaration, a let used at two types.                                 *)
NamePrograms ==
  {<<Decl("x", One), Decl("f", Lam("x", e)), Expr(Op("arith", "+", V("x"), w))>> :
     e \in {V("x"), Ap(V("itostr"), V("x")), Push(Txt, Ls(<<V("x")>>)), Block(<<V("x"), One>>)},
     w \in {One, Txt}}
  \cup {<<Text, DeclT("f", Fn(t, Fn(Var("a"), TInfer)), Lam("x", LamT("y", u, V(v)))), Expr(Ap(V("f"), w))>> :
          t \in {TInt, Enum("Text", <<>>)}, u \in {TInt, TInfer}, v \in {"x", "y"}, w \in {One, Txt}}
  \cup {<<Decl("f", Lam("x", V("x"))), Decl("f", e), Expr(Ap(V("f"), w))>> :
          e \in {Ap(V("f"), One), Ap(V("f"), V("f")), Lam("x", Ap(V("f"), V("x")))}, w \in {One, Txt}}
  \cup {<<Decl("f", LetIn("i", Lam("a", V("a")), Tup(<<Ap(V("i"), u), Ap(V("i"), w)>>)))>> : u, w \in {One, Txt}}
  \cup {<<Decl("f", Block(<<Decl("i", Lam("a", V("a"))), Ap(V("i"), u), Ap(V("i"), w)>>))>> : u, w \in {One, Txt}}
  \cup {<<Decl("print", One)>>, <<Decl("f", Lam("x", Ap(V("x"), V("x"))))>>, <<Expr(V("z"))>>}

None    == V("None")
SomeP(p) == Ap(V("Some"), p)

(* `let f = \m => match m | ...; f u`                                      *)
Matches2 ==
  {Match(V("m"), <<None, SomeP(V("z"))>>, <<a, b>>) : a \in Atoms({"m"}), b \in OneOp({One, V("z")})}
    \cup {Match(V("m"), <<SomeP(V("z")), None>>, <<V("z"), a>>) : a \in Atoms({"m"})}
    \cup {Match(V("m"), ps, <<One>>) : ps \in {<<SomeP(V("z"))>>, <<Ls(<<>>)>>, <<Push(V("h"), V("t"))>>}}
    \cup {Match(V("m"), <<Ls(<<>>), Push(V("h"), V("t"))>>, <<a, b>>) : a \in {One, Ls(<<>>)}, b \in Atoms({"h", "t"})}
    \cup {Match(V("m"), <<Tup(<<One, V("b")>>), V("w")>>, <<V("b"), b>>) : b \in Atoms({"w"})}
    \cup {Match(V("m"), ps, <<One, One>>) : ps \in {<<True, False>>, <<True, True>>, <<One, V("w")>>, <<Ls(<<V("a")>>), V("w")>>}}

MatchPrograms ==
  {<<Option, Decl("f", Lam("m", e)), Expr(Ap(V("f"), u))>> :
     e \in Matches2, u \in {None, SomeP(One), Ls(<<Txt>>), True, Tup(<<One, Txt>>)}}
  \cup {<<Option, Expr(Match(SomeP(One), ps, <<One, a>>))>> :
           ps \in {<<None, SomeP(V("z"))>>, <<None, None>>, <<None, V("z")>>}, a \in Atoms({"z"})}
  \cup {<<Option, Option>>, <<TypeDecl("rectype", <<"R">>, <<Variant("x", <<Var("a")>>)>>)>>}

RecordPrograms ==
  {<<Pair, Decl("f", Lam("r", e)), Expr(Ap(V("f"), u))>> :
     e \in {Get(V("r"), "x"), With(V("r"), <<"x">>, <<Txt>>), Op("arith", "+", Get(V("r"), "x"), Get(V("r"), "y")),
            Match(V("r"), <<RecE(<<"y">>, <<V("b")>>), V("w")>>, <<V("b"), One>>), With(V("r"), <<"y", "x">>, <<One, Get(V("r"), "x")>>)},
     u \in {RecE(<<"x">>, <<Txt>>), RecE(<<"y", "x">>, <<One, Txt>>), RecE(<<"x", "y">>, <<One, One>>),
            Node("record", <<"Pair", "y", "x">>, <<One, Txt>>), Node("record", <<"Pair", "x">>, <<Txt>>),
            Node("record", <<"Pair", "x", "y">>, <<Txt, Txt>>), One}}

OperatorPrograms ==
  {<<Decl("f", Lam("x", e)), Expr(Ap(V("f"), u))>> :
     e \in {Op("comp", "<", V("x"), One), Op("comp", "==", V("x"), Txt), Op("logic", "&&", V("x"), True),
            Node("neg", <<>>, <<One>>), Node("neg", <<>>, <<Txt>>), Node("not", <<>>, <<V("x")>>), Op("arith", "-", Txt, Txt)},
     u \in {One, Txt, True}}

AllPrograms == CorePrograms \cup CompoundPrograms \cup NamePrograms \cup MatchPrograms \cup RecordPrograms \cup OperatorPrograms

-----------------------------------------------------------------------------
(* Programs on which inference does not do what the typing rules           *)
(* (docs/typerules.md) or the comments of the code say (README, section    *)
(* 5).                                                                     *)

(* `let f = \x => [x, itostr x]`                                           *)
ElementPrograms == {<<Decl("f", Lam("x", Ls(<<V("x"), Ap(V("itostr"), V("x"))>>)))>>}

(* `(let x = 1 in x) + x`                                                  *)
ScopePrograms == {<<Expr(Op("arith", "+", LetIn("x", One, V("x")), V("x")))>>}

(* `let f = \x => { let y = x; y }; f 1; f "s"`                            *)
BlockPrograms ==
  {<<Decl("f", Lam("x", Block(<<Decl("y", V("x")), V("y")>>))), Expr(Ap(V("f"), One)), Expr(Ap(V("f"), Txt))>>}

(* `let y = 1; let f = \a => let y = "s" in y; y`                          *)
OverwrittenPrograms == {<<Decl("y", One), Decl("f", Lam("a", LetIn("y", Txt, V("y")))), Expr(V("y"))>>}

(* `match Some(1) | Some(z) => print z | w => ()`                          *)
CasePrograms ==
  {<<Option, Expr(Match(SomeP(One), <<SomeP(V("z")), V("w")>>, <<Ap(V("print"), V("z")), Lit(TUnit, "()")>>))>>}

(* `let f = \r => if r.x == 1 then r else r`                               *)
RowPrograms ==
  {<<Decl("f", Lam("r", Node("if", <<>>, <<Op("comp", "==", Get(V("r"), "x"), One), V("r"), V("r")>>)))>>}

(* `let f = \x => x; let g = \(y : 't2) => y + 1; f "s"`                   *)
VariablePrograms ==
  {<<Decl("f", Lam("x", V("x"))), Decl("g", LamT("y", Var("t2"), Op("arith", "+", V("y"), One))),
     Expr(Ap(V("f"), Txt))>>}

(* `match Some(0) | Some(1) => 1 | None => 1`                              *)
NestedPrograms == {<<Option, Expr(Match(SomeP(Lit(TInt, "0")), <<SomeP(One), None>>, <<One, One>>))>>}

(* `let f = \x => match Some(x) | Some(z) => [z, [x]] | w => []`           *)
CyclicPrograms ==
  {<<Option, Decl("f", Lam("x", Match(SomeP(V("x")), <<SomeP(V("z")), V("w")>>,
                                      <<Ls(<<V("z"), Ls(<<V("x")>>)>>), Ls(<<>>)>>)))>>}

(* `let f = \x => match x | None => 1`                                     *)
NullaryPrograms == {<<Option, Decl("f", Lam("x", Match(V("x"), <<None>>, <<One>>)))>>}

(* `(\x => x + x) [1]`                                                     *)
OperandPrograms == {<<Expr(Ap(Lam("x", Op("arith", "+", V("x"), V("x"))), Ls(<<One>>)))>>}

(* `[] == [1]`                                                             *)
ComparePrograms == {<<Expr(Op("comp", "==", Ls(<<>>), Ls(<<One>>)))>>}
=============================================================================
