------------------------------- MODULE Syntax -------------------------------
(***************************************************************************)
(* Short names for the expressions, patterns and declarations that the     *)
(* programs given to TLC are made of.                                      *)
(***************************************************************************)
EXTENDS Inference

V(x)         == Node("var", <<x>>, <<>>)
Lit(t, n)    == [Node("lit", <<n>>, <<>>) EXCEPT !.t = t]
One          == Lit(TInt, "1")
Txt          == Lit(TStr, "s")
True         == Lit(TBool, "true")
False        == Lit(TBool, "false")
Lam(x, e)    == Node("abs", <<x>>, <<e>>)
LamT(x, t, e) == [Lam(x, e) EXCEPT !.t = t]
Ap(f, a)     == Node("app", <<>>, <<f, a>>)
LetIn(x, a, b) == Node("let", <<x>>, <<a, b>>)
IfE(a, b)    == Node("if", <<>>, <<True, a, b>>)
Ls(es)       == Node("list", <<>>, es)
Push(a, b)   == Node("cons", <<>>, <<a, b>>)
Tup(es)      == Node("tuple", <<>>, es)
Op(k, o, a, b) == Node(k, <<o>>, <<a, b>>)
Match(e, ps, es) == [Node("match", <<>>, <<e>> \o es) EXCEPT !.p = ps]
Block(es)    == Node("block", <<>>, es)
Get(e, l)    == Node("field", <<l>>, <<e>>)
RecE(ls, es) == Node("record", <<"">> \o ls, es)
With(e, ls, es) == Node("with", ls, <<e>> \o es)

Decl(x, e)     == Node("decl", <<x>>, <<e>>)
DeclT(x, t, e) == [Decl(x, e) EXCEPT !.t = t]
Expr(e)        == Node("expr", <<>>, <<e>>)
Variant(n, ts) == [n |-> n, a |-> ts]
TypeDecl(k, n, d) == [k |-> k, n |-> n, d |-> d]

(* `enum Option('a) = None | Some('a)`                                     *)
Option == TypeDecl("enum", <<"Option", "a">>, <<Variant("None", <<>>), Variant("Some", <<Var("a")>>)>>)

(* `record Pair('a) = { x: 'a, y: int }`                                   *)
Pair == TypeDecl("rectype", <<"Pair", "a">>, <<Variant("x", <<Var("a")>>), Variant("y", <<TInt>>)>>)

(* `type Text = string`                                                    *)
Text == TypeDecl("alias", <<"Text">>, <<Variant("", <<TStr>>)>>)
=============================================================================
