----------------------------- MODULE MCLowering -----------------------------
(***************************************************************************)
(* Small programs for Lowering.  All have the shape                        *)
(*                                                                         *)
(*    let y = 1;  let f = \a [b] => ...;  let s = f y;                     *)
(*    let g = \c => let v = ... in let h = \d => ... in ... (\e => ...);   *)
(*    expression;                                                          *)
(*                                                                         *)
(* with a value y, a (partial) application s kept for inlining, a local    *)
(* value v, a local lambda h that may capture v, c and itself, and a       *)
(* lambda k = \e => ... that may capture v, c and h, bare or bound by let. *)
(***************************************************************************)
EXTENDS Lowering

Binders == {"print", "y", "f", "a", "b", "s", "g", "c", "v", "h", "d", "k", "e", "w", "n",
            "scope", "main"}

LetNames == <<"let_0", "let_1", "let_2", "let_3", "let_4", "let_5">>

Names == Binders \cup {LetNames[i] : i \in DOMAIN LetNames}

Sorted == <<"a", "b", "c", "d", "e", "f", "g", "h", "k", "let_0", "let_1",
            "let_2", "let_3", "let_4", "let_5", "main", "n", "print", "s", "scope",
            "v", "w", "y">>

(* Strings and lists are pointers. *)
Lowered == [ty \in {"int", "str", "list"} |-> IF ty = "int" THEN "int" ELSE "str"]

Order == [n \in Names |-> CHOOSE i \in DOMAIN Sorted : Sorted[i] = n]

-----------------------------------------------------------------------------
(* Items *)

AtType(f, args, ty) ==
  [op |-> "use", b |-> f, f |-> f, args |-> [i \in DOMAIN args |-> [b |-> args[i], ty |-> Same]],
   ty |-> ty, to |-> 0]
U(f, args)  == AtType(f, args, Same)
Let(b, use) == [use EXCEPT !.op = "let", !.b = b]
Lambda(b)   == [U(b, <<>>) EXCEPT !.op = "letfn"]
Bare(b)     == [U(b, <<>>) EXCEPT !.op = "closure"]
Scope(b)    == [U(b, <<>>) EXCEPT !.op = "scope"]
Matched(b)  == [U(b, <<>>) EXCEPT !.op = "bind"]

Fun(b)  == [kind |-> "fn", b |-> b]
App(b)  == [kind |-> "app", b |-> b]
Val(b)  == [kind |-> "val", b |-> b]
Expr(b) == [kind |-> "expr", b |-> b]

(* A program from the parameters and bodies that are not empty and the     *)
(* identifiers that are not their binder's own.                            *)
Build(name, params, body, top) ==
  [name   |-> [x \in Binders |-> IF x \in DOMAIN name THEN name[x] ELSE x],
   params |-> [x \in Binders |-> IF x \in DOMAIN params THEN params[x] ELSE <<>>],
   body   |-> [x \in Binders |-> IF x \in DOMAIN body THEN body[x] ELSE <<>>],
   top    |-> top]

-----------------------------------------------------------------------------
(* Programs without two binders of one name *)

FBodies == {<<U("f", <<"a">>)>>, <<U("f", <<"a", "y">>)>>, <<U("a", <<"y">>)>>,
            <<U("print", <<"a">>)>>}

Inits == {U("f", <<"c">>), U("s", <<"c">>)}

HBodies == {<<U("v", <<>>)>>, <<U("h", <<"d">>), U("v", <<>>)>>, <<U("f", <<"d", "y">>)>>,
            <<U("c", <<"d">>), U("v", <<>>)>>, <<U("d", <<>>)>>, <<U("h", <<"d">>)>>}

KBodies == {<<U("h", <<"e">>)>>, <<U("v", <<>>), U("c", <<>>)>>, <<U("s", <<"e">>)>>}

(* What g does with its local lambda h, and the body of k if it has one. *)
Uses1 == {<<U("h", <<"v">>)>>, <<U("f", <<"h">>)>>, <<U("f", <<"h", "c">>)>>,
          <<U("h", <<"c">>), AtType("f", <<"v">>, "str")>>, <<U("g", <<"v">>)>>}
         \X {<<>>}

Uses2 == {<<Bare("k"), U("h", <<"c">>)>>, <<U("h", <<"c">>), Bare("k")>>,
          <<Lambda("k"), U("k", <<"v">>), U("h", <<"c">>)>>}
         \X KBodies

Mains == {<<AtType("g", <<"y">>, "int"), AtType("g", <<"y">>, "str")>>,
          <<AtType("f", <<"g">>, "int")>>, <<U("s", <<>>), AtType("s", <<"y">>, "str")>>}

DistinctPrograms ==
  {Build(<<>>,
         [f |-> p, g |-> <<"c">>, h |-> <<"d">>, k |-> <<"e">>],
         [f |-> f, g |-> <<Let("v", init), Lambda("h")>> \o use[1], h |-> h, k |-> use[2],
          s |-> <<U("f", <<"y">>)>>, main |-> m],
         <<Val("y"), Fun("f"), App("s"), Fun("g"), Expr("main")>>) :
     p \in {<<"a">>, <<"a", "b">>}, f \in FBodies, init \in Inits, h \in HBodies,
     use \in Uses1 \cup Uses2, m \in Mains}

(* Their binders in the order of the source.  What is proved of programs   *)
(* without name clashes is proved of these.                                *)
Source == <<"print", "y", "f", "a", "b", "s", "g", "c", "v", "h", "d", "k", "e", "w", "n",
            "scope", "main">>

Position == [b \in Binders |-> CHOOSE i \in DOMAIN Source : Source[i] = b]

ASSUME DistinctProgramsScoped ==
  \A p \in DistinctPrograms : NamesDistinct(p) /\ MetInOrder(p, Position)

-----------------------------------------------------------------------------
(* Programs with an inner scope whose names may hide those outside it: a   *)
(* value or pattern variable w that may be called v, a local lambda n that *)
(* may be called h.  No lambda has a hidden name free.                     *)

HiddenBodies == {<<U("d", <<>>)>>, <<U("h", <<"d">>)>>, <<U("c", <<"d">>)>>}

InnerBodies == {<<Let("w", U("f", <<"v">>)), U("w", <<>>), U("h", <<"w">>)>>,
                <<Matched("w"), Bare("k")>>,
                <<Lambda("n"), U("n", <<"v">>)>>,
                <<Lambda("n"), Matched("w"), U("f", <<"n">>), U("n", <<"w">>)>>}

OuterUses == {<<U("v", <<>>)>>, <<U("h", <<"v">>)>>, <<U("f", <<"h">>), U("v", <<>>)>>}

ScopedPrograms ==
  {Build([w |-> w, n |-> n],
         [f |-> <<"a">>, g |-> <<"c">>, h |-> <<"d">>, k |-> <<"e">>, n |-> <<"b">>],
         [f |-> f, g |-> <<Let("v", init), Lambda("h"), Scope("scope")>> \o use, h |-> h,
          scope |-> inner, k |-> <<U("w", <<>>), U("e", <<>>)>>,
          n |-> <<U("n", <<"b">>), U("c", <<>>)>>, s |-> <<U("f", <<"y">>)>>, main |-> m],
         <<Val("y"), Fun("f"), App("s"), Fun("g"), Expr("main")>>) :
     w \in {"w", "v"}, n \in {"n", "h"}, f \in {<<U("print", <<"a">>)>>, <<U("a", <<"y">>)>>},
     init \in Inits, h \in HiddenBodies, inner \in InnerBodies, use \in OuterUses, m \in Mains}

AllPrograms == DistinctPrograms \cup ScopedPrograms
=============================================================================
