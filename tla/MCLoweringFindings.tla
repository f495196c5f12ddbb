------------------------- MODULE MCLoweringFindings -------------------------
(***************************************************************************)
(* Programs in which two binders have one name, or a lambda is used in a   *)
(* way the comments of src/src/codegen promise and the code does not do.   *)
(* Each family of programs is a run of its own with one property.          *)
(***************************************************************************)
EXTENDS MCLowering

(* `let y = 1; let f = \a => a; let g = \f => f y; g print;` *)
ShadowingPrograms ==
  {Build([c |-> "f"],
         [f |-> <<"a">>, g |-> <<"c">>],
         [f |-> <<U("a", <<>>)>>, g |-> <<U("c", <<"y">>)>>, main |-> <<U("g", <<"print">>)>>],
         <<Val("y"), Fun("f"), Fun("g"), Expr("main")>>)}

(* A name bound by a parameter or a local let is that parameter or let,    *)
(* also where it is applied (apply.rs, lower_application: "The local       *)
(* environment takes precedence over top-level bindings").                 *)
Local(b) == b \notin Builtin /\ \A i \in DOMAIN prog.top : prog.top[i].b # b

LocalShadowsTopLevel == \A r \in refs : Local(r.use) => r.got = r.use

(* `let b = 1; let f = \a b => print a; f b;` *)
SuppliedPrograms ==
  {Build([y |-> "b"],
         [f |-> <<"a", "b">>],
         [f |-> <<U("print", <<"a">>)>>, main |-> <<U("f", <<"y">>)>>],
         <<Val("y"), Fun("f"), Expr("main")>>)}

(* An argument already supplied to a partial application is what it was    *)
(* where the application stands, never one of the parameters left over     *)
(* (apply.rs, lower_partial_application: "they may reference top-level     *)
(* symbols").                                                              *)
SuppliedArgumentsKeepTheirMeaning ==
  \A r \in refs : funcs[r.in].kind = "partial" => r.got = r.use

(* `let f = \a => a; f print y;` *)
OverappliedPrograms ==
  {Build(<<>>,
         [f |-> <<"a">>],
         [f |-> <<U("a", <<>>)>>, main |-> <<U("f", <<"print", "y">>)>>],
         <<Val("y"), Fun("f"), Expr("main")>>)}

(* The wrapper of a partial application has parameters left (apply.rs,     *)
(* lower_partial_application: "it has more parameters than the arguments   *)
(* supplied").                                                             *)
PartialMeansFewer ==
  At("wrap") => Len(Now.args) < Len(prog.params[Now.b])

(* `let f = \a => a; f y; let f = \c => y; f y;` *)
RedefinedPrograms ==
  {Build([g |-> "f"],
         [f |-> <<"a">>, g |-> <<"c">>],
         [f |-> <<U("a", <<>>)>>, g |-> <<U("y", <<>>)>>, k |-> <<U("f", <<"y">>)>>,
          main |-> <<U("g", <<"y">>)>>],
         <<Val("y"), Fun("f"), Expr("k"), Fun("g"), Expr("main")>>)}

(* A top-level use gets the definition made last, whatever the name was    *)
(* used for before (plans/builtins-and-prelude.md: "a user `let map`       *)
(* overwrites").                                                           *)
RedefinitionOverwrites == \A r \in refs : r.in = MainFn => r.got = r.use

-----------------------------------------------------------------------------

(* `let y = 1; let v = 2; let f = \a => y v; let g = \y => f y;            *)
(*  let k = \v => f v; g print; k print;`                                  *)
CapturingPrograms ==
  {Build([c |-> "y", e |-> "v"],
         [f |-> <<"a">>, g |-> <<"c">>, k |-> <<"e">>],
         [f |-> <<U("y", <<>>), U("v", <<>>)>>, g |-> <<U("f", <<"c">>)>>,
          k |-> <<U("f", <<"e">>)>>,
          main |-> <<U("g", <<"print">>), U("k", <<"print">>)>>],
         <<Val("y"), Val("v"), Fun("f"), Fun("g"), Fun("k"), Expr("main")>>)}

(* `let k = \a b e => a; let s = k y; let k = s y; k y;` *)
ReinliningPrograms ==
  {Build([f |-> "k"],
         [f |-> <<"a", "b", "e">>],
         [f |-> <<U("a", <<>>)>>, s |-> <<U("f", <<"y">>)>>, k |-> <<U("s", <<"y">>)>>,
          main |-> <<U("k", <<"y">>)>>],
         <<Val("y"), Fun("f"), App("s"), App("k"), Expr("main")>>)}

(* Inlining a function-valued binding gives a partial or full application  *)
(* of the lambda at its root, never more arguments than any lambda of the  *)
(* program has parameters (stmt.rs, lower_decl: "so partial applications   *)
(* become full applications").                                             *)
InliningFindsTheLambda ==
  At("use") => \E b \in Binder : Len(Now.args) <= Len(prog.params[b])

(* `let g = \c => let h = \d => d in let k = \e => h e in k c; g y;` *)
SiblingPrograms ==
  {Build(<<>>,
         [g |-> <<"c">>, h |-> <<"d">>, k |-> <<"e">>],
         [g |-> <<Lambda("h"), Lambda("k"), U("k", <<"c">>)>>, h |-> <<U("d", <<>>)>>,
          k |-> <<U("h", <<"e">>)>>, main |-> <<U("g", <<"y">>)>>],
         <<Val("y"), Fun("g"), Expr("main")>>)}

(* A local lambda is specialized at every use of its name in its scope     *)
(* (apply.rs, bind_in_env: "specialized on demand at each use of `name`"). *)
LocalLambdasAreInScope == outcome # "error"

(* `let let_0 = \a => a; let g = \c => let h = \d => d in h c; g y;` *)
RegistryPrograms ==
  {Build([f |-> "let_0"],
         [f |-> <<"a">>, g |-> <<"c">>, h |-> <<"d">>],
         [f |-> <<U("a", <<>>)>>, g |-> <<Lambda("h"), U("h", <<"c">>)>>,
          h |-> <<U("d", <<>>)>>, main |-> <<U("g", <<"y">>), U("f", <<"y">>)>>],
         <<Val("y"), Fun("f"), Fun("g"), Expr("main")>>)}

(* A local lambda never takes the place of another registered one (mod.rs, *)
(* let_counter: "for unique registry names").                              *)
RegistryNamesUnique ==
  [][\A n \in DOMAIN abstractions :
       stack # <<>> => abstractions'[n] = abstractions[n]]_abstractions
=============================================================================
