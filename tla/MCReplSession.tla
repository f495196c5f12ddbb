--------------------------- MODULE MCReplSession ---------------------------
(***************************************************************************)
(* Sessions over a small vocabulary of statements.  `f` and `k` are        *)
(* functions, `g` one made by application, `h` a value that is a function, *)
(* `x` and `y` values; `print` and `itostr` are builtins and `puts` is a   *)
(* function of C.  The type "ii" is int -> int, and so on.                 *)
(***************************************************************************)
EXTENDS ReplSession

MCNames == {"f", "g", "h", "k", "x", "y", "t", "print", "itostr", "puts", "main"}
MCTypes == {"int", "unit", "list", "ii", "iii", "ii-ii", "is", "su"}
MCBuiltinType ==
  [n \in {"print", "itostr"} |-> IF n = "print" THEN "su" ELSE "is"]

Stmt(form, name, type, uses) ==
  [form |-> form, name |-> name, type |-> type, uses |-> uses, fate |-> "lowers"]
But(fate, s) == [s EXCEPT !.fate = fate]
Expr(type, uses) == Stmt("expr", Nothing, type, uses)

F == <<"f", "iii">>
G == <<"g", "ii">>
H == <<"h", "ii">>
K == <<"k", "ii-ii">>
X == <<"x", "int">>
Show == {<<"print", "su">>, <<"itostr", "is">>}

Id == Stmt("lambda", "k", "ii-ii", {})           \* let k = \p => p
Fun == Stmt("lambda", "f", "iii", {X})           \* let f = \a b => a + b + x
Rec == Stmt("lambda", "f", "iii", {F})           \* let f = \a b => f (a - b) b
App == Stmt("apply", "g", "ii", {F})             \* let g = f 1
Lam == Stmt("lambda", "g", "ii", {X})            \* let g = \a => a + x
Loop == Stmt("apply", "g", "ii", {K, G})         \* let g : int -> int = k g
Val == Stmt("other", "h", "ii", {G})             \* let h = if true then g else g
One == Stmt("other", "x", "int", {})             \* let x = 1
Some == Stmt("other", "x", "list", {})           \* let x = [1]
Self == Stmt("other", "x", "int", {X})           \* let x : int = x
Hide == Stmt("lambda", "x", "ii", {})            \* let x = \(a : int) => a
Res == Stmt("apply", "y", "int", {G})            \* let y = g 2
List == Stmt("other", "y", "list", {X})          \* let y = [x]
Type == Stmt("typedecl", "t", Nothing, {})       \* enum t = A | B
Puts == Stmt("other", "puts", "int", {})         \* let puts = 1
Reserved == Stmt("lambda", "print", "ii", {})    \* let print = \(a : int) => a
Main == Stmt("other", "main", "int", {})         \* let main = 1
UseX == Expr("int", {X})                         \* x + 1
UseF == Expr("unit", {F} \cup Show)              \* print (itostr (f 1 2))
UseH == Expr("ii", {H})                          \* h

\* let f = \a b => { let u = \n => n + a; let v = \n => u n; v b }
Siblings == But("refused", Stmt("lambda", "f", "iii", {}))
\* let g = f (match 1 with n -> n | 0 -> 1)
Early == But("refused", Stmt("apply", "g", "ii", {F}))
\* let y = { let a = 1; let c = \n => n + a; let d = c; d x }
Closed == But("refused", Stmt("other", "y", "int", {X}))
\* k g 1
Over == But("panics", Expr("int", {K, G}))

MCStatements ==
  {Id, Fun, Rec, App, Lam, Loop, Val, One, Some, Self, Hide, Res, List, Type, Puts,
   Reserved, Main, UseX, UseF, UseH, Siblings, Early, Closed, Over}

Singly(stmts) == {<<s>> : s \in stmts}

\* Lines of one statement, the line with none (a comment), and lines of two
\* the second of which may be refused.
MCLines ==
  Singly(MCStatements \ {Id, Loop, Reserved, Main})
    \cup {<<>>, <<One, UseF>>, <<UseX, Type>>, <<Fun, Val>>, <<App, Reserved>>}

MCFiles ==
  {<<>>, <<Rec, App>>, <<One, UseX>>, <<One, One>>, <<UseF>>, <<Self>>, <<Main>>,
   <<Loop>>, <<Loop, Res>>, <<App, Over>>, <<Siblings, UseF>>}

MCPrelude == <<Id>>

\* Lines that declare `f` again.
RedeclaringLines == Singly({One, Fun, Rec, UseF})
=============================================================================
