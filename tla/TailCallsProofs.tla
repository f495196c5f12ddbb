--------------------------- MODULE TailCallsProofs ---------------------------
(***************************************************************************)
(* A self tail call finds the loop header it jumps to, and what it jumps   *)
(* with is what the call would have been made with.                        *)
(***************************************************************************)
EXTENDS TailCalls, SequenceTheorems, WellFoundedInduction, TLAPS

-----------------------------------------------------------------------------
(* Syntax *)

LEMMA ExprShape ==
  ASSUME NEW E, NEW e \in ExprsOf(E)
  PROVE  /\ e.k \in {"ret", "if", "match", "let", "block", "app"}
         /\ e.k = "ret" \/ Branches(e) => e.a \in Operands
         /\ Branches(e) => e.then \in E /\ e.else \in E
         /\ e.k = "match" => e.x \in Names
         /\ Declares(e) => e.x \in Names /\ e.e \in E /\ e.r \in InitializersOf(E)
         /\ e.k = "app" => e.f \in Names /\ e.as \in Seq(Operands)
<1>1. CASE e \in [k : {"ret"}, a : Operands]
  BY <1>1 DEF Branches, Declares
<1>2. CASE e \in [k : {"if"}, a : Operands, then : E, else : E]
  BY <1>2 DEF Branches, Declares
<1>3. CASE e \in [k : {"match"}, a : Operands, then : E, x : Names, else : E]
  BY <1>3 DEF Branches, Declares
<1>4. CASE e \in [k : {"let", "block"}, x : Names, r : InitializersOf(E), e : E]
  BY <1>4 DEF Branches, Declares
<1>5. CASE e \in [k : {"app"}, f : Names, as : Seq(Operands)]
  BY <1>5 DEF Branches, Declares
<1> QED
  BY <1>1, <1>2, <1>3, <1>4, <1>5 DEF ExprsOf

LEMMA InitializerShape ==
  ASSUME NEW E, NEW r \in InitializersOf(E)
  PROVE  /\ r.k \in {"atom", "call", "lambda"}
         /\ r.k = "atom" => r.a \in Operands
         /\ r.k = "call" => r.f \in Names /\ r.as \in Seq(Operands)
         /\ r.k = "lambda" => r.f \in LambdasOf(E)
<1>1. CASE r \in [k : {"atom"}, a : Operands]
  BY <1>1
<1>2. CASE r \in [k : {"call"}, f : Names, as : Seq(Operands)]
  BY <1>2
<1>3. CASE r \in [k : {"lambda"}, f : LambdasOf(E)]
  BY <1>3
<1> QED
  BY <1>1, <1>2, <1>3 DEF InitializersOf

LEMMA LambdasGrow ==
  ASSUME NEW E, NEW F, E \subseteq F, NEW f \in LambdasOf(E)
  PROVE  f \in LambdasOf(F)
BY DEF LambdasOf

(* The parts of an expression are expressions of the same program.         *)
LEMMA ProgramShape ==
  ASSUME NEW p \in Programs, NEW e \in Exprs(p)
  PROVE  /\ e \in ExprsOf(Exprs(p))
         /\ e \in AllExprs
         /\ Depth(e) \in Nat
         /\ \A d \in Parts(e) : d \in Exprs(p) /\ Depth(d) \in Nat /\ Depth(d) < Depth(e)
<1>1. e \in ExprsOf(Exprs(p)) /\ e \in AllExprs
  BY TailCallsAssumption DEF AllExprs
<1>2. \A d \in Parts(e) : d \in Exprs(p)
  <2>1. CASE Branches(e)
    <3>1. e.then \in Exprs(p) /\ e.else \in Exprs(p)
      BY <1>1, <2>1, ExprShape
    <3>2. Parts(e) = {e.then, e.else}
      BY <2>1 DEF Parts, Branches, Declares
    <3> QED
      BY <3>1, <3>2
  <2>2. CASE Declares(e) /\ ~Branches(e)
    <3>1. e.e \in Exprs(p) /\ e.r \in InitializersOf(Exprs(p))
      BY <1>1, <2>2, ExprShape
    <3>2. e.r.k = "lambda" => e.r.f.body \in Exprs(p)
      BY <3>1, InitializerShape DEF LambdasOf
    <3> QED
      BY <2>2, <3>1, <3>2 DEF Parts
  <2>3. CASE ~Declares(e) /\ ~Branches(e)
    BY <2>3 DEF Parts
  <2> QED
    BY <2>1, <2>2, <2>3
<1>3. \A d \in Parts(e) : d \in AllExprs
  BY <1>2 DEF AllExprs
<1> QED
  BY <1>1, <1>2, <1>3, TailCallsAssumption

LEMMA AllShape ==
  ASSUME NEW e \in AllExprs
  PROVE  /\ e.k \in {"ret", "if", "match", "let", "block", "app"}
         /\ e.k = "ret" \/ Branches(e) => e.a \in Operands
         /\ Branches(e) => e.then \in AllExprs /\ e.else \in AllExprs
         /\ e.k = "match" => e.x \in Names
         /\ Declares(e) => e.x \in Names /\ e.e \in AllExprs /\ e.r \in InitializersOf(AllExprs)
         /\ e.k = "app" => e.f \in Names /\ e.as \in Seq(Operands)
         /\ Depth(e) \in Nat
         /\ \A d \in Parts(e) : d \in AllExprs /\ Depth(d) \in Nat /\ Depth(d) < Depth(e)
<1>1. PICK p \in Programs : e \in Exprs(p)
  BY DEF AllExprs
<1>2. Exprs(p) \subseteq AllExprs
  BY DEF AllExprs
<1>3. e \in ExprsOf(Exprs(p))
  BY <1>1, ProgramShape
<1>4. ASSUME NEW r \in InitializersOf(Exprs(p)) PROVE r \in InitializersOf(AllExprs)
  <2>1. CASE r \in [k : {"lambda"}, f : LambdasOf(Exprs(p))]
    <3>1. r.f \in LambdasOf(AllExprs) /\ r = [k |-> "lambda", f |-> r.f]
      BY <2>1, <1>2, LambdasGrow
    <3> QED
      BY <3>1 DEF InitializersOf
  <2> QED
    BY <2>1 DEF InitializersOf
<1>5. /\ e.k \in {"ret", "if", "match", "let", "block", "app"}
      /\ e.k = "ret" \/ Branches(e) => e.a \in Operands
      /\ Branches(e) => e.then \in Exprs(p) /\ e.else \in Exprs(p)
      /\ e.k = "match" => e.x \in Names
      /\ Declares(e) => e.x \in Names /\ e.e \in Exprs(p) /\ e.r \in InitializersOf(Exprs(p))
      /\ e.k = "app" => e.f \in Names /\ e.as \in Seq(Operands)
  BY <1>3, ExprShape
<1>6. /\ Depth(e) \in Nat
      /\ \A d \in Parts(e) : d \in Exprs(p) /\ Depth(d) \in Nat /\ Depth(d) < Depth(e)
  BY <1>1, ProgramShape
<1> QED
  BY <1>2, <1>4, <1>5, <1>6

-----------------------------------------------------------------------------
(* Functions that are defined by their values for what is ranked lower     *)
(* exist.                                                                  *)

LessThan == {pair \in Nat \X Nat : pair[1] < pair[2]}

LEMMA Least ==
  ASSUME NEW T \in SUBSET Nat, T # {}
  PROVE  \E m \in T : \A k \in T : m <= k
<1>1. IsWellFoundedOn(LessThan, Nat)
  BY NatLessThanWellFounded DEF OpToRel, LessThan
<1>2. PICK m \in T : \A k \in T : <<k, m>> \notin LessThan
  BY <1>1, WFMin
<1>3. ASSUME NEW k \in T PROVE m <= k
  <2>1. <<k, m>> \in Nat \X Nat
    OBVIOUS
  <2>2. ~ (k < m)
    BY <1>2, <2>1 DEF LessThan
  <2> QED
    BY <2>2
<1> QED
  BY <1>3

(* Induction over Nat, for a set of good numbers.                          *)
LEMMA Induction ==
  ASSUME NEW Good, 0 \in Good, \A n \in Nat : n \in Good => n + 1 \in Good
  PROVE  Nat \subseteq Good
<1> DEFINE Bad == {n \in Nat : n \notin Good}
<1> SUFFICES ASSUME Bad # {} PROVE FALSE
  OBVIOUS
<1>1. PICK m \in Bad : \A k \in Bad : m <= k
  <2>1. Bad \in SUBSET Nat
    OBVIOUS
  <2> HIDE DEF Bad
  <2> QED
    BY <2>1, Least
<1>2. m \in Nat /\ m # 0
  OBVIOUS
<1>3. m - 1 \in Nat /\ m - 1 \notin Bad
  BY <1>1, <1>2
<1>4. m - 1 \in Good
  BY <1>3
<1>5. (m - 1) + 1 \in Good
  BY <1>3, <1>4
<1>6. m \in Good
  BY <1>2, <1>5
<1> QED
  BY <1>6

Ranked(rank, D) == rank \in [D -> Nat]

(* A step that looks at a function's values for what is ranked lower only. *)
FromBelow(step, rank, D, S) ==
  /\ step \in [[D -> S] \X D -> S]
  /\ \A f, g \in [D -> S] : \A d \in D :
       (\A e \in D : rank[e] < rank[d] => f[e] = g[e]) => step[<<f, d>>] = step[<<g, d>>]

Follows(f, step, D) == \A d \in D : f[d] = step[<<f, d>>]

LEMMA Recursion ==
  ASSUME NEW D, NEW S, NEW zero \in S, NEW rank, Ranked(rank, D), NEW step, FromBelow(step, rank, D, S)
  PROVE  \E f \in [D -> S] : Follows(f, step, D)
<1> DEFINE Fns == [D -> S]
           UpTo(f, n) == \A d \in D : rank[d] < n => f[d] = step[<<f, d>>]
<1>0. /\ \A d \in D : rank[d] \in Nat
      /\ \A f \in Fns : \A d \in D : step[<<f, d>>] \in S
  BY DEF Ranked, FromBelow
<1>00. \A f, g \in Fns : \A d \in D :
         (\A e \in D : rank[e] < rank[d] => f[e] = g[e]) => step[<<f, d>>] = step[<<g, d>>]
  BY DEF FromBelow
<1>1. ASSUME NEW n \in Nat PROVE \E f \in Fns : UpTo(f, n)
  <2> DEFINE Good == {k \in Nat : \E f \in Fns : UpTo(f, k)}
  <2>1. 0 \in Good
    <3> DEFINE none == [d \in D |-> zero]
    <3>1. none \in Fns /\ \A d \in D : ~(rank[d] < 0)
      BY <1>0
    <3> HIDE DEF none
    <3> QED
      BY <3>1
  <2>2. ASSUME NEW k \in Nat, k \in Good PROVE k + 1 \in Good
    <3>1. PICK f \in Fns : UpTo(f, k)
      BY <2>2
    <3> DEFINE g == [d \in D |-> step[<<f, d>>]]
    <3>2. g \in Fns /\ \A d \in D : g[d] = step[<<f, d>>]
      BY <1>0
    <3> HIDE DEF g
    <3>3. ASSUME NEW d \in D, rank[d] < k + 1 PROVE g[d] = step[<<g, d>>]
      <4>1. ASSUME NEW e \in D, rank[e] < rank[d] PROVE g[e] = f[e]
        <5>1. rank[e] < k
          BY <1>0, <3>3, <4>1
        <5> QED
          BY <3>1, <3>2, <5>1
      <4>2. step[<<g, d>>] = step[<<f, d>>]
        BY <1>00, <3>2, <4>1
      <4> QED
        BY <3>2, <4>2
    <3> QED
      BY <3>2, <3>3
  <2> HIDE DEF Good
  <2>3. n \in Good
    BY <2>1, <2>2, Induction
  <2> QED
    BY <2>3 DEF Good
<1>2. ASSUME NEW f \in Fns, NEW g \in Fns, NEW n \in Nat, UpTo(f, n), UpTo(g, n)
      PROVE  \A d \in D : rank[d] < n => f[d] = g[d]
  <2> DEFINE Good == {k \in Nat : k <= n => \A d \in D : rank[d] < k => f[d] = g[d]}
  <2>1. 0 \in Good
    BY <1>0
  <2>2. ASSUME NEW k \in Nat, k \in Good PROVE k + 1 \in Good
    <3> SUFFICES ASSUME k + 1 <= n, NEW d \in D, rank[d] < k + 1 PROVE f[d] = g[d]
      OBVIOUS
    <3>1. \A e \in D : rank[e] < rank[d] => f[e] = g[e]
      <4> SUFFICES ASSUME NEW e \in D, rank[e] < rank[d] PROVE f[e] = g[e]
        OBVIOUS
      <4>1. rank[e] < k /\ k <= n
        BY <1>0
      <4> QED
        BY <2>2, <4>1
    <3>2. step[<<f, d>>] = step[<<g, d>>]
      BY <1>00, <3>1
    <3>3. rank[d] < n
      BY <1>0
    <3> QED
      BY <1>2, <3>2, <3>3
  <2> HIDE DEF Good
  <2>3. n \in Good
    BY <2>1, <2>2, Induction
  <2> QED
    BY <2>3 DEF Good
<1> DEFINE at == [n \in Nat |-> CHOOSE f \in Fns : UpTo(f, n)]
           limit == [d \in D |-> at[rank[d] + 1][d]]
<1>3. ASSUME NEW n \in Nat PROVE at[n] \in Fns /\ UpTo(at[n], n)
  <2>1. at[n] = CHOOSE f \in Fns : UpTo(f, n)
    OBVIOUS
  <2> HIDE DEF UpTo, at, Fns
  <2> QED
    BY <1>1, <2>1
<1> HIDE DEF at
<1>4. limit \in Fns /\ \A d \in D : limit[d] = at[rank[d] + 1][d]
  <2>1. \A d \in D : at[rank[d] + 1][d] \in S
    <3> SUFFICES ASSUME NEW d \in D PROVE at[rank[d] + 1][d] \in S
      OBVIOUS
    <3>1. at[rank[d] + 1] \in Fns
      BY <1>0, <1>3
    <3> QED
      BY <3>1
  <2> QED
    BY <2>1
<1> HIDE DEF limit
<1>5. ASSUME NEW d \in D PROVE limit[d] = step[<<limit, d>>]
  <2> DEFINE n == rank[d] + 1
  <2>1. n \in Nat /\ rank[d] < n
    BY <1>0
  <2>2. at[n] \in Fns /\ at[n][d] = step[<<at[n], d>>] /\ UpTo(at[n], n)
    BY <1>3, <2>1
  <2>3. ASSUME NEW e \in D, rank[e] < rank[d] PROVE limit[e] = at[n][e]
    <3> DEFINE k == rank[e] + 1
    <3>1. k \in Nat /\ k <= n /\ rank[e] < k
      BY <1>0, <2>3
    <3>2. at[k] \in Fns /\ UpTo(at[k], k)
      BY <1>3, <3>1
    <3>3. UpTo(at[n], k)
      <4> SUFFICES ASSUME NEW u \in D, rank[u] < k PROVE at[n][u] = step[<<at[n], u>>]
        OBVIOUS
      <4>1. rank[u] \in Nat
        BY <1>0
      <4>2. rank[u] < n
        <5> HIDE DEF k, n
        <5> QED
          BY <2>1, <3>1, <4>1
      <4> QED
        BY <2>2, <4>2
    <3> HIDE DEF k, n, UpTo, Fns
    <3>4. at[k][e] = at[n][e]
      BY <1>2, <2>2, <3>1, <3>2, <3>3
    <3> QED
      BY <1>4, <3>1, <3>4 DEF k
  <2>4. step[<<limit, d>>] = step[<<at[n], d>>]
    <3> HIDE DEF n
    <3> QED
      BY <1>00, <2>2, <2>3, <1>4
  <2> QED
    BY <2>2, <2>4, <1>4
<1> QED
  BY <1>4, <1>5 DEF Follows

(* One unfolding of has_self_tail_call.                                    *)
TailCallsBelow(f, e) ==
  CASE e.k = "if"    -> f[e.then] \cup f[e.else]
    [] e.k = "match" -> f[e.then] \cup Unhidden(f[e.else], e.x)
    [] Declares(e)   -> Unhidden(f[e.e], e.x)
    [] e.k = "app"   -> {<<e.f, Len(e.as)>>}
    [] OTHER -> {}

LEMMA TailCallsEquation ==
  \A e \in AllExprs : TailCallsOf[e] = TailCallsBelow(TailCallsOf, e)
<1> DEFINE S == SUBSET (Names \X Nat)
           Fns == [AllExprs -> S]
           Fixed(f) == f = [e \in AllExprs |->
             CASE e.k = "if"    -> f[e.then] \cup f[e.else]
               [] e.k = "match" -> f[e.then] \cup Unhidden(f[e.else], e.x)
               [] Declares(e)   -> Unhidden(f[e.e], e.x)
               [] e.k = "app"   -> {<<e.f, Len(e.as)>>}
               [] OTHER -> {}]
           rank == [e \in AllExprs |-> Depth(e)]
           step == [p \in Fns \X AllExprs |-> TailCallsBelow(p[1], p[2])]
<1>1. ASSUME NEW f \in Fns, NEW e \in AllExprs PROVE TailCallsBelow(f, e) \in S
  <2>1. CASE e.k = "if"
    <3>1. f[e.then] \in S /\ f[e.else] \in S
      BY <2>1, AllShape DEF Branches
    <3> QED
      BY <2>1, <3>1 DEF TailCallsBelow, Declares
  <2>2. CASE e.k = "match"
    <3>1. f[e.then] \in S /\ f[e.else] \in S
      BY <2>2, AllShape DEF Branches
    <3> QED
      BY <2>2, <3>1 DEF TailCallsBelow, Unhidden, Declares
  <2>3. CASE Declares(e)
    <3>1. f[e.e] \in S
      BY <2>3, AllShape
    <3> QED
      BY <2>3, <3>1 DEF TailCallsBelow, Unhidden, Declares
  <2>4. CASE e.k = "app"
    <3>1. e.f \in Names /\ Len(e.as) \in Nat
      BY <2>4, AllShape
    <3> QED
      BY <2>4, <3>1 DEF TailCallsBelow, Declares
  <2>5. CASE e.k = "ret"
    BY <2>5 DEF TailCallsBelow, Declares
  <2> QED
    BY <2>1, <2>2, <2>3, <2>4, <2>5, AllShape DEF Declares
<1>2. ASSUME NEW f \in Fns, NEW g \in Fns, NEW e \in AllExprs,
             \A d \in AllExprs : Depth(d) < Depth(e) => f[d] = g[d]
      PROVE  TailCallsBelow(f, e) = TailCallsBelow(g, e)
  <2>1. \A d \in Parts(e) : f[d] = g[d]
    BY <1>2, AllShape
  <2>2. CASE Branches(e)
    <3>1. f[e.then] = g[e.then] /\ f[e.else] = g[e.else]
      BY <2>1, <2>2 DEF Parts, Branches, Declares
    <3> QED
      BY <2>2, <3>1 DEF TailCallsBelow, Branches, Declares
  <2>3. CASE Declares(e)
    <3>1. f[e.e] = g[e.e]
      BY <2>1, <2>3 DEF Parts, Branches, Declares
    <3> QED
      BY <2>3, <3>1 DEF TailCallsBelow, Declares
  <2>4. CASE ~Branches(e) /\ ~Declares(e)
    BY <2>4 DEF TailCallsBelow, Branches
  <2> QED
    BY <2>2, <2>3, <2>4
<1>3. PICK f \in Fns : \A e \in AllExprs : f[e] = TailCallsBelow(f, e)
  <2>1. {} \in S
    OBVIOUS
  <2>2. Ranked(rank, AllExprs) /\ \A e \in AllExprs : rank[e] = Depth(e)
    BY AllShape DEF Ranked
  <2>3. \A g \in Fns : \A e \in AllExprs : step[<<g, e>>] = TailCallsBelow(g, e)
    OBVIOUS
  <2>4. step \in [Fns \X AllExprs -> S]
    BY <1>1
  <2> HIDE DEF rank, step
  <2>5. FromBelow(step, rank, AllExprs, S)
    <3>1. ASSUME NEW h \in Fns, NEW g \in Fns, NEW e \in AllExprs,
                 \A d \in AllExprs : rank[d] < rank[e] => h[d] = g[d]
          PROVE  step[<<h, e>>] = step[<<g, e>>]
      <4>1. \A d \in AllExprs : Depth(d) < Depth(e) => h[d] = g[d]
        BY <2>2, <3>1
      <4>2. TailCallsBelow(h, e) = TailCallsBelow(g, e)
        BY <1>2, <4>1
      <4> QED
        BY <2>3, <4>2
    <3> HIDE DEF S
    <3> QED
      BY <2>4, <3>1 DEF FromBelow
  <2>6. \E g \in Fns : \A e \in AllExprs : g[e] = step[<<g, e>>]
    <3> HIDE DEF S
    <3>1. \E g \in [AllExprs -> S] : Follows(g, step, AllExprs)
      BY <2>1, <2>2, <2>5, Recursion, Zenon
    <3> QED
      BY <3>1 DEF Follows
  <2> QED
    BY <2>3, <2>6
<1>4. Fixed(f)
  BY <1>3 DEF TailCallsBelow
<1>5. TailCallsOf = CHOOSE g : Fixed(g)
  BY DEF TailCallsOf
<1>6. Fixed(TailCallsOf)
  <2> HIDE DEF Fixed
  <2> QED
    BY <1>4, <1>5
<1> DEFINE g == TailCallsOf
<1>7. Fixed(g)
  BY <1>6
<1> HIDE DEF g
<1>8. g = [e \in AllExprs |-> TailCallsBelow(g, e)]
  BY <1>7 DEF TailCallsBelow
<1>9. \A e \in AllExprs : g[e] = TailCallsBelow(g, e)
  BY <1>8
<1> QED
  BY <1>9 DEF g

-----------------------------------------------------------------------------
(* Calls of well-typed expressions                                         *)

LEMMA OperandShape ==
  ASSUME NEW a \in Operands
  PROVE  /\ a.k \in {"int", "name", "plus", "less"}
         /\ a.k \in {"int", "less"} => a.n \in Int
         /\ a.k \in {"name", "plus", "less"} => a.x \in Names
         /\ a.k = "plus" => a.y \in Names
<1>1. CASE a \in [k : {"int"}, n : Int]
  BY <1>1
<1>2. CASE a \in [k : {"name"}, x : Names]
  BY <1>2
<1>3. CASE a \in [k : {"plus"}, x : Names, y : Names]
  BY <1>3
<1>4. CASE a \in [k : {"less"}, x : Names, n : Int]
  BY <1>4
<1> QED
  BY <1>1, <1>2, <1>3, <1>4 DEF Operands

LEMMA ValueEntry ==
  ASSUME NEW env \in Envs, NEW x \in Names
  PROVE  /\ env[x] \in Entries
         /\ IsValue(env, x) => env[x].v \in Int
         /\ IsLambda(env, x) => env[x].f \in LambdasOf(AllExprs)
<1>1. env[x] \in Entries
  BY DEF Envs
<1>2. CASE env[x] = Unbound
  BY <1>1, <1>2 DEF Unbound, IsValue, IsLambda
<1>3. CASE env[x] \in [is : {"value"}, v : Int]
  BY <1>1, <1>3 DEF IsValue, IsLambda
<1>4. CASE env[x] \in [is : {"lambda"}, f : LambdasOf(AllExprs)]
  BY <1>1, <1>4 DEF IsValue, IsLambda
<1> QED
  BY <1>1, <1>2, <1>3, <1>4 DEF Entries

LEMMA EntriesMade ==
  /\ Unbound \in Entries
  /\ \A v \in Int : Value(v) \in Entries
  /\ \A f \in LambdasOf(AllExprs) : Lambda(f) \in Entries
BY DEF Entries, Value, Lambda

LEMMA WithType ==
  ASSUME NEW env \in Envs, NEW x \in Names, NEW entry \in Entries
  PROVE  /\ With(env, x, entry) \in Envs
         /\ \A y \in Names : With(env, x, entry)[y] = IF y = x THEN entry ELSE env[y]
BY DEF Envs, With

LEMMA AtomInt ==
  ASSUME NEW a \in Operands, NEW env \in Envs, \A x \in NamesIn(a) : IsValue(env, x)
  PROVE  Atom(a, env) \in Int
<1>1. CASE a.k = "int"
  BY <1>1, OperandShape DEF Atom
<1>2. CASE a.k = "name"
  <2>1. a.x \in Names /\ IsValue(env, a.x)
    BY <1>2, OperandShape DEF NamesIn
  <2> QED
    BY <1>2, <2>1, ValueEntry DEF Atom
<1>3. CASE a.k = "plus"
  <2>1. a.x \in Names /\ a.y \in Names /\ IsValue(env, a.x) /\ IsValue(env, a.y)
    BY <1>3, OperandShape DEF NamesIn
  <2>2. env[a.x].v \in Int /\ env[a.y].v \in Int
    BY <2>1, ValueEntry
  <2> QED
    BY <1>3, <2>2 DEF Atom
<1>4. CASE a.k = "less"
  <2>1. a.x \in Names /\ a.n \in Int /\ IsValue(env, a.x)
    BY <1>4, OperandShape DEF NamesIn
  <2>2. env[a.x].v \in Int
    BY <2>1, ValueEntry
  <2> QED
    BY <1>4, <2>1, <2>2 DEF Atom
<1> QED
  BY <1>1, <1>2, <1>3, <1>4, OperandShape

Readable(ops, env) == \A a \in ToSet(ops) : \A x \in NamesIn(a) : IsValue(env, x)

LEMMA AtomsInt ==
  ASSUME NEW ops \in Seq(Operands), NEW env \in Envs, Readable(ops, env)
  PROVE  Atoms(ops, env) \in Seq(Int) /\ Len(Atoms(ops, env)) = Len(ops)
<1>1. ASSUME NEW i \in DOMAIN ops PROVE Atom(ops[i], env) \in Int
  <2>1. ops[i] \in Operands /\ ops[i] \in ToSet(ops)
    BY DEF ToSet
  <2>2. \A x \in NamesIn(ops[i]) : IsValue(env, x)
    BY <2>1 DEF Readable
  <2> QED
    BY <2>1, <2>2, AtomInt
<1>2. DOMAIN ops = 1 .. Len(ops) /\ Len(ops) \in Nat
  OBVIOUS
<1> QED
  BY <1>1, <1>2 DEF Atoms

LEMMA CalleeShape ==
  ASSUME NEW p \in Programs, NEW env \in Envs, NEW x \in Names,
         IsLambda(env, x) \/ x \in DOMAIN p.globals
  PROVE  Callee(p, env, x) \in LambdasOf(AllExprs)
<1>1. CASE IsLambda(env, x)
  BY <1>1, ValueEntry DEF Callee
<1>2. CASE ~IsLambda(env, x)
  <2>1. p.globals[x] \in LambdasOf(Exprs(p)) /\ Exprs(p) \subseteq AllExprs
    BY <1>2, TailCallsAssumption DEF AllExprs
  <2>2. p.globals[x] \in LambdasOf(AllExprs)
    BY <2>1, LambdasGrow
  <2> QED
    BY <1>2, <2>2 DEF Callee
<1> QED
  BY <1>1, <1>2

LEMMA LambdaShape ==
  ASSUME NEW E, NEW f \in LambdasOf(E)
  PROVE  f.params \in Seq(Names) /\ f.free \subseteq Names /\ f.body \in E
BY DEF LambdasOf

LEMMA InputsType ==
  ASSUME NEW spec, spec.f \in LambdasOf(AllExprs), NEW env \in Envs,
         NEW args \in Seq(Int), Len(args) = Len(spec.f.params)
  PROVE  /\ Inputs(spec, env, args) \in Envs
         /\ \A x \in Names : IsLambda(Inputs(spec, env, args), x) =>
              \/ x = spec.self /\ Inputs(spec, env, args)[x] = Lambda(spec.f)
              \/ x \in spec.captures /\ Inputs(spec, env, args)[x] = env[x]
<1> DEFINE params == spec.f.params
           Param(x) == CHOOSE i \in DOMAIN params : params[i] = x
           at == Inputs(spec, env, args)
<1>0. params \in Seq(Names) /\ DOMAIN params = DOMAIN args
  <2>1. params \in Seq(Names)
    BY LambdaShape
  <2> QED
    BY <2>1
<1>1. at = [x \in Names |->
              IF x = spec.self /\ spec.self # spec.f.sym THEN Lambda(spec.f)
              ELSE IF x \in ToSet(params) THEN Value(args[Param(x)])
              ELSE IF x \in spec.captures THEN env[x]
              ELSE Unbound]
  BY DEF Inputs
<1>2. ASSUME NEW x \in Names, x \in ToSet(params) PROVE args[Param(x)] \in Int
  <2>1. \E i \in DOMAIN params : params[i] = x
    BY <1>2 DEF ToSet
  <2>2. Param(x) \in DOMAIN args
    BY <1>0, <2>1
  <2> QED
    BY <2>2
<1>3. ASSUME NEW x \in Names
      PROVE  /\ at[x] \in Entries
             /\ IsLambda(at, x) => \/ x = spec.self /\ at[x] = Lambda(spec.f)
                                   \/ x \in spec.captures /\ at[x] = env[x]
  <2> HIDE DEF Param
  <2>1. CASE x = spec.self /\ spec.self # spec.f.sym
    BY <1>1, <2>1, EntriesMade
  <2>2. CASE ~(x = spec.self /\ spec.self # spec.f.sym) /\ x \in ToSet(params)
    <3>1. at[x] = Value(args[Param(x)])
      BY <1>1, <2>2
    <3>2. args[Param(x)] \in Int
      BY <1>2, <2>2
    <3> QED
      BY <3>1, <3>2, EntriesMade DEF IsLambda, Value
  <2>3. CASE ~(x = spec.self /\ spec.self # spec.f.sym) /\ x \notin ToSet(params) /\ x \in spec.captures
    BY <1>1, <2>3, ValueEntry
  <2>4. CASE ~(x = spec.self /\ spec.self # spec.f.sym) /\ x \notin ToSet(params) /\ x \notin spec.captures
    BY <1>1, <2>4, EntriesMade DEF IsLambda, Unbound
  <2> QED
    BY <2>1, <2>2, <2>3, <2>4
<1>4. at \in Envs
  <2> HIDE DEF Param
  <2>1. DOMAIN at = Names /\ at = [x \in Names |-> at[x]]
    BY <1>1
  <2> HIDE DEF at
  <2> QED
    BY <2>1, <1>3 DEF Envs
<1> QED
  BY <1>3, <1>4

(* Where a call goes: the specialization and its inputs.                   *)
SpecOf(p, call, env) == Spec(Callee(p, env, call.f), call.f, env)
Entered(p, call, env) == Inputs(SpecOf(p, call, env), env, Atoms(call.as, env))
Target(p, call, env) == <<p, SpecOf(p, call, env).f.body, Entered(p, call, env)>>

LEMMA CallShape ==
  ASSUME NEW p \in Programs, NEW e \in AllExprs, NEW env \in Envs, WellTyped(p, e, env), Calls(e),
         NEW call, call = TheCall(e)
  PROVE  /\ call.f \in Names
         /\ call.as \in Seq(Operands)
         /\ Callee(p, env, call.f) \in LambdasOf(AllExprs)
         /\ SpecOf(p, call, env).f = Callee(p, env, call.f)
         /\ SpecOf(p, call, env).self = call.f
         /\ SpecOf(p, call, env).captures = Captures(Callee(p, env, call.f), env)
         /\ Atoms(call.as, env) \in Seq(Int)
         /\ Len(Atoms(call.as, env)) = Len(Callee(p, env, call.f).params)
         /\ Entered(p, call, env) \in Envs
         /\ Target(p, call, env) \in Configs
<1>1. call.f \in Names /\ call.as \in Seq(Operands)
  <2>1. CASE e.k = "app"
    BY <2>1, AllShape DEF TheCall
  <2>2. CASE e.k # "app"
    <3>1. e.r \in InitializersOf(AllExprs) /\ e.r.k = "call"
      BY <2>2, AllShape DEF Calls
    <3> QED
      BY <2>2, <3>1, InitializerShape DEF TheCall
  <2> QED
    BY <2>1, <2>2
<1>2. Read(e) = ToSet(call.as)
  BY DEF Read, Calls, Branches, Declares
<1>3. /\ IsLambda(env, call.f) \/ call.f \in DOMAIN p.globals
      /\ Len(call.as) = Len(Callee(p, env, call.f).params)
      /\ Readable(call.as, env)
  BY <1>2 DEF WellTyped, Readable
<1>4. Callee(p, env, call.f) \in LambdasOf(AllExprs)
  BY <1>1, <1>3, CalleeShape
<1>5. Atoms(call.as, env) \in Seq(Int) /\ Len(Atoms(call.as, env)) = Len(call.as)
  BY <1>1, <1>3, AtomsInt
<1>6. /\ SpecOf(p, call, env).f = Callee(p, env, call.f)
      /\ SpecOf(p, call, env).self = call.f
      /\ SpecOf(p, call, env).captures = Captures(Callee(p, env, call.f), env)
  BY DEF SpecOf, Spec
<1>7. Entered(p, call, env) \in Envs
  BY <1>3, <1>4, <1>5, <1>6, InputsType DEF Entered
<1>8. Callee(p, env, call.f).body \in AllExprs
  BY <1>4, LambdaShape
<1>9. Target(p, call, env) \in Configs
  BY <1>6, <1>7, <1>8 DEF Target, Configs
<1> QED
  BY <1>1, <1>3, <1>4, <1>5, <1>6, <1>7, <1>9

-----------------------------------------------------------------------------
(* The reference evaluation                                                *)

(* Where an expression goes on that makes no call, its environment bound.  *)
After(p, e, env) ==
  CASE e.k = "if" -> <<p, IF Atom(e.a, env) = 0 THEN e.then ELSE e.else, env>>
    [] e.k = "match" -> IF Atom(e.a, env) = 0 THEN <<p, e.then, env>>
                        ELSE <<p, e.else, With(env, e.x, Value(Atom(e.a, env)))>>
    [] Declares(e) -> <<p, e.e, With(env, e.x, IF e.r.k = "atom" THEN Value(Atom(e.r.a, env))
                                               ELSE Lambda(e.r.f))>>
Resumed(p, e, env, v) == <<p, e.e, With(env, e.x, Value(v))>>

Moves(e) == Branches(e) \/ (Declares(e) /\ e.r.k # "call")
BindsCall(e) == Declares(e) /\ e.r.k = "call"

LEMMA KindsOfStep ==
  ASSUME NEW e \in AllExprs
  PROVE  e.k = "ret" \/ Moves(e) \/ e.k = "app" \/ BindsCall(e)
BY AllShape DEF Moves, BindsCall, Branches, Declares

LEMMA UnfoldedIs ==
  ASSUME NEW ev, NEW p, NEW e \in AllExprs, NEW env
  PROVE  /\ e.k = "ret" => Unfolded(ev, p, e, env) = {Atom(e.a, env)}
         /\ Moves(e) => Unfolded(ev, p, e, env) = ev[After(p, e, env)]
         /\ e.k = "app" => Unfolded(ev, p, e, env) = ev[Target(p, e, env)]
         /\ BindsCall(e) => Unfolded(ev, p, e, env)
                           = UNION {ev[Resumed(p, e, env, v)] : v \in ev[Target(p, e.r, env)]}
<1>1. CASE e.k = "ret"
  BY <1>1 DEF Unfolded, Moves, BindsCall, Branches, Declares
<1>2. CASE e.k = "if"
  BY <1>2 DEF Unfolded, Moves, BindsCall, Branches, Declares, After
<1>3. CASE e.k = "match"
  BY <1>3 DEF Unfolded, Moves, BindsCall, Branches, Declares, After
<1>4. CASE e.k = "app"
  BY <1>4 DEF Unfolded, Moves, BindsCall, Branches, Declares, Target, SpecOf, Entered
<1>5. CASE Declares(e)
  <2>0. e.r.k \in {"atom", "call", "lambda"}
    BY <1>5, AllShape, InitializerShape
  <2> DEFINE goes(entry) == ev[<<p, e.e, With(env, e.x, entry)>>]
             called == ev[Target(p, e.r, env)]
             bound == CASE e.r.k = "atom"   -> {Value(Atom(e.r.a, env))}
                        [] e.r.k = "lambda" -> {Lambda(e.r.f)}
                        [] e.r.k = "call"   -> {Value(v) : v \in called}
  <2>1. Unfolded(ev, p, e, env) = UNION {goes(entry) : entry \in bound}
    BY <1>5 DEF Unfolded, Declares, Target, SpecOf, Entered
  <2>2. CASE e.r.k = "atom"
    <3>1. bound = {Value(Atom(e.r.a, env))}
      BY <2>2
    <3>2. goes(Value(Atom(e.r.a, env))) = ev[After(p, e, env)]
      BY <1>5, <2>2 DEF After, Declares
    <3> HIDE DEF bound, goes
    <3>3. Unfolded(ev, p, e, env) = goes(Value(Atom(e.r.a, env)))
      BY <2>1, <3>1
    <3> QED
      BY <3>2, <3>3, <1>5, <2>2 DEF BindsCall, Declares
  <2>3. CASE e.r.k = "lambda"
    <3>1. bound = {Lambda(e.r.f)}
      BY <2>3
    <3>2. goes(Lambda(e.r.f)) = ev[After(p, e, env)]
      BY <1>5, <2>3 DEF After, Declares
    <3> HIDE DEF bound, goes
    <3>3. Unfolded(ev, p, e, env) = goes(Lambda(e.r.f))
      BY <2>1, <3>1
    <3> QED
      BY <3>2, <3>3, <1>5, <2>3 DEF BindsCall, Declares
  <2>4. CASE e.r.k = "call"
    <3>1. bound = {Value(v) : v \in called}
      BY <2>4
    <3>2. \A v : goes(Value(v)) = ev[Resumed(p, e, env, v)]
      BY DEF Resumed
    <3> HIDE DEF bound, goes, called
    <3>3. Unfolded(ev, p, e, env) = UNION {ev[Resumed(p, e, env, v)] : v \in called}
      BY <2>1, <3>1, <3>2
    <3> QED
      BY <3>3, <1>5, <2>4 DEF Moves, Declares, Branches, called
  <2> QED
    BY <2>0, <2>2, <2>3, <2>4
<1> QED
  BY <1>1, <1>2, <1>3, <1>4, <1>5, AllShape DEF Declares

(* The same, one kind of expression at a time.                             *)
LEMMA UnfoldedReturns ==
  ASSUME NEW ev, NEW p, NEW e \in AllExprs, NEW env, e.k = "ret"
  PROVE  Unfolded(ev, p, e, env) = {Atom(e.a, env)}
BY UnfoldedIs

LEMMA UnfoldedMoves ==
  ASSUME NEW ev, NEW p, NEW e \in AllExprs, NEW env, Moves(e)
  PROVE  Unfolded(ev, p, e, env) = ev[After(p, e, env)]
BY UnfoldedIs

LEMMA UnfoldedCalls ==
  ASSUME NEW ev, NEW p, NEW e \in AllExprs, NEW env, e.k = "app"
  PROVE  Unfolded(ev, p, e, env) = ev[Target(p, e, env)]
BY UnfoldedIs

LEMMA UnfoldedBinds ==
  ASSUME NEW ev, NEW p, NEW e \in AllExprs, NEW env, BindsCall(e)
  PROVE  Unfolded(ev, p, e, env) = UNION {ev[Resumed(p, e, env, v)] : v \in ev[Target(p, e.r, env)]}
BY UnfoldedIs

(* Evaluation stays among the configurations.                              *)
LEMMA Onwards ==
  ASSUME NEW p \in Programs, NEW e \in AllExprs, NEW env \in Envs, WellTyped(p, e, env)
  PROVE  /\ e.k = "ret" => Atom(e.a, env) \in Int
         /\ Moves(e) => After(p, e, env) \in Configs
         /\ e.k = "app" => Target(p, e, env) \in Configs
         /\ BindsCall(e) => /\ Target(p, e.r, env) \in Configs
                         /\ \A v \in Int : Resumed(p, e, env, v) \in Configs
<1>1. \A a \in Read(e) : a \in Operands => Atom(a, env) \in Int
  BY AtomInt DEF WellTyped
<1>2. e.k = "ret" \/ Branches(e) => Atom(e.a, env) \in Int
  BY <1>1, AllShape DEF Read, Calls, Branches, Declares
<1>3. CASE Branches(e)
  <2>1. e.then \in AllExprs /\ e.else \in AllExprs /\ Atom(e.a, env) \in Int
    BY <1>2, <1>3, AllShape
  <2>2. CASE e.k = "if"
    BY <2>1, <2>2 DEF After, Configs, Declares, BindsCall
  <2>3. CASE e.k = "match"
    <3>1. With(env, e.x, Value(Atom(e.a, env))) \in Envs
      BY <2>1, <2>3, AllShape, WithType, EntriesMade
    <3> QED
      BY <2>1, <2>3, <3>1 DEF After, Configs, Declares, BindsCall
  <2> QED
    BY <1>3, <2>2, <2>3 DEF Branches, BindsCall, Declares
<1>4. CASE Declares(e)
  <2>1. e.x \in Names /\ e.e \in AllExprs /\ e.r \in InitializersOf(AllExprs)
    BY <1>4, AllShape
  <2>2. \A v \in Int : With(env, e.x, Value(v)) \in Envs
    BY <2>1, WithType, EntriesMade
  <2>3. CASE e.r.k = "atom"
    <3>1. e.r.a \in Operands /\ e.r.a \in Read(e)
      BY <1>4, <2>1, <2>3, InitializerShape DEF Read, Calls, Branches, Declares
    <3>2. With(env, e.x, Value(Atom(e.r.a, env))) \in Envs
      BY <1>1, <2>2, <3>1
    <3> QED
      BY <1>4, <2>1, <2>3, <3>2 DEF After, Configs, Declares, BindsCall
  <2>4. CASE e.r.k = "lambda"
    <3>1. With(env, e.x, Lambda(e.r.f)) \in Envs
      BY <2>1, <2>4, InitializerShape, WithType, EntriesMade
    <3> QED
      BY <1>4, <2>1, <2>4, <3>1 DEF After, Configs, Declares, BindsCall
  <2>5. CASE e.r.k = "call"
    <3>1. Calls(e) /\ TheCall(e) = e.r
      BY <1>4, <2>5 DEF Calls, TheCall, Declares
    <3>2. Target(p, e.r, env) \in Configs
      BY <3>1, CallShape
    <3>3. \A v \in Int : Resumed(p, e, env, v) \in Configs
      BY <2>1, <2>2 DEF Resumed, Configs
    <3> QED
      BY <1>4, <2>5, <3>2, <3>3 DEF Declares, Moves, Branches
  <2> QED
    BY <2>1, <2>3, <2>4, <2>5, InitializerShape
<1>5. CASE e.k = "app"
  <2>1. Calls(e) /\ TheCall(e) = e
    BY <1>5 DEF Calls, TheCall
  <2> QED
    BY <1>5, <2>1, CallShape DEF Moves, BindsCall, Branches, Declares
<1>6. CASE e.k = "ret"
  BY <1>2, <1>6 DEF Moves, BindsCall, Branches, Declares
<1> QED
  BY <1>3, <1>4, <1>5, <1>6, KindsOfStep DEF Moves, BindsCall

LEMMA UnfoldedType ==
  ASSUME NEW ev \in [Configs -> SUBSET Int],
         NEW p \in Programs, NEW e \in AllExprs, NEW env \in Envs, WellTyped(p, e, env)
  PROVE  Unfolded(ev, p, e, env) \in SUBSET Int
<1>1. CASE e.k = "ret"
  BY <1>1, UnfoldedIs, Onwards
<1>2. CASE Moves(e)
  <2>1. After(p, e, env) \in Configs
    BY <1>2, Onwards
  <2>2. Unfolded(ev, p, e, env) = ev[After(p, e, env)]
    BY <1>2, UnfoldedIs
  <2> QED
    BY <2>1, <2>2
<1>3. CASE e.k = "app"
  <2>1. Target(p, e, env) \in Configs
    BY <1>3, Onwards
  <2>2. Unfolded(ev, p, e, env) = ev[Target(p, e, env)]
    BY <1>3, UnfoldedIs
  <2> QED
    BY <2>1, <2>2
<1>4. CASE BindsCall(e)
  <2>1. Target(p, e.r, env) \in Configs /\ \A v \in Int : Resumed(p, e, env, v) \in Configs
    BY <1>4, Onwards
  <2>2. \A v \in ev[Target(p, e.r, env)] : ev[Resumed(p, e, env, v)] \subseteq Int
    BY <2>1
  <2>3. Unfolded(ev, p, e, env) = UNION {ev[Resumed(p, e, env, v)] : v \in ev[Target(p, e.r, env)]}
    BY <1>4, UnfoldedIs
  <2> QED
    BY <2>2, <2>3
<1> QED
  BY <1>1, <1>2, <1>3, <1>4, KindsOfStep

(* One level of Eval.                                                      *)
Level(ev, n) ==
  [c \in Configs |-> IF n = 0 \/ ~WellTyped(c[1], c[2], c[3]) THEN {}
                     ELSE Unfolded(ev, c[1], c[2], c[3])]

LEMMA LevelType ==
  ASSUME NEW ev, NEW n \in Nat, n # 0 => ev \in [Configs -> SUBSET Int]
  PROVE  Level(ev, n) \in [Configs -> SUBSET Int]
<1> SUFFICES ASSUME NEW c \in Configs
             PROVE  (IF n = 0 \/ ~WellTyped(c[1], c[2], c[3]) THEN {}
                     ELSE Unfolded(ev, c[1], c[2], c[3])) \in SUBSET Int
  BY DEF Level
<1>1. c[1] \in Programs /\ c[2] \in AllExprs /\ c[3] \in Envs
  BY DEF Configs
<1> QED
  BY <1>1, UnfoldedType

LEMMA EvalEquation ==
  \A n \in Nat : /\ Eval[n] \in [Configs -> SUBSET Int]
                 /\ Eval[n] = Level(Eval[n - 1], n)
<1> DEFINE S == [Configs -> SUBSET Int]
           Fns == [Nat -> S]
           Fixed(f) == f = [n \in Nat |->
             [c \in Configs |-> IF n = 0 \/ ~WellTyped(c[1], c[2], c[3]) THEN {}
                                ELSE Unfolded(f[n - 1], c[1], c[2], c[3])]]
           rank == [n \in Nat |-> n]
           step == [p \in Fns \X Nat |-> Level(p[1][p[2] - 1], p[2])]
<1>1. ASSUME NEW f \in Fns, NEW n \in Nat PROVE Level(f[n - 1], n) \in S
  <2>1. n # 0 => f[n - 1] \in S
    OBVIOUS
  <2> HIDE DEF Fns
  <2> QED
    BY <2>1, LevelType
<1>2. ASSUME NEW f \in Fns, NEW g \in Fns, NEW n \in Nat, \A m \in Nat : m < n => f[m] = g[m]
      PROVE  Level(f[n - 1], n) = Level(g[n - 1], n)
  <2>1. CASE n = 0
    BY <2>1 DEF Level
  <2>2. CASE n # 0
    <3>1. f[n - 1] = g[n - 1]
      BY <1>2, <2>2
    <3> QED
      BY <3>1
  <2> QED
    BY <2>1, <2>2
<1>3. PICK f \in Fns : \A n \in Nat : f[n] = Level(f[n - 1], n)
  <2> DEFINE zero == [c \in Configs |-> {}]
  <2>1. zero \in S
    OBVIOUS
  <2>2. Ranked(rank, Nat) /\ \A n \in Nat : rank[n] = n
    BY DEF Ranked
  <2>3. \A g \in Fns : \A n \in Nat : step[<<g, n>>] = Level(g[n - 1], n)
    OBVIOUS
  <2>4. step \in [Fns \X Nat -> S]
    <3> HIDE DEF S
    <3> QED
      BY <1>1
  <2> HIDE DEF rank, step, zero
  <2>5. FromBelow(step, rank, Nat, S)
    <3>1. ASSUME NEW h \in Fns, NEW g \in Fns, NEW n \in Nat,
                 \A m \in Nat : rank[m] < rank[n] => h[m] = g[m]
          PROVE  step[<<h, n>>] = step[<<g, n>>]
      <4>1. \A m \in Nat : m < n => h[m] = g[m]
        BY <2>2, <3>1
      <4>2. Level(h[n - 1], n) = Level(g[n - 1], n)
        BY <1>2, <4>1
      <4> QED
        BY <2>3, <4>2
    <3> HIDE DEF S
    <3> QED
      BY <2>4, <3>1 DEF FromBelow
  <2>6. \E g \in Fns : \A n \in Nat : g[n] = step[<<g, n>>]
    <3> HIDE DEF S
    <3>1. \E g \in [Nat -> S] : Follows(g, step, Nat)
      BY <2>1, <2>2, <2>5, Recursion, Zenon
    <3> QED
      BY <3>1 DEF Follows
  <2> HIDE DEF Fns
  <2> QED
    BY <2>3, <2>6
<1>4. Fixed(f)
  BY <1>3 DEF Level
<1>5. Eval = CHOOSE g : Fixed(g)
  BY DEF Eval
<1>6. Fixed(Eval)
  <2> HIDE DEF Fixed
  <2> QED
    BY <1>4, <1>5
<1> DEFINE g == Eval
<1>7. Fixed(g)
  BY <1>6
<1> HIDE DEF g
<1>8. g = [n \in Nat |-> Level(g[n - 1], n)]
  BY <1>7 DEF Level
<1>9. \A n \in Nat : g[n] = Level(g[n - 1], n)
  BY <1>8
<1> DEFINE Good == {n \in Nat : g[n] \in S}
<1>10. 0 \in Good
  <2>1. g[0] = Level(g[0 - 1], 0)
    BY <1>9
  <2> QED
    BY <2>1, LevelType
<1>11. ASSUME NEW n \in Nat, n \in Good PROVE n + 1 \in Good
  <2>1. g[n + 1] = Level(g[n], n + 1)
    BY <1>9
  <2>2. g[n] \in S
    BY <1>11
  <2>3. n + 1 \in Nat
    OBVIOUS
  <2> QED
    BY <2>1, <2>2, <2>3, LevelType
<1>12. Nat \subseteq Good
  <2> HIDE DEF Good
  <2> QED
    BY <1>10, <1>11, Induction
<1> QED
  BY <1>9, <1>12 DEF g

(* The next level of the evaluation of one configuration.                  *)
LEMMA EvalNext ==
  ASSUME NEW n \in Nat, NEW p \in Programs, NEW e \in AllExprs, NEW env \in Envs
  PROVE  /\ Eval[n] \in [Configs -> SUBSET Int]
         /\ Eval[0][<<p, e, env>>] = {}
         /\ ~WellTyped(p, e, env) => Eval[n][<<p, e, env>>] = {}
         /\ WellTyped(p, e, env) => Eval[n + 1][<<p, e, env>>] = Unfolded(Eval[n], p, e, env)
<1> DEFINE c == <<p, e, env>>
<1>1. c \in Configs /\ c[1] = p /\ c[2] = e /\ c[3] = env
  BY DEF Configs
<1> HIDE DEF c
<1>2. ASSUME NEW m \in Nat
      PROVE  Eval[m][c] = IF m = 0 \/ ~WellTyped(p, e, env) THEN {} ELSE Unfolded(Eval[m - 1], p, e, env)
  <2>1. Eval[m] = Level(Eval[m - 1], m)
    BY EvalEquation
  <2> QED
    BY <1>1, <2>1 DEF Level
<1>3. n + 1 \in Nat /\ n + 1 # 0 /\ (n + 1) - 1 = n
  OBVIOUS
<1>4. Eval[0][c] = {}
  BY <1>2
<1>5. ~WellTyped(p, e, env) => Eval[n][c] = {}
  BY <1>2
<1>6. WellTyped(p, e, env) => Eval[n + 1][c] = Unfolded(Eval[n], p, e, env)
  BY <1>2, <1>3
<1> QED
  BY <1>4, <1>5, <1>6, EvalEquation DEF c

(* One evaluation has every value that another has.                        *)
Grows(ev, more) == \A c \in Configs : ev[c] \subseteq more[c]

LEMMA UnfoldedGrows ==
  ASSUME NEW ev \in [Configs -> SUBSET Int], NEW more \in [Configs -> SUBSET Int],
         Grows(ev, more),
         NEW p \in Programs, NEW e \in AllExprs, NEW env \in Envs, WellTyped(p, e, env)
  PROVE  Unfolded(ev, p, e, env) \subseteq Unfolded(more, p, e, env)
<1>1. CASE e.k = "ret"
  <2>1. Unfolded(ev, p, e, env) = {Atom(e.a, env)}
    BY <1>1, UnfoldedReturns
  <2>2. Unfolded(more, p, e, env) = {Atom(e.a, env)}
    BY <1>1, UnfoldedReturns
  <2> QED
    BY <2>1, <2>2
<1>2. CASE Moves(e)
  <2>1. After(p, e, env) \in Configs
    BY <1>2, Onwards
  <2>2. Unfolded(ev, p, e, env) = ev[After(p, e, env)]
    BY <1>2, UnfoldedMoves
  <2>3. Unfolded(more, p, e, env) = more[After(p, e, env)]
    BY <1>2, UnfoldedMoves
  <2> QED
    BY <2>1, <2>2, <2>3 DEF Grows
<1>3. CASE e.k = "app"
  <2>1. Target(p, e, env) \in Configs
    BY <1>3, Onwards
  <2>2. Unfolded(ev, p, e, env) = ev[Target(p, e, env)]
    BY <1>3, UnfoldedCalls
  <2>3. Unfolded(more, p, e, env) = more[Target(p, e, env)]
    BY <1>3, UnfoldedCalls
  <2> QED
    BY <2>1, <2>2, <2>3 DEF Grows
<1>4. CASE BindsCall(e)
  <2>1. Target(p, e.r, env) \in Configs /\ \A v \in Int : Resumed(p, e, env, v) \in Configs
    BY <1>4, Onwards
  <2>2. Unfolded(ev, p, e, env) = UNION {ev[Resumed(p, e, env, v)] : v \in ev[Target(p, e.r, env)]}
    BY <1>4, UnfoldedBinds
  <2>4. Unfolded(more, p, e, env) = UNION {more[Resumed(p, e, env, v)] : v \in more[Target(p, e.r, env)]}
    BY <1>4, UnfoldedBinds
  <2>3. ASSUME NEW v \in ev[Target(p, e.r, env)]
        PROVE  v \in more[Target(p, e.r, env)] /\ ev[Resumed(p, e, env, v)] \subseteq more[Resumed(p, e, env, v)]
    <3>1. v \in Int
      BY <2>1
    <3> QED
      BY <2>1, <3>1 DEF Grows
  <2> QED
    BY <2>2, <2>3, <2>4
<1> QED
  BY <1>1, <1>2, <1>3, <1>4, KindsOfStep

LEMMA EvalGrows ==
  \A n \in Nat : \A c \in Configs : Eval[n][c] \subseteq Eval[n + 1][c]
<1> DEFINE Good == {n \in Nat : \A c \in Configs : Eval[n][c] \subseteq Eval[n + 1][c]}
<1>1. ASSUME NEW c \in Configs
      PROVE  \E p \in Programs, e \in AllExprs, env \in Envs : c = <<p, e, env>>
  BY DEF Configs
<1>2. 0 \in Good
  <2> SUFFICES ASSUME NEW c \in Configs PROVE Eval[0][c] \subseteq Eval[0 + 1][c]
    OBVIOUS
  <2>1. PICK p \in Programs, e \in AllExprs, env \in Envs : c = <<p, e, env>>
    BY <1>1
  <2>2. Eval[0][c] = {}
    BY <2>1, EvalNext
  <2> QED
    BY <2>2
<1>3. ASSUME NEW n \in Nat, n \in Good PROVE n + 1 \in Good
  <2> DEFINE m == n + 1
  <2>0. m \in Nat
    OBVIOUS
  <2> SUFFICES ASSUME NEW c \in Configs PROVE Eval[m][c] \subseteq Eval[m + 1][c]
    OBVIOUS
  <2>1. PICK p \in Programs, e \in AllExprs, env \in Envs : c = <<p, e, env>>
    BY <1>1
  <2>2. CASE ~WellTyped(p, e, env)
    <3>1. Eval[m][c] = {}
      BY <2>0, <2>1, <2>2, EvalNext
    <3> QED
      BY <3>1
  <2>3. CASE WellTyped(p, e, env)
    <3>1. Eval[m][c] = Unfolded(Eval[n], p, e, env)
      BY <2>1, <2>3, EvalNext
    <3>2. Eval[m + 1][c] = Unfolded(Eval[m], p, e, env)
      <4> HIDE DEF m
      <4> QED
        BY <2>0, <2>1, <2>3, EvalNext
    <3>3. Grows(Eval[n], Eval[m])
      BY <1>3 DEF Grows
    <3>4. Eval[n] \in [Configs -> SUBSET Int] /\ Eval[m] \in [Configs -> SUBSET Int]
      BY <2>0, EvalEquation
    <3> HIDE DEF m
    <3> QED
      BY <2>3, <3>1, <3>2, <3>3, <3>4, UnfoldedGrows
  <2> QED
    BY <2>2, <2>3
<1>4. Nat \subseteq Good
  <2> HIDE DEF Good
  <2> QED
    BY <1>2, <1>3, Induction
<1> QED
  BY <1>4

LEMMA EvalGrowsTo ==
  ASSUME NEW m \in Nat, NEW n \in Nat, m <= n, NEW c \in Configs
  PROVE  Eval[m][c] \subseteq Eval[n][c]
<1> DEFINE Good == {k \in Nat : Eval[m][c] \subseteq Eval[m + k][c]}
<1>1. 0 \in Good
  OBVIOUS
<1>2. ASSUME NEW k \in Nat, k \in Good PROVE k + 1 \in Good
  <2>1. m + k \in Nat /\ m + (k + 1) = (m + k) + 1
    OBVIOUS
  <2>2. Eval[m + k][c] \subseteq Eval[(m + k) + 1][c]
    BY <2>1, EvalGrows
  <2> QED
    BY <1>2, <2>1, <2>2
<1>3. Nat \subseteq Good
  <2> HIDE DEF Good
  <2> QED
    BY <1>1, <1>2, Induction
<1>4. n - m \in Nat /\ m + (n - m) = n
  OBVIOUS
<1>5. n - m \in Good
  BY <1>3, <1>4
<1> QED
  BY <1>4, <1>5

(* An expression evaluates to one value.                                   *)
Single(ev) == \A c \in Configs : \A v, w \in ev[c] : v = w

LEMMA UnfoldedSingle ==
  ASSUME NEW ev \in [Configs -> SUBSET Int], Single(ev),
         NEW p \in Programs, NEW e \in AllExprs, NEW env \in Envs, WellTyped(p, e, env),
         NEW v \in Unfolded(ev, p, e, env), NEW w \in Unfolded(ev, p, e, env)
  PROVE  v = w
<1>1. CASE e.k = "ret"
  <2>1. Unfolded(ev, p, e, env) = {Atom(e.a, env)}
    BY <1>1, UnfoldedIs
  <2> QED
    BY <2>1
<1>2. CASE Moves(e)
  <2>1. After(p, e, env) \in Configs
    BY <1>2, Onwards
  <2>2. Unfolded(ev, p, e, env) = ev[After(p, e, env)]
    BY <1>2, UnfoldedIs
  <2> QED
    BY <2>1, <2>2 DEF Single
<1>3. CASE e.k = "app"
  <2>1. Target(p, e, env) \in Configs
    BY <1>3, Onwards
  <2>2. Unfolded(ev, p, e, env) = ev[Target(p, e, env)]
    BY <1>3, UnfoldedIs
  <2> QED
    BY <2>1, <2>2 DEF Single
<1>4. CASE BindsCall(e)
  <2>1. Target(p, e.r, env) \in Configs /\ \A u \in Int : Resumed(p, e, env, u) \in Configs
    BY <1>4, Onwards
  <2>2. Unfolded(ev, p, e, env) = UNION {ev[Resumed(p, e, env, u)] : u \in ev[Target(p, e.r, env)]}
    BY <1>4, UnfoldedIs
  <2>3. PICK u \in ev[Target(p, e.r, env)] : v \in ev[Resumed(p, e, env, u)]
    BY <2>2
  <2>4. PICK t \in ev[Target(p, e.r, env)] : w \in ev[Resumed(p, e, env, t)]
    BY <2>2
  <2>5. u = t /\ u \in Int
    BY <2>1 DEF Single
  <2> QED
    BY <2>1, <2>3, <2>4, <2>5 DEF Single
<1> QED
  BY <1>1, <1>2, <1>3, <1>4, KindsOfStep

LEMMA EvalSingle ==
  \A n \in Nat : Single(Eval[n])
<1> DEFINE Good == {n \in Nat : Single(Eval[n])}
<1>1. ASSUME NEW c \in Configs
      PROVE  \E p \in Programs, e \in AllExprs, env \in Envs : c = <<p, e, env>>
  BY DEF Configs
<1>2. 0 \in Good
  <2>1. ASSUME NEW c \in Configs PROVE Eval[0][c] = {}
    BY <1>1, EvalNext
  <2> QED
    BY <2>1 DEF Single
<1>3. ASSUME NEW n \in Nat, n \in Good PROVE n + 1 \in Good
  <2> SUFFICES ASSUME NEW c \in Configs, NEW v \in Eval[n + 1][c], NEW w \in Eval[n + 1][c]
               PROVE  v = w
    BY DEF Single
  <2>1. PICK p \in Programs, e \in AllExprs, env \in Envs : c = <<p, e, env>>
    BY <1>1
  <2>2. WellTyped(p, e, env)
    <3>1. n + 1 \in Nat
      OBVIOUS
    <3> QED
      BY <2>1, <3>1, EvalNext
  <2>3. Eval[n + 1][c] = Unfolded(Eval[n], p, e, env)
    BY <2>1, <2>2, EvalNext
  <2>4. Single(Eval[n]) /\ Eval[n] \in [Configs -> SUBSET Int]
    BY <1>3, EvalEquation
  <2> QED
    BY <2>2, <2>3, <2>4, UnfoldedSingle
<1>4. Nat \subseteq Good
  <2> HIDE DEF Good
  <2> QED
    BY <1>2, <1>3, Induction
<1> QED
  BY <1>4

(* What a configuration evaluates to, however deep the recursion.          *)
Means(c, v) == \E n \in Nat : v \in Eval[n][c]

LEMMA MeansOne ==
  ASSUME NEW c \in Configs, NEW n \in Nat, NEW v \in Eval[n][c], NEW w, Means(c, w)
  PROVE  v = w
<1>1. PICK m \in Nat : w \in Eval[m][c]
  BY DEF Means
<1>2. PICK k \in Nat : m <= k /\ n <= k
  <2>1. m <= m + n /\ n <= m + n /\ m + n \in Nat
    OBVIOUS
  <2> QED
    BY <2>1
<1>3. v \in Eval[k][c] /\ w \in Eval[k][c]
  BY <1>1, <1>2, EvalGrowsTo
<1> QED
  BY <1>3, EvalSingle DEF Single

LEMMA MeansRules ==
  ASSUME NEW p \in Programs, NEW e \in AllExprs, NEW env \in Envs, WellTyped(p, e, env), NEW v
  PROVE  /\ e.k = "ret" => Means(<<p, e, env>>, Atom(e.a, env))
         /\ Moves(e) /\ Means(After(p, e, env), v) => Means(<<p, e, env>>, v)
         /\ e.k = "app" /\ Means(Target(p, e, env), v) => Means(<<p, e, env>>, v)
         /\ \A u : (BindsCall(e) /\ Means(Target(p, e.r, env), u) /\ Means(Resumed(p, e, env, u), v))
              => Means(<<p, e, env>>, v)
<1> DEFINE c == <<p, e, env>>
<1>0. ASSUME NEW n \in Nat, NEW w \in Unfolded(Eval[n], p, e, env) PROVE Means(c, w)
  <2>1. w \in Eval[n + 1][c] /\ n + 1 \in Nat
    BY <1>0, EvalNext
  <2> QED
    BY <2>1 DEF Means
<1>1. ASSUME e.k = "ret" PROVE Means(c, Atom(e.a, env))
  <2>1. 0 \in Nat /\ Atom(e.a, env) \in Unfolded(Eval[0], p, e, env)
    BY <1>1, UnfoldedIs
  <2> HIDE DEF c
  <2> QED
    BY <1>0, <2>1
<1>2. ASSUME Moves(e), Means(After(p, e, env), v) PROVE Means(c, v)
  <2>1. PICK n \in Nat : v \in Eval[n][After(p, e, env)]
    BY <1>2 DEF Means
  <2>2. v \in Unfolded(Eval[n], p, e, env)
    BY <1>2, <2>1, UnfoldedMoves
  <2> HIDE DEF c
  <2> QED
    BY <1>0, <2>2
<1>3. ASSUME e.k = "app", Means(Target(p, e, env), v) PROVE Means(c, v)
  <2>1. PICK n \in Nat : v \in Eval[n][Target(p, e, env)]
    BY <1>3 DEF Means
  <2>2. v \in Unfolded(Eval[n], p, e, env)
    BY <1>3, <2>1, UnfoldedCalls
  <2> HIDE DEF c
  <2> QED
    BY <1>0, <2>2
<1>4. ASSUME NEW u, BindsCall(e), Means(Target(p, e.r, env), u), Means(Resumed(p, e, env, u), v)
      PROVE  Means(c, v)
  <2>1. PICK m \in Nat : u \in Eval[m][Target(p, e.r, env)]
    BY <1>4 DEF Means
  <2>2. PICK n \in Nat : v \in Eval[n][Resumed(p, e, env, u)]
    BY <1>4 DEF Means
  <2>3. PICK k \in Nat : m <= k /\ n <= k
    <3>1. m <= m + n /\ n <= m + n /\ m + n \in Nat
      OBVIOUS
    <3> QED
      BY <3>1
  <2>4. Target(p, e.r, env) \in Configs
    BY <1>4, Onwards
  <2>5. u \in Int
    BY <2>1, <2>4, EvalEquation
  <2>6. Resumed(p, e, env, u) \in Configs
    BY <1>4, <2>5, Onwards
  <2>7. u \in Eval[k][Target(p, e.r, env)] /\ v \in Eval[k][Resumed(p, e, env, u)]
    BY <2>1, <2>2, <2>3, <2>4, <2>6, EvalGrowsTo
  <2> DEFINE ev == Eval[k]
  <2>8. v \in Unfolded(ev, p, e, env)
    <3>1. u \in ev[Target(p, e.r, env)] /\ v \in ev[Resumed(p, e, env, u)]
      BY <2>7
    <3> HIDE DEF ev
    <3>2. Unfolded(ev, p, e, env) = UNION {ev[Resumed(p, e, env, w)] : w \in ev[Target(p, e.r, env)]}
      BY <1>4, UnfoldedBinds
    <3> QED
      BY <3>1, <3>2
  <2> HIDE DEF c
  <2> QED
    BY <1>0, <2>8
<1> QED
  BY <1>1, <1>2, <1>3, <1>4

-----------------------------------------------------------------------------
(* The activations                                                         *)

Bodies == [sym : STRING \cup {"__main"}, params : Seq(Names), free : SUBSET Names, body : AllExprs]
Specs == [f : Bodies, self : Names \cup {"__main"}, captures : SUBSET Names]
Activations ==
  [spec : Specs, env : Envs,
   e : AllExprs \cup {Answer(v) : v \in Int} \cup {Waiting(e) : e \in AllExprs}]

(* What an activation has still to evaluate, its own call included that it *)
(* waits for.                                                              *)
Waits(frame) == frame.e.k = "waiting"
Pending(frame) == IF Waits(frame) THEN frame.e.e ELSE frame.e

Known(p, env) == \A x \in Names : IsLambda(env, x) => <<x, env[x].f>> \in Bindings(p)

(* While the name of an activation's lambda means that lambda, what it     *)
(* calls in tail position it also calls there from its body's beginning.   *)
FindsHeader(p, frame) ==
  LET self == frame.spec.self
  IN (/\ Pending(frame) \in Exprs(p)
      /\ <<self, frame.spec.f>> \in Bindings(p)
      /\ ~IsValue(frame.env, self)
      /\ Callee(p, frame.env, self) = frame.spec.f
      /\ <<self, Len(frame.spec.f.params)>> \in TailCallsOf[Pending(frame)])
     => HasHeader(frame.spec)

FrameOK(p, frame) ==
  /\ frame \in Activations
  /\ frame.spec = MainSpec(p.main) \/ <<frame.spec.self, frame.spec.f>> \in Bindings(p)
  /\ Known(p, frame.env)
  /\ \/ Pending(frame) \in Exprs(p) /\ Depth(Pending(frame)) <= Depth(frame.spec.f.body)
     \/ \E v \in Int : Pending(frame) = Answer(v)
  /\ FindsHeader(p, frame)
  /\ Waits(frame) => /\ Pending(frame) \in Exprs(p)
                     /\ Calls(Pending(frame))
                     /\ WellTyped(p, Pending(frame), frame.env)

(* What an activation will return.                                         *)
Gives(p, frame, v) ==
  IF Pending(frame) \in Exprs(p) THEN Means(<<p, Pending(frame), frame.env>>, v)
  ELSE v = Pending(frame).a.n

(* An activation and the one above, which answers its call.                *)
Above(p, below, frame) ==
  /\ Symbol(below.spec) = Symbol(frame.spec) => below.e.e.k # "app"
  /\ \A v : Gives(p, frame, v) => Means(Target(p, TheCall(below.e.e), below.env), v)

Start(p) == <<p, p.main, NoEnv>>

Stack(p, s) ==
  /\ s \in Seq(Activations) /\ s # <<>>
  /\ \A i \in 1 .. Len(s) : FrameOK(p, s[i]) /\ (Waits(s[i]) <=> i # Len(s))
  /\ \A v : Gives(p, s[1], v) => Means(Start(p), v)
  /\ \A i \in 1 .. Len(s) - 1 : Above(p, s[i], s[i + 1])

(***************************************************************************)
(* The inductive invariant: what each activation will return is what the   *)
(* call below it evaluates to, the first one's what the program does.      *)
(***************************************************************************)
LoopInv ==
  /\ program \in Programs
  /\ WellNamed(program)
  /\ Stack(program, frames)
  /\ result \in Seq(Int) /\ Len(result) <= 1
  /\ \A i \in 1 .. Len(result) : Means(Start(program), result[i])

-----------------------------------------------------------------------------
(* An expression goes on with a part of it.                                *)

(* What e binds x to, so that the name of a lambda that e is nested in     *)
(* does not mean that lambda any more if x is that name.                   *)
BindsIn(p, e, x, entry) ==
  \/ \E v \in Int : entry = Value(v)
  \/ \E g \in LambdasOf(AllExprs) : entry = Lambda(g) /\ g.body \in Parts(e) /\ <<x, g>> \in Bindings(p)

GoesTo(p, e, env, d, to) ==
  /\ d \in Parts(e)
  /\ \/ to = env /\ TailCallsOf[d] \subseteq TailCallsOf[e]
     \/ \E x \in Names, entry \in Entries :
          /\ to = With(env, x, entry)
          /\ Unhidden(TailCallsOf[d], x) \subseteq TailCallsOf[e]
          /\ BindsIn(p, e, x, entry)

LEMMA TailCallsOfParts ==
  ASSUME NEW e \in AllExprs
  PROVE  /\ e.k = "if" => TailCallsOf[e.then] \subseteq TailCallsOf[e] /\ TailCallsOf[e.else] \subseteq TailCallsOf[e]
         /\ e.k = "match" => /\ TailCallsOf[e.then] \subseteq TailCallsOf[e]
                             /\ Unhidden(TailCallsOf[e.else], e.x) \subseteq TailCallsOf[e]
         /\ Declares(e) => Unhidden(TailCallsOf[e.e], e.x) \subseteq TailCallsOf[e]
         /\ e.k = "app" => TailCallsOf[e] = {<<e.f, Len(e.as)>>}
<1>1. TailCallsOf[e] = TailCallsBelow(TailCallsOf, e)
  BY TailCallsEquation
<1>2. CASE e.k = "if"
  BY <1>1, <1>2 DEF TailCallsBelow, Declares
<1>3. CASE e.k = "match"
  BY <1>1, <1>3 DEF TailCallsBelow, Declares
<1>4. CASE Declares(e)
  BY <1>1, <1>4 DEF TailCallsBelow, Declares
<1>5. CASE e.k = "app"
  BY <1>1, <1>5 DEF TailCallsBelow, Declares
<1> QED
  BY <1>2, <1>3, <1>4, <1>5 DEF Declares

LEMMA MovesGo ==
  ASSUME NEW p \in Programs, NEW e \in Exprs(p), NEW env \in Envs, WellTyped(p, e, env), Moves(e)
  PROVE  \E d, to : After(p, e, env) = <<p, d, to>> /\ GoesTo(p, e, env, d, to)
<1>0. e \in AllExprs
  BY ProgramShape
<1>1. \A a \in Read(e) : a \in Operands => Atom(a, env) \in Int
  BY AtomInt DEF WellTyped
<1>2. CASE e.k = "if"
  <2>1. Parts(e) = {e.then, e.else}
    BY <1>2 DEF Parts, Branches, Declares
  <2>2. TailCallsOf[e.then] \subseteq TailCallsOf[e] /\ TailCallsOf[e.else] \subseteq TailCallsOf[e]
    BY <1>0, <1>2, TailCallsOfParts
  <2>3. After(p, e, env) = <<p, IF Atom(e.a, env) = 0 THEN e.then ELSE e.else, env>>
    BY <1>2 DEF After, Declares
  <2> QED
    BY <2>1, <2>2, <2>3 DEF GoesTo
<1>3. CASE e.k = "match"
  <2>1. Parts(e) = {e.then, e.else}
    BY <1>3 DEF Parts, Branches, Declares
  <2>2. /\ TailCallsOf[e.then] \subseteq TailCallsOf[e]
        /\ Unhidden(TailCallsOf[e.else], e.x) \subseteq TailCallsOf[e]
    BY <1>0, <1>3, TailCallsOfParts
  <2>3. Atom(e.a, env) \in Int /\ e.x \in Names
    BY <1>0, <1>1, <1>3, AllShape DEF Read, Calls, Branches, Declares
  <2>4. BindsIn(p, e, e.x, Value(Atom(e.a, env))) /\ Value(Atom(e.a, env)) \in Entries
    BY <2>3, EntriesMade DEF BindsIn
  <2>5. After(p, e, env) = IF Atom(e.a, env) = 0 THEN <<p, e.then, env>>
                           ELSE <<p, e.else, With(env, e.x, Value(Atom(e.a, env)))>>
    BY <1>3 DEF After, Declares
  <2>6. CASE Atom(e.a, env) = 0
    BY <2>1, <2>2, <2>5, <2>6 DEF GoesTo
  <2>7. CASE Atom(e.a, env) # 0
    BY <2>1, <2>2, <2>3, <2>4, <2>5, <2>7 DEF GoesTo
  <2> QED
    BY <2>6, <2>7
<1>4. CASE Declares(e) /\ e.r.k # "call"
  <2>1. e.e \in Parts(e) /\ (e.r.k = "lambda" => e.r.f.body \in Parts(e))
    BY <1>4 DEF Parts, Branches, Declares
  <2>2. Unhidden(TailCallsOf[e.e], e.x) \subseteq TailCallsOf[e]
    BY <1>0, <1>4, TailCallsOfParts
  <2>3. e.x \in Names /\ e.r \in InitializersOf(AllExprs)
    BY <1>0, <1>4, AllShape
  <2>4. After(p, e, env) = <<p, e.e, With(env, e.x, IF e.r.k = "atom" THEN Value(Atom(e.r.a, env))
                                                    ELSE Lambda(e.r.f))>>
    BY <1>4 DEF After, Declares
  <2>5. CASE e.r.k = "atom"
    <3>1. e.r.a \in Operands /\ e.r.a \in Read(e)
      BY <1>4, <2>3, <2>5, InitializerShape DEF Read, Calls, Branches, Declares
    <3>2. Atom(e.r.a, env) \in Int
      BY <1>1, <3>1
    <3>3. BindsIn(p, e, e.x, Value(Atom(e.r.a, env))) /\ Value(Atom(e.r.a, env)) \in Entries
      BY <3>2, EntriesMade DEF BindsIn
    <3> QED
      BY <2>1, <2>2, <2>3, <2>4, <2>5, <3>3 DEF GoesTo
  <2>6. CASE e.r.k = "lambda"
    <3>1. e.r.f \in LambdasOf(AllExprs)
      BY <2>3, <2>6, InitializerShape
    <3>2. <<e.x, e.r.f>> \in Bindings(p)
      BY <1>4, <2>6 DEF Bindings
    <3>3. BindsIn(p, e, e.x, Lambda(e.r.f)) /\ Lambda(e.r.f) \in Entries
      BY <2>1, <2>6, <3>1, <3>2, EntriesMade DEF BindsIn
    <3> QED
      BY <2>1, <2>2, <2>3, <2>4, <2>6, <3>3 DEF GoesTo
  <2> QED
    BY <1>4, <2>3, <2>5, <2>6, InitializerShape
<1> QED
  BY <1>2, <1>3, <1>4 DEF Moves, Branches

LEMMA ResumedGoes ==
  ASSUME NEW p \in Programs, NEW e \in Exprs(p), NEW env \in Envs, BindsCall(e), NEW v \in Int
  PROVE  \E d, to : Resumed(p, e, env, v) = <<p, d, to>> /\ GoesTo(p, e, env, d, to)
<1>0. e \in AllExprs
  BY ProgramShape
<1>1. e.e \in Parts(e)
  BY DEF Parts, Branches, Declares, BindsCall
<1>2. Unhidden(TailCallsOf[e.e], e.x) \subseteq TailCallsOf[e]
  BY <1>0, TailCallsOfParts DEF BindsCall
<1>3. e.x \in Names
  BY <1>0, AllShape DEF BindsCall
<1>4. BindsIn(p, e, e.x, Value(v)) /\ Value(v) \in Entries
  BY EntriesMade DEF BindsIn
<1> QED
  BY <1>1, <1>2, <1>3, <1>4 DEF GoesTo, Resumed

(* What is bound in the environment that an expression goes on with.       *)
LEMMA GoesToEnv ==
  ASSUME NEW p \in Programs, NEW e \in Exprs(p), NEW env \in Envs, NEW d, NEW to,
         GoesTo(p, e, env, d, to), Known(p, env)
  PROVE  /\ d \in Exprs(p) /\ Depth(d) < Depth(e) /\ Depth(d) \in Nat /\ Depth(e) \in Nat
         /\ to \in Envs
         /\ Known(p, to)
<1>1. d \in Exprs(p) /\ Depth(d) < Depth(e) /\ Depth(d) \in Nat /\ Depth(e) \in Nat
  BY ProgramShape DEF GoesTo
<1>2. CASE to = env
  BY <1>1, <1>2
<1>3. ASSUME NEW x \in Names, NEW entry \in Entries, to = With(env, x, entry), BindsIn(p, e, x, entry)
      PROVE  to \in Envs /\ Known(p, to)
  <2>1. to \in Envs /\ \A y \in Names : to[y] = IF y = x THEN entry ELSE env[y]
    BY <1>3, WithType
  <2>2. ASSUME NEW y \in Names, IsLambda(to, y) PROVE <<y, to[y].f>> \in Bindings(p)
    <3>1. CASE y = x
      <4>1. to[y] = entry
        BY <2>1, <3>1
      <4>2. ASSUME NEW v \in Int, entry = Value(v) PROVE FALSE
        BY <2>2, <4>1, <4>2 DEF IsLambda, Value
      <4>3. PICK g \in LambdasOf(AllExprs) : entry = Lambda(g) /\ <<x, g>> \in Bindings(p)
        BY <1>3, <4>2 DEF BindsIn
      <4> QED
        BY <3>1, <4>1, <4>3 DEF Lambda
    <3>2. CASE y # x
      BY <2>1, <2>2, <3>2 DEF Known, IsLambda
    <3> QED
      BY <3>1, <3>2
  <2> QED
    BY <2>1, <2>2 DEF Known
<1> QED
  BY <1>1, <1>2, <1>3 DEF GoesTo

(* The name of a lambda means it below wherever it means it above: what is *)
(* bound between is a value or a smaller lambda.                           *)
LEMMA GoesToCallee ==
  ASSUME NEW p \in Programs, NEW e \in Exprs(p), NEW env \in Envs, NEW d, NEW to,
         GoesTo(p, e, env, d, to),
         NEW f, NEW x \in Names, Depth(e) <= Depth(f.body), Depth(f.body) \in Nat,
         ~IsValue(to, x), Callee(p, to, x) = f,
         NEW n, <<x, n>> \in TailCallsOf[d]
  PROVE  /\ ~IsValue(env, x) /\ Callee(p, env, x) = f
         /\ <<x, n>> \in TailCallsOf[e]
<1>1. CASE to = env /\ TailCallsOf[d] \subseteq TailCallsOf[e]
  BY <1>1
<1>2. ASSUME NEW y \in Names, NEW entry \in Entries, to = With(env, y, entry),
             Unhidden(TailCallsOf[d], y) \subseteq TailCallsOf[e], BindsIn(p, e, y, entry)
      PROVE  /\ ~IsValue(env, x) /\ Callee(p, env, x) = f
             /\ <<x, n>> \in TailCallsOf[e]
  <2>1. \A z \in Names : to[z] = IF z = y THEN entry ELSE env[z]
    BY <1>2, WithType
  <2>2. x # y
    <3> SUFFICES ASSUME x = y PROVE FALSE
      OBVIOUS
    <3>1. to[x] = entry
      BY <2>1
    <3>2. ASSUME NEW v \in Int, entry = Value(v) PROVE FALSE
      BY <3>1, <3>2 DEF IsValue, Value
    <3>3. PICK g \in LambdasOf(AllExprs) : entry = Lambda(g) /\ g.body \in Parts(e)
      BY <1>2, <3>2 DEF BindsIn
    <3>4. Callee(p, to, x) = g
      BY <3>1, <3>3 DEF Callee, IsLambda, Lambda
    <3>5. Depth(g.body) < Depth(e) /\ Depth(g.body) \in Nat /\ Depth(e) \in Nat
      BY <3>3, ProgramShape
    <3> QED
      BY <3>4, <3>5
  <2>3. <<x, n>> \in TailCallsOf[e]
    BY <1>2, <2>2 DEF Unhidden
  <2> QED
    BY <2>1, <2>2, <2>3 DEF IsValue, IsLambda, Callee
<1> QED
  BY <1>1, <1>2 DEF GoesTo

(* An activation is one of a lambda of the program, or the program's own.  *)
LEMMA FrameShape ==
  ASSUME NEW p \in Programs, NEW frame, FrameOK(p, frame)
  PROVE  /\ frame = [spec |-> frame.spec, env |-> frame.env, e |-> frame.e]
         /\ frame.spec \in Specs
         /\ frame.env \in Envs
         /\ frame.spec.f.body \in AllExprs
         /\ Depth(frame.spec.f.body) \in Nat
         /\ frame.spec.f.params \in Seq(Names)
<1>1. frame \in Activations
  BY DEF FrameOK
<1>2. frame.spec \in Specs /\ frame.env \in Envs /\ frame = [spec |-> frame.spec, env |-> frame.env, e |-> frame.e]
  BY <1>1 DEF Activations
<1>3. frame.spec.f \in Bodies
  BY <1>2 DEF Specs
<1>4. frame.spec.f.body \in AllExprs /\ frame.spec.f.params \in Seq(Names)
  BY <1>3 DEF Bodies
<1> QED
  BY <1>2, <1>4, AllShape

(* What waits is an expression of the program no more than an answer is.   *)
LEMMA Kinds ==
  /\ \A e \in AllExprs : e.k # "waiting"
  /\ \A v : Answer(v).k = "ret" /\ Answer(v).a.n = v /\ Answer(v).a.k = "int"
  /\ \A e : Waiting(e).k = "waiting" /\ Waiting(e).e = e
BY AllShape DEF Answer, Waiting

LEMMA FrameGoesOn ==
  ASSUME NEW p \in Programs, NEW frame, FrameOK(p, frame), Pending(frame) \in Exprs(p),
         NEW d, NEW to, GoesTo(p, Pending(frame), frame.env, d, to),
         NEW next, next = [spec |-> frame.spec, env |-> to, e |-> d]
  PROVE  FrameOK(p, next) /\ ~Waits(next) /\ Pending(next) = d /\ d \in Exprs(p)
<1> DEFINE e == Pending(frame)
           self == frame.spec.self
           f == frame.spec.f
<1>1. frame.env \in Envs /\ frame.spec \in Specs /\ Depth(f.body) \in Nat
  BY FrameShape
<1>2. Known(p, frame.env)
  BY DEF FrameOK
<1>3. /\ d \in Exprs(p) /\ Depth(d) < Depth(e) /\ Depth(d) \in Nat /\ Depth(e) \in Nat
      /\ to \in Envs /\ Known(p, to)
  BY <1>1, <1>2, GoesToEnv
<1>4. d \in AllExprs
  BY <1>3, ProgramShape
<1>5. ~Waits(next) /\ Pending(next) = d
  BY <1>4, Kinds DEF Waits, Pending
<1>6. next \in Activations
  BY <1>1, <1>3, <1>4 DEF Activations
<1>7. Depth(e) <= Depth(f.body)
  <2>1. ASSUME NEW v \in Int, e = Answer(v) PROVE FALSE
    <3>1. e \in AllExprs /\ e.k = "ret"
      BY <2>1, ProgramShape, Kinds
    <3>2. d \in Parts(e)
      BY DEF GoesTo
    <3> QED
      BY <3>1, <3>2 DEF Parts, Branches, Declares
  <2> QED
    BY <2>1 DEF FrameOK
<1>8. FindsHeader(p, next)
  <2> SUFFICES ASSUME <<self, f>> \in Bindings(p), ~IsValue(to, self), Callee(p, to, self) = f,
                      <<self, Len(f.params)>> \in TailCallsOf[d]
               PROVE  HasHeader(frame.spec)
    BY <1>5 DEF FindsHeader
  <2>1. self \in Names
    BY TailCallsAssumption, ProgramShape, AllShape DEF Bindings
  <2>2. /\ ~IsValue(frame.env, self) /\ Callee(p, frame.env, self) = f
        /\ <<self, Len(f.params)>> \in TailCallsOf[e]
    BY <1>1, <1>7, <2>1, GoesToCallee
  <2> QED
    BY <2>2 DEF FrameOK, FindsHeader
<1>9. Depth(d) <= Depth(f.body)
  BY <1>1, <1>3, <1>7
<1> HIDE DEF f, self
<1> QED
  BY <1>3, <1>5, <1>6, <1>8, <1>9 DEF FrameOK, f

-----------------------------------------------------------------------------
(* The stack, when its last activation goes on, calls and returns          *)

LEMMA StackShape ==
  ASSUME NEW p, NEW s, Stack(p, s)
  PROVE  /\ s \in Seq(Activations)
         /\ Len(s) \in Nat /\ Len(s) >= 1
         /\ DOMAIN s = 1 .. Len(s)
         /\ \A i \in 1 .. Len(s) : s[i] \in Activations /\ FrameOK(p, s[i]) /\ (Waits(s[i]) <=> i # Len(s))
         /\ FrameOK(p, s[Len(s)]) /\ ~Waits(s[Len(s)])
         /\ Pending(s[Len(s)]) = s[Len(s)].e
<1>1. s \in Seq(Activations) /\ s # <<>>
  BY DEF Stack
<1>2. Len(s) \in Nat /\ Len(s) >= 1 /\ DOMAIN s = 1 .. Len(s)
  BY <1>1
<1>3. \A i \in 1 .. Len(s) : FrameOK(p, s[i]) /\ (Waits(s[i]) <=> i # Len(s))
  BY DEF Stack
<1>4. \A i \in 1 .. Len(s) : s[i] \in Activations
  BY <1>1
<1>5. FrameOK(p, s[Len(s)]) /\ ~Waits(s[Len(s)])
  <2>1. Len(s) \in 1 .. Len(s)
    BY <1>2
  <2> QED
    BY <1>3, <2>1
<1>6. Pending(s[Len(s)]) = s[Len(s)].e
  BY <1>5 DEF Pending
<1> QED
  BY <1>1, <1>2, <1>3, <1>4, <1>5, <1>6

(* What an activation gives in place of another.                           *)
Replaces(p, frame, old) ==
  /\ frame.spec = old.spec
  /\ \A v : Gives(p, frame, v) => Gives(p, old, v)

LEMMA StackReplaced ==
  ASSUME NEW p, NEW s, Stack(p, s),
         NEW frame, FrameOK(p, frame), ~Waits(frame), Replaces(p, frame, s[Len(s)])
  PROVE  Stack(p, [s EXCEPT ![Len(s)] = frame])
<1> DEFINE n == Len(s)
           t == [s EXCEPT ![n] = frame]
<1>1. /\ s \in Seq(Activations) /\ n \in Nat /\ n >= 1 /\ DOMAIN s = 1 .. n
      /\ \A i \in 1 .. n : FrameOK(p, s[i]) /\ (Waits(s[i]) <=> i # n)
  BY StackShape
<1>2. frame \in Activations
  BY DEF FrameOK
<1>3. t \in Seq(Activations) /\ Len(t) = n /\ DOMAIN t = 1 .. n
  BY <1>1, <1>2
<1>4. t[n] = frame /\ \A i \in 1 .. n - 1 : t[i] = s[i]
  BY <1>1
<1>5. (\A v : Gives(p, s[1], v) => Means(Start(p), v)) /\ \A i \in 1 .. n - 1 : Above(p, s[i], s[i + 1])
  BY DEF Stack
<1> HIDE DEF t, n
<1>6. t # <<>>
  BY <1>1, <1>3
<1>7. \A i \in 1 .. n : FrameOK(p, t[i]) /\ (Waits(t[i]) <=> i # n)
  <2> SUFFICES ASSUME NEW i \in 1 .. n PROVE FrameOK(p, t[i]) /\ (Waits(t[i]) <=> i # n)
    OBVIOUS
  <2>1. CASE i = n
    BY <1>4, <2>1
  <2>2. CASE i # n
    <3>1. i \in 1 .. n - 1
      BY <1>1, <2>2
    <3> QED
      BY <1>1, <1>4, <3>1
  <2> QED
    BY <2>1, <2>2
<1>8. \A v : Gives(p, t[1], v) => Means(Start(p), v)
  <2>1. CASE n = 1
    BY <1>4, <1>5, <2>1 DEF Replaces, n
  <2>2. CASE n # 1
    <3>1. 1 \in 1 .. n - 1
      BY <1>1, <2>2
    <3> QED
      BY <1>4, <1>5, <3>1
  <2> QED
    BY <2>1, <2>2
<1>9. \A i \in 1 .. n - 1 : Above(p, t[i], t[i + 1])
  <2> SUFFICES ASSUME NEW i \in 1 .. n - 1 PROVE Above(p, t[i], t[i + 1])
    OBVIOUS
  <2>1. t[i] = s[i] /\ Above(p, s[i], s[i + 1])
    BY <1>4, <1>5
  <2>2. CASE i + 1 = n
    <3>1. t[i + 1] = frame /\ s[i + 1] = s[n]
      BY <1>4, <2>2
    <3> QED
      BY <2>1, <3>1 DEF Above, Replaces, n
  <2>3. CASE i + 1 # n
    <3>1. i + 1 \in 1 .. n - 1
      BY <1>1, <2>3
    <3> QED
      BY <1>4, <2>1, <3>1
  <2> QED
    BY <2>2, <2>3
<1> QED
  BY <1>3, <1>6, <1>7, <1>8, <1>9 DEF Stack, t, n

LEMMA StackPushed ==
  ASSUME NEW p, NEW s, Stack(p, s),
         NEW caller, FrameOK(p, caller), Waits(caller), Replaces(p, caller, s[Len(s)]),
         NEW frame, FrameOK(p, frame), ~Waits(frame), Above(p, caller, frame)
  PROVE  Stack(p, Append([s EXCEPT ![Len(s)] = caller], frame))
<1> DEFINE n == Len(s)
           t == Append([s EXCEPT ![n] = caller], frame)
<1>1. /\ s \in Seq(Activations) /\ n \in Nat /\ n >= 1 /\ DOMAIN s = 1 .. n
      /\ \A i \in 1 .. n : FrameOK(p, s[i]) /\ (Waits(s[i]) <=> i # n)
  BY StackShape
<1>2. frame \in Activations /\ caller \in Activations
  BY DEF FrameOK
<1>3. /\ t \in Seq(Activations) /\ Len(t) = n + 1 /\ t[n + 1] = frame /\ t[n] = caller
      /\ \A i \in 1 .. n - 1 : t[i] = s[i]
  <2> DEFINE u == [s EXCEPT ![n] = caller]
  <2>1. /\ u \in Seq(Activations) /\ Len(u) = n /\ DOMAIN u = 1 .. n
        /\ u[n] = caller /\ \A i \in 1 .. n - 1 : u[i] = s[i]
    BY <1>1, <1>2
  <2> HIDE DEF u, n
  <2>2. /\ Append(u, frame) \in Seq(Activations) /\ Len(Append(u, frame)) = n + 1
        /\ Append(u, frame)[n + 1] = frame /\ \A i \in 1 .. n : Append(u, frame)[i] = u[i]
    BY <1>1, <1>2, <2>1
  <2> QED
    BY <1>1, <2>1, <2>2 DEF u
<1>5. (\A v : Gives(p, s[1], v) => Means(Start(p), v)) /\ \A i \in 1 .. n - 1 : Above(p, s[i], s[i + 1])
  BY DEF Stack
<1> HIDE DEF t, n
<1>6. t # <<>>
  BY <1>1, <1>3
<1>7. \A i \in 1 .. n + 1 : FrameOK(p, t[i]) /\ (Waits(t[i]) <=> i # n + 1)
  <2> SUFFICES ASSUME NEW i \in 1 .. n + 1 PROVE FrameOK(p, t[i]) /\ (Waits(t[i]) <=> i # n + 1)
    OBVIOUS
  <2>1. CASE i = n + 1
    BY <1>3, <2>1
  <2>2. CASE i = n
    BY <1>1, <1>3, <2>2
  <2>3. CASE i # n /\ i # n + 1
    <3>1. i \in 1 .. n - 1 /\ i \in 1 .. n /\ i # n
      BY <1>1, <2>3
    <3> QED
      BY <1>1, <1>3, <2>3, <3>1
  <2> QED
    BY <2>1, <2>2, <2>3
<1>8. \A v : Gives(p, t[1], v) => Means(Start(p), v)
  <2>1. CASE n = 1
    BY <1>3, <1>5, <2>1 DEF Replaces, n
  <2>2. CASE n # 1
    <3>1. 1 \in 1 .. n - 1
      BY <1>1, <2>2
    <3> QED
      BY <1>3, <1>5, <3>1
  <2> QED
    BY <2>1, <2>2
<1>9. \A i \in 1 .. n : Above(p, t[i], t[i + 1])
  <2> SUFFICES ASSUME NEW i \in 1 .. n PROVE Above(p, t[i], t[i + 1])
    OBVIOUS
  <2>1. CASE i = n
    BY <1>3, <2>1
  <2>2. CASE i # n
    <3>1. i \in 1 .. n - 1
      BY <1>1, <2>2
    <3>2. t[i] = s[i] /\ Above(p, s[i], s[i + 1])
      BY <1>3, <1>5, <3>1
    <3>3. CASE i + 1 = n
      <4>1. t[i + 1] = caller /\ s[i + 1] = s[n]
        BY <1>3, <3>3
      <4> QED
        BY <3>2, <4>1 DEF Above, Replaces, n
    <3>4. CASE i + 1 # n
      <4>1. i + 1 \in 1 .. n - 1
        BY <1>1, <3>1, <3>4
      <4> QED
        BY <1>3, <3>2, <4>1
    <3> QED
      BY <3>3, <3>4
  <2> QED
    BY <2>1, <2>2
<1>10. Len(t) - 1 = n
  BY <1>1, <1>3
<1> QED
  BY <1>3, <1>6, <1>7, <1>8, <1>9, <1>10 DEF Stack, t, n

LEMMA StackPopped ==
  ASSUME NEW p, NEW s, Stack(p, s), Len(s) > 1,
         NEW frame, FrameOK(p, frame), ~Waits(frame), Replaces(p, frame, s[Len(s) - 1])
  PROVE  Stack(p, Append(SubSeq(s, 1, Len(s) - 2), frame))
<1> DEFINE n == Len(s)
           t == Append(SubSeq(s, 1, n - 2), frame)
<1>1. /\ s \in Seq(Activations) /\ n \in Nat /\ n > 1 /\ DOMAIN s = 1 .. n
      /\ \A i \in 1 .. n : FrameOK(p, s[i]) /\ (Waits(s[i]) <=> i # n)
  BY StackShape
<1>2. frame \in Activations
  BY DEF FrameOK
<1>3. /\ t \in Seq(Activations) /\ Len(t) = n - 1 /\ t[n - 1] = frame
      /\ \A i \in 1 .. n - 2 : t[i] = s[i]
  <2> DEFINE u == SubSeq(s, 1, n - 2)
  <2> HIDE DEF n
  <2>1. u \in Seq(Activations) /\ Len(u) = n - 2 /\ \A i \in 1 .. n - 2 : u[i] = s[i]
    <3>1. u = [i \in 1 .. n - 2 |-> s[i]]
      BY <1>1
    <3>2. \A i \in 1 .. n - 2 : s[i] \in Activations
      BY <1>1
    <3>3. n - 2 \in Nat
      BY <1>1
    <3> QED
      BY <3>1, <3>2, <3>3
  <2> HIDE DEF u
  <2>2. /\ Append(u, frame) \in Seq(Activations) /\ Len(Append(u, frame)) = n - 1
        /\ Append(u, frame)[n - 1] = frame /\ \A i \in 1 .. n - 2 : Append(u, frame)[i] = u[i]
    BY <1>1, <1>2, <2>1
  <2> QED
    BY <1>1, <2>1, <2>2 DEF u
<1>5. (\A v : Gives(p, s[1], v) => Means(Start(p), v)) /\ \A i \in 1 .. n - 1 : Above(p, s[i], s[i + 1])
  BY DEF Stack
<1>6. t # <<>>
  <2> HIDE DEF t, n
  <2> QED
    BY <1>1, <1>3
<1>7. \A v : Gives(p, frame, v) => Gives(p, s[n - 1], v)
  BY DEF Replaces
<1>8. frame.spec = s[n - 1].spec
  BY DEF Replaces
<1> HIDE DEF t, n
<1>9. \A i \in 1 .. n - 1 : FrameOK(p, t[i]) /\ (Waits(t[i]) <=> i # n - 1)
  <2> SUFFICES ASSUME NEW i \in 1 .. n - 1 PROVE FrameOK(p, t[i]) /\ (Waits(t[i]) <=> i # n - 1)
    OBVIOUS
  <2>1. CASE i = n - 1
    BY <1>3, <2>1
  <2>2. CASE i # n - 1
    <3>1. i \in 1 .. n - 2 /\ i \in 1 .. n /\ i # n
      BY <1>1, <2>2
    <3> QED
      BY <1>1, <1>3, <2>2, <3>1
  <2> QED
    BY <2>1, <2>2
<1>10. \A v : Gives(p, t[1], v) => Means(Start(p), v)
  <2>1. CASE n = 2
    BY <1>3, <1>5, <1>7, <2>1
  <2>2. CASE n # 2
    <3>1. 1 \in 1 .. n - 2
      BY <1>1, <2>2
    <3> QED
      BY <1>3, <1>5, <3>1
  <2> QED
    BY <2>1, <2>2
<1>11. \A i \in 1 .. n - 2 : Above(p, t[i], t[i + 1])
  <2> SUFFICES ASSUME NEW i \in 1 .. n - 2 PROVE Above(p, t[i], t[i + 1])
    OBVIOUS
  <2>1. t[i] = s[i] /\ Above(p, s[i], s[i + 1])
    <3>1. i \in 1 .. n - 1
      BY <1>1
    <3> QED
      BY <1>3, <1>5, <3>1
  <2>2. CASE i + 1 = n - 1
    <3>1. t[i + 1] = frame /\ s[i + 1] = s[n - 1]
      BY <1>3, <2>2
    <3> QED
      BY <1>7, <1>8, <2>1, <3>1 DEF Above
  <2>3. CASE i + 1 # n - 1
    <3>1. i + 1 \in 1 .. n - 2
      BY <1>1, <2>3
    <3> QED
      BY <1>3, <2>1, <3>1
  <2> QED
    BY <2>2, <2>3
<1>12. Len(t) - 1 = n - 2
  BY <1>1, <1>3
<1> QED
  BY <1>3, <1>6, <1>9, <1>10, <1>11, <1>12 DEF Stack, t, n

-----------------------------------------------------------------------------
(* What an activation gives, as it runs                                    *)

LEMMA AnswerTyped ==
  ASSUME NEW p, NEW env, NEW v
  PROVE  WellTyped(p, Answer(v), env) /\ Atom(Answer(v).a, env) = v
BY DEF WellTyped, Answer, Read, NamesIn, Calls, Branches, Declares, Atom

(* An answer is what was answered.                                         *)
LEMMA AnswerGives ==
  ASSUME NEW p \in Programs, NEW frame, frame.env \in Envs, NEW v,
         Pending(frame) = Answer(v), NEW w, Gives(p, frame, w)
  PROVE  w = v
<1>1. CASE Answer(v) \in Exprs(p)
  <2> DEFINE c == <<p, Answer(v), frame.env>>
  <2>1. Answer(v) \in AllExprs /\ Answer(v).k = "ret"
    BY <1>1, ProgramShape, Kinds
  <2>2. c \in Configs
    BY <2>1 DEF Configs
  <2>3. Means(c, v)
    BY <2>1, AnswerTyped, MeansRules
  <2>4. Means(c, w)
    BY <1>1 DEF Gives
  <2> HIDE DEF c
  <2>5. PICK n \in Nat : v \in Eval[n][c]
    BY <2>3 DEF Means
  <2> QED
    BY <2>2, <2>4, <2>5, MeansOne
<1>2. CASE Answer(v) \notin Exprs(p)
  BY <1>2, Kinds DEF Gives
<1> QED
  BY <1>1, <1>2

(* The value of the operand that an activation returns is what it gives.   *)
LEMMA ReturnGives ==
  ASSUME NEW p \in Programs, NEW frame, FrameOK(p, frame), ~Waits(frame),
         frame.e.k = "ret", WellTyped(p, frame.e, frame.env)
  PROVE  /\ Atom(frame.e.a, frame.env) \in Int
         /\ Gives(p, frame, Atom(frame.e.a, frame.env))
<1>1. Pending(frame) = frame.e /\ frame.env \in Envs
  BY FrameShape DEF Pending
<1>2. CASE frame.e \in Exprs(p)
  <2>1. frame.e \in AllExprs
    BY <1>2, ProgramShape
  <2>2. Atom(frame.e.a, frame.env) \in Int
    BY <1>1, <2>1, Onwards
  <2>3. Means(<<p, frame.e, frame.env>>, Atom(frame.e.a, frame.env))
    BY <1>1, <2>1, MeansRules
  <2> QED
    BY <1>1, <1>2, <2>2, <2>3 DEF Gives
<1>3. CASE frame.e \notin Exprs(p)
  <2>1. PICK v \in Int : frame.e = Answer(v)
    BY <1>1, <1>3 DEF FrameOK
  <2>2. Atom(frame.e.a, frame.env) = v
    BY <2>1, AnswerTyped
  <2>3. frame.e.a.n = v
    BY <2>1, Kinds
  <2> QED
    BY <1>1, <1>3, <2>2, <2>3 DEF Gives
<1> QED
  BY <1>2, <1>3

LEMMA StackMoves ==
  ASSUME NEW p \in Programs, NEW s, Stack(p, s), NEW frame, frame = s[Len(s)],
         frame.e \in Exprs(p), WellTyped(p, frame.e, frame.env), Moves(frame.e),
         NEW d, NEW to, After(p, frame.e, frame.env) = <<p, d, to>>
  PROVE  Stack(p, [s EXCEPT ![Len(s)] = [spec |-> frame.spec, env |-> to, e |-> d]])
<1> DEFINE next == [spec |-> frame.spec, env |-> to, e |-> d]
<1>1. FrameOK(p, frame) /\ ~Waits(frame) /\ Pending(frame) = frame.e
  BY StackShape
<1>2. frame.env \in Envs /\ frame.e \in AllExprs
  BY <1>1, FrameShape, ProgramShape
<1>3. GoesTo(p, frame.e, frame.env, d, to)
  <2>1. PICK d2, to2 : /\ After(p, frame.e, frame.env) = <<p, d2, to2>>
                       /\ GoesTo(p, frame.e, frame.env, d2, to2)
    BY <1>2, MovesGo
  <2>2. d2 = d /\ to2 = to
    BY <2>1
  <2> QED
    BY <2>1, <2>2
<1>4. FrameOK(p, next) /\ ~Waits(next) /\ Pending(next) = d /\ d \in Exprs(p)
  BY <1>1, <1>3, FrameGoesOn
<1>5. Replaces(p, next, frame)
  <2>1. next.spec = frame.spec /\ next.env = to
    OBVIOUS
  <2> HIDE DEF next
  <2> SUFFICES ASSUME NEW v, Gives(p, next, v) PROVE Gives(p, frame, v)
    BY <2>1 DEF Replaces
  <2>2. Means(After(p, frame.e, frame.env), v)
    BY <1>4, <2>1 DEF Gives
  <2>3. Means(<<p, frame.e, frame.env>>, v)
    BY <1>2, <2>2, MeansRules
  <2> QED
    BY <1>1, <2>3 DEF Gives
<1> HIDE DEF next
<1>6. Stack(p, [s EXCEPT ![Len(s)] = next])
  BY <1>4, <1>5, StackReplaced
<1> QED
  BY <1>6 DEF next

LEMMA FrameChanged ==
  ASSUME NEW spec, NEW env, NEW e, NEW to, NEW d,
         NEW frame, frame = [spec |-> spec, env |-> env, e |-> e]
  PROVE  [frame EXCEPT !.e = d, !.env = to] = [spec |-> spec, env |-> to, e |-> d]
<1> DEFINE mid == [frame EXCEPT !.e = d]
<1>1. mid = [spec |-> spec, env |-> env, e |-> d]
  OBVIOUS
<1>2. [frame EXCEPT !.e = d, !.env = to] = [mid EXCEPT !.env = to]
  OBVIOUS
<1> HIDE DEF mid
<1>3. [mid EXCEPT !.env = to] = [spec |-> spec, env |-> to, e |-> d]
  BY <1>1
<1> QED
  BY <1>2, <1>3

LEMMA StackReturns ==
  ASSUME NEW p \in Programs, NEW s, Stack(p, s), Len(s) > 1, NEW frame, frame = s[Len(s)],
         frame.e.k = "ret", WellTyped(p, frame.e, frame.env),
         NEW v, v = Atom(frame.e.a, frame.env),
         NEW caller, caller = s[Len(s) - 1], NEW waits, waits = caller.e.e
  PROVE  /\ waits.k = "app" => Stack(p, Append(SubSeq(s, 1, Len(s) - 2), [caller EXCEPT !.e = Answer(v)]))
         /\ waits.k # "app" =>
              Stack(p, Append(SubSeq(s, 1, Len(s) - 2),
                              [caller EXCEPT !.e = waits.e, !.env = With(@, waits.x, Value(v))]))
<1>1. FrameOK(p, frame) /\ ~Waits(frame)
  BY StackShape
<1>2. v \in Int /\ Gives(p, frame, v)
  BY <1>1, ReturnGives
<1>3. FrameOK(p, caller) /\ Waits(caller) /\ Above(p, caller, frame)
  <2>1. Len(s) - 1 \in 1 .. Len(s) /\ Len(s) - 1 # Len(s) /\ Len(s) - 1 \in 1 .. Len(s) - 1
        /\ (Len(s) - 1) + 1 = Len(s)
    BY StackShape
  <2>2. Above(p, s[Len(s) - 1], s[(Len(s) - 1) + 1])
    BY <2>1 DEF Stack
  <2> QED
    BY <2>1, <2>2, StackShape
<1>4. Pending(caller) = waits /\ waits \in Exprs(p) /\ Calls(waits) /\ WellTyped(p, waits, caller.env)
  BY <1>3 DEF FrameOK, Pending
<1>5. /\ caller = [spec |-> caller.spec, env |-> caller.env, e |-> caller.e]
      /\ caller.env \in Envs /\ caller.spec \in Specs /\ waits \in AllExprs
  BY <1>3, <1>4, FrameShape, ProgramShape
<1>6. Means(Target(p, TheCall(waits), caller.env), v)
  BY <1>2, <1>3 DEF Above
<1>7. ASSUME waits.k = "app"
      PROVE  Stack(p, Append(SubSeq(s, 1, Len(s) - 2), [caller EXCEPT !.e = Answer(v)]))
  <2> DEFINE next == [caller EXCEPT !.e = Answer(v)]
  <2>1. /\ next.spec = caller.spec /\ next.env = caller.env /\ next.e = Answer(v)
        /\ next = [spec |-> caller.spec, env |-> caller.env, e |-> Answer(v)]
    BY <1>5
  <2> HIDE DEF next
  <2>2. ~Waits(next) /\ Pending(next) = Answer(v)
    BY <2>1, Kinds DEF Waits, Pending
  <2>3. next \in Activations
    BY <1>2, <1>5, <2>1 DEF Activations
  <2>4. FindsHeader(p, next)
    <3>1. Answer(v) \in Exprs(p) => TailCallsOf[Answer(v)] = {}
      <4> SUFFICES ASSUME Answer(v) \in Exprs(p) PROVE TailCallsOf[Answer(v)] = {}
        OBVIOUS
      <4>1. TailCallsOf[Answer(v)] = TailCallsBelow(TailCallsOf, Answer(v))
        BY ProgramShape, TailCallsEquation
      <4> QED
        BY <4>1, Kinds DEF TailCallsBelow, Declares
    <3> QED
      BY <2>2, <3>1 DEF FindsHeader
  <2>5. FrameOK(p, next)
    BY <1>2, <1>3, <2>1, <2>2, <2>3, <2>4 DEF FrameOK
  <2>6. Means(<<p, waits, caller.env>>, v)
    BY <1>4, <1>5, <1>6, <1>7, MeansRules DEF TheCall
  <2>7. Gives(p, caller, v)
    BY <1>4, <2>6 DEF Gives
  <2>8. Replaces(p, next, caller)
    BY <1>5, <2>1, <2>2, <2>7, AnswerGives DEF Replaces
  <2>9. Stack(p, Append(SubSeq(s, 1, Len(s) - 2), next))
    BY <2>2, <2>5, <2>8, StackPopped
  <2> QED
    BY <2>9 DEF next
<1>8. ASSUME waits.k # "app"
      PROVE  Stack(p, Append(SubSeq(s, 1, Len(s) - 2),
                             [caller EXCEPT !.e = waits.e, !.env = With(@, waits.x, Value(v))]))
  <2> DEFINE to == With(caller.env, waits.x, Value(v))
             next == [caller EXCEPT !.e = waits.e, !.env = With(@, waits.x, Value(v))]
  <2>1. next = [spec |-> caller.spec, env |-> to, e |-> waits.e]
    <3>1. next = [caller EXCEPT !.e = waits.e, !.env = to]
      OBVIOUS
    <3> HIDE DEF next, to
    <3> QED
      BY <1>5, <3>1, FrameChanged, Zenon
  <2>2. BindsCall(waits) /\ TheCall(waits) = waits.r
    BY <1>4, <1>8 DEF Calls, BindsCall, TheCall
  <2>3. Resumed(p, waits, caller.env, v) = <<p, waits.e, to>>
    BY DEF Resumed
  <2>4. GoesTo(p, waits, caller.env, waits.e, to)
    <3>1. PICK d2, to2 : /\ Resumed(p, waits, caller.env, v) = <<p, d2, to2>>
                         /\ GoesTo(p, waits, caller.env, d2, to2)
      BY <1>2, <1>4, <1>5, <2>2, ResumedGoes
    <3>2. d2 = waits.e /\ to2 = to
      BY <2>3, <3>1
    <3> QED
      BY <3>1, <3>2
  <2> HIDE DEF next, to
  <2>5. FrameOK(p, next) /\ ~Waits(next) /\ Pending(next) = waits.e /\ waits.e \in Exprs(p)
    BY <1>3, <1>4, <2>1, <2>4, FrameGoesOn
  <2>6. Replaces(p, next, caller)
    <3>1. next.spec = caller.spec /\ next.env = to
      BY <2>1
    <3> SUFFICES ASSUME NEW u, Gives(p, next, u) PROVE Gives(p, caller, u)
      BY <3>1 DEF Replaces
    <3>2. Means(Resumed(p, waits, caller.env, v), u)
      BY <2>3, <2>5, <3>1 DEF Gives
    <3>3. Means(<<p, waits, caller.env>>, u)
      BY <1>4, <1>5, <1>6, <2>2, <3>2, MeansRules
    <3> QED
      BY <1>4, <3>3 DEF Gives
  <2>7. Stack(p, Append(SubSeq(s, 1, Len(s) - 2), next))
    BY <2>5, <2>6, StackPopped
  <2> QED
    BY <2>7 DEF next
<1> QED
  BY <1>7, <1>8

-----------------------------------------------------------------------------
(* Calls                                                                   *)

LEMMA BindingShape ==
  ASSUME NEW p \in Programs, NEW x, NEW f, <<x, f>> \in Bindings(p)
  PROVE  x \in Names /\ f \in LambdasOf(AllExprs) /\ f.body \in Exprs(p)
<1>1. CASE x \in DOMAIN p.globals /\ f = p.globals[x]
  <2>1. x \in Names /\ f \in LambdasOf(Exprs(p)) /\ Exprs(p) \subseteq AllExprs
    BY <1>1, TailCallsAssumption DEF AllExprs
  <2> QED
    BY <2>1, LambdasGrow, LambdaShape
<1>2. CASE \E e \in Exprs(p) : Declares(e) /\ e.r.k = "lambda" /\ x = e.x /\ f = e.r.f
  <2>1. PICK e \in Exprs(p) : Declares(e) /\ e.r.k = "lambda" /\ x = e.x /\ f = e.r.f
    BY <1>2
  <2>2. e \in AllExprs /\ e.r.f.body \in Parts(e)
    BY <2>1, ProgramShape DEF Parts, Branches, Declares
  <2>3. e.x \in Names /\ e.r \in InitializersOf(AllExprs)
    BY <2>1, <2>2, AllShape
  <2> QED
    BY <2>1, <2>2, <2>3, ProgramShape, InitializerShape
<1> QED
  BY <1>1, <1>2 DEF Bindings

(* The activation that a call makes.                                       *)
Made(p, call, env) ==
  [spec |-> SpecOf(p, call, env), env |-> Entered(p, call, env), e |-> SpecOf(p, call, env).f.body]

LEMMA MadeOK ==
  ASSUME NEW p \in Programs, NEW e \in Exprs(p), NEW env \in Envs, Known(p, env),
         WellTyped(p, e, env), Calls(e), NEW call, call = TheCall(e)
  PROVE  LET made == Made(p, call, env)
         IN /\ FrameOK(p, made) /\ ~Waits(made)
            /\ <<made.spec.self, made.spec.f>> \in Bindings(p)
            /\ \A v : Gives(p, made, v) => Means(Target(p, call, env), v)
<1> DEFINE spec == SpecOf(p, call, env)
           to == Entered(p, call, env)
           made == Made(p, call, env)
<1>1. e \in AllExprs
  BY ProgramShape
<1>2. /\ call.f \in Names
      /\ spec.f = Callee(p, env, call.f) /\ spec.self = call.f
      /\ spec.captures = Captures(spec.f, env)
      /\ Atoms(call.as, env) \in Seq(Int)
      /\ Len(Atoms(call.as, env)) = Len(spec.f.params)
      /\ spec.f \in LambdasOf(AllExprs)
      /\ to \in Envs
  BY <1>1, CallShape
<1>3. <<spec.self, spec.f>> \in Bindings(p)
  <2>1. CASE IsLambda(env, call.f)
    BY <1>2, <2>1 DEF Known, Callee
  <2>2. CASE ~IsLambda(env, call.f)
    <3>1. call.f \in DOMAIN p.globals
      BY <2>2 DEF WellTyped
    <3> QED
      BY <1>2, <2>2, <3>1 DEF Callee, Bindings
  <2> QED
    BY <2>1, <2>2
<1>4. spec.f.body \in Exprs(p) /\ spec.f.body \in AllExprs /\ Depth(spec.f.body) \in Nat
  BY <1>3, BindingShape, ProgramShape
<1>5. spec \in Specs
  <2>1. spec = [f |-> spec.f, self |-> spec.self, captures |-> spec.captures]
    BY DEF SpecOf, Spec
  <2>2. spec.captures \subseteq Names
    BY <1>2, LambdaShape DEF Captures
  <2> HIDE DEF spec
  <2>3. spec.f \in Bodies
    BY <1>2 DEF LambdasOf, Bodies
  <2> QED
    BY <1>2, <2>1, <2>2, <2>3 DEF Specs
<1>6. Known(p, to)
  <2> SUFFICES ASSUME NEW x \in Names, IsLambda(to, x) PROVE <<x, to[x].f>> \in Bindings(p)
    BY DEF Known
  <2>1. \/ x = spec.self /\ to[x] = Lambda(spec.f)
        \/ x \in spec.captures /\ to[x] = env[x]
    BY <1>2, InputsType DEF Entered
  <2>2. CASE x = spec.self /\ to[x] = Lambda(spec.f)
    BY <1>3, <2>2 DEF Lambda
  <2>3. CASE x \in spec.captures /\ to[x] = env[x]
    BY <1>2, <2>3 DEF Captures, IsValue, IsLambda
  <2> QED
    BY <2>1, <2>2, <2>3
<1>7. made.spec = spec /\ made.env = to /\ made.e = spec.f.body
      /\ made = [spec |-> spec, env |-> to, e |-> spec.f.body]
  BY DEF Made
<1>8. Target(p, call, env) = <<p, spec.f.body, to>>
  BY DEF Target
<1> HIDE DEF spec, to, made
<1>9. ~Waits(made) /\ Pending(made) = spec.f.body
  BY <1>4, <1>7, Kinds DEF Waits, Pending
<1>10. made \in Activations
  BY <1>2, <1>4, <1>5, <1>7 DEF Activations
<1>11. FindsHeader(p, made)
  BY <1>7, <1>9 DEF FindsHeader, HasHeader
<1>12. FrameOK(p, made)
  BY <1>3, <1>4, <1>6, <1>7, <1>9, <1>10, <1>11 DEF FrameOK
<1>13. \A v : Gives(p, made, v) => Means(Target(p, call, env), v)
  BY <1>4, <1>7, <1>8, <1>9 DEF Gives
<1> QED
  BY <1>3, <1>7, <1>9, <1>12, <1>13 DEF made

(* A symbol stands for one specialization.                                 *)
LEMMA SymbolIsSpec ==
  ASSUME NEW p \in Programs, WellNamed(p), NEW frame, FrameOK(p, frame),
         NEW spec \in Specs, <<spec.self, spec.f>> \in Bindings(p),
         Symbol(spec) = Symbol(frame.spec)
  PROVE  spec = frame.spec
<1>1. frame.spec \in Specs
  BY FrameShape
<1>2. spec.f.sym = frame.spec.f.sym /\ spec.captures = frame.spec.captures
  BY DEF Symbol
<1>3. CASE frame.spec = MainSpec(p.main)
  <2>1. frame.spec.f.sym = "__main"
    BY <1>3 DEF MainSpec
  <2>2. spec.f.sym # "__main"
    BY DEF WellNamed
  <2> QED
    BY <1>2, <2>1, <2>2
<1>4. CASE <<frame.spec.self, frame.spec.f>> \in Bindings(p)
  <2>1. <<spec.self, spec.f>> = <<frame.spec.self, frame.spec.f>>
    BY <1>2, <1>4 DEF WellNamed
  <2>2. /\ spec = [f |-> spec.f, self |-> spec.self, captures |-> spec.captures]
        /\ frame.spec = [f |-> frame.spec.f, self |-> frame.spec.self, captures |-> frame.spec.captures]
    BY <1>1 DEF Specs
  <2> QED
    BY <1>2, <2>1, <2>2
<1> QED
  BY <1>3, <1>4 DEF FrameOK

LEMMA StackCalls ==
  ASSUME NEW p \in Programs, NEW s, Stack(p, s), NEW frame, frame = s[Len(s)],
         frame.e \in Exprs(p), WellTyped(p, frame.e, frame.env), Calls(frame.e),
         NEW call, call = TheCall(frame.e),
         Symbol(frame.spec) = Symbol(SpecOf(p, call, frame.env)) => frame.e.k # "app"
  PROVE  Stack(p, Append([s EXCEPT ![Len(s)] = [frame EXCEPT !.e = Waiting(frame.e)]],
                         Made(p, call, frame.env)))
<1> DEFINE waiting == [frame EXCEPT !.e = Waiting(frame.e)]
           made == Made(p, call, frame.env)
<1>1. FrameOK(p, frame) /\ ~Waits(frame) /\ Pending(frame) = frame.e
  BY StackShape
<1>2. /\ frame = [spec |-> frame.spec, env |-> frame.env, e |-> frame.e]
      /\ frame.env \in Envs /\ frame.spec \in Specs
      /\ frame.e \in AllExprs /\ Known(p, frame.env)
  BY <1>1, FrameShape, ProgramShape DEF FrameOK
<1>3. /\ waiting = [spec |-> frame.spec, env |-> frame.env, e |-> Waiting(frame.e)]
      /\ waiting.spec = frame.spec /\ waiting.env = frame.env /\ waiting.e = Waiting(frame.e)
  BY <1>2
<1>4. /\ FrameOK(p, made) /\ ~Waits(made)
      /\ \A v : Gives(p, made, v) => Means(Target(p, call, frame.env), v)
  BY <1>2, MadeOK
<1>5. made.spec = SpecOf(p, call, frame.env)
  BY DEF Made
<1> HIDE DEF waiting, made
<1>6. Waits(waiting) /\ Pending(waiting) = frame.e /\ waiting.e.e = frame.e
  BY <1>3, Kinds DEF Waits, Pending
<1>7. waiting \in Activations
  BY <1>2, <1>3 DEF Activations
<1>8. FindsHeader(p, waiting)
  BY <1>1, <1>3, <1>6 DEF FrameOK, FindsHeader
<1>9. FrameOK(p, waiting)
  BY <1>1, <1>3, <1>6, <1>7, <1>8 DEF FrameOK
<1>10. Replaces(p, waiting, frame)
  BY <1>1, <1>3, <1>6 DEF Replaces, Gives
<1>11. Above(p, waiting, made)
  BY <1>3, <1>4, <1>5, <1>6 DEF Above
<1>12. Stack(p, Append([s EXCEPT ![Len(s)] = waiting], made))
  BY <1>4, <1>6, <1>9, <1>10, <1>11, StackPushed
<1> QED
  BY <1>12 DEF waiting, made

LEMMA StackLoops ==
  ASSUME NEW p \in Programs, NEW s, Stack(p, s), NEW frame, frame = s[Len(s)],
         frame.e \in Exprs(p), WellTyped(p, frame.e, frame.env), frame.e.k = "app",
         frame.spec = SpecOf(p, frame.e, frame.env)
  PROVE  Stack(p, [s EXCEPT ![Len(s)] = Made(p, frame.e, frame.env)])
<1> DEFINE made == Made(p, frame.e, frame.env)
<1>1. FrameOK(p, frame) /\ ~Waits(frame) /\ Pending(frame) = frame.e
  BY StackShape
<1>2. frame.env \in Envs /\ frame.e \in AllExprs /\ Known(p, frame.env)
  BY <1>1, FrameShape, ProgramShape DEF FrameOK
<1>3. Calls(frame.e) /\ frame.e = TheCall(frame.e)
  BY DEF Calls, TheCall
<1>4. /\ FrameOK(p, made) /\ ~Waits(made)
      /\ \A v : Gives(p, made, v) => Means(Target(p, frame.e, frame.env), v)
  BY <1>2, <1>3, MadeOK
<1>5. made.spec = frame.spec
  BY DEF Made
<1> HIDE DEF made
<1>6. ASSUME NEW v, Gives(p, made, v) PROVE Gives(p, frame, v)
  <2>1. Means(<<p, frame.e, frame.env>>, v)
    BY <1>2, <1>4, <1>6, MeansRules
  <2> QED
    BY <1>1, <2>1 DEF Gives
<1>7. Replaces(p, made, frame)
  BY <1>5, <1>6 DEF Replaces
<1>8. Stack(p, [s EXCEPT ![Len(s)] = made])
  BY <1>4, <1>7, StackReplaced
<1> QED
  BY <1>8 DEF made

-----------------------------------------------------------------------------
(* The invariant                                                           *)

LEMMA LoopInvInit ==
  ASSUME \A p \in Programs : WellNamed(p)
  PROVE  Init => LoopInv
<1> SUFFICES ASSUME Init PROVE LoopInv
  OBVIOUS
<1> DEFINE p == program
           frame == [spec |-> MainSpec(p.main), env |-> NoEnv, e |-> p.main]
<1>1. program \in Programs /\ frames = <<frame>> /\ result = <<>>
  BY DEF Init
<1>2. p.main \in Exprs(p) /\ p.main \in AllExprs /\ Depth(p.main) \in Nat
  BY <1>1, TailCallsAssumption, ProgramShape
<1>3. NoEnv \in Envs /\ Known(p, NoEnv)
  BY EntriesMade DEF NoEnv, Envs, Known, IsLambda, Unbound
<1>4. MainSpec(p.main) \in Specs
  <2>1. [sym |-> "__main", params |-> <<>>, free |-> {}, body |-> p.main] \in Bodies
    BY <1>2 DEF Bodies
  <2> QED
    BY <2>1 DEF MainSpec, Specs
<1>5. /\ frame.spec = MainSpec(p.main) /\ frame.env = NoEnv /\ frame.e = p.main
      /\ frame.spec.f.body = p.main
      /\ frame = [spec |-> MainSpec(p.main), env |-> NoEnv, e |-> p.main]
  BY DEF MainSpec
<1> HIDE DEF frame
<1>6. ~Waits(frame) /\ Pending(frame) = p.main
  BY <1>2, <1>5, Kinds DEF Waits, Pending
<1>7. frame \in Activations
  BY <1>2, <1>3, <1>4, <1>5 DEF Activations
<1>8. FindsHeader(p, frame)
  BY <1>5, <1>6 DEF FindsHeader, HasHeader
<1>9. FrameOK(p, frame)
  BY <1>2, <1>3, <1>5, <1>6, <1>7, <1>8 DEF FrameOK
<1>10. \A v : Gives(p, frame, v) => Means(Start(p), v)
  BY <1>2, <1>5, <1>6 DEF Gives, Start
<1>11. Stack(p, frames)
  <2>1. frames \in Seq(Activations) /\ frames # <<>> /\ Len(frames) = 1 /\ frames[1] = frame
    BY <1>1, <1>7
  <2> QED
    BY <1>6, <1>9, <1>10, <2>1 DEF Stack
<1>12. result \in Seq(Int) /\ Len(result) = 0
  BY <1>1
<1> QED
  BY <1>1, <1>11, <1>12 DEF LoopInv

(* What runs is an expression of the program, or an answer.                *)
LEMMA Running ==
  ASSUME LoopInv, NEW k, Runs(k)
  PROVE  /\ program \in Programs /\ WellNamed(program) /\ Stack(program, frames)
         /\ FrameOK(program, Frame)
         /\ Frame = [spec |-> Frame.spec, env |-> Env, e |-> Now]
         /\ Now.k = k /\ WellTyped(program, Now, Env) /\ Env \in Envs
         /\ k # "ret" => Now \in Exprs(program) /\ Now \in AllExprs
         /\ result = <<>>
<1>1. program \in Programs /\ WellNamed(program) /\ Stack(program, frames)
  BY DEF LoopInv
<1>2. FrameOK(program, Frame) /\ ~Waits(Frame) /\ Pending(Frame) = Now
  BY <1>1, StackShape DEF Frame, Now
<1>3. Frame = [spec |-> Frame.spec, env |-> Env, e |-> Now] /\ Env \in Envs
  BY <1>1, <1>2, FrameShape DEF Env, Now
<1>4. Now.k = k /\ WellTyped(program, Now, Env) /\ result = <<>>
  BY DEF Runs
<1>5. k # "ret" => Now \in Exprs(program)
  BY <1>2, <1>4, Kinds DEF FrameOK
<1> QED
  BY <1>1, <1>2, <1>3, <1>4, <1>5, ProgramShape

LEMMA LoopInvKept ==
  ASSUME LoopInv, UNCHANGED program, UNCHANGED result, Stack(program, frames')
  PROVE  LoopInv'
BY DEF LoopInv

LEMMA GotoKeeps ==
  ASSUME LoopInv, NEW k, Runs(k), Moves(Now), k # "ret",
         NEW d, NEW to, After(program, Now, Env) = <<program, d, to>>, Goto(d, to),
         UNCHANGED <<program, result>>
  PROVE  LoopInv'
<1>1. /\ program \in Programs /\ Stack(program, frames)
      /\ Frame = [spec |-> Frame.spec, env |-> Env, e |-> Now]
      /\ WellTyped(program, Now, Env) /\ Now \in Exprs(program)
  BY Running
<1>3. frames' = [frames EXCEPT ![Len(frames)] = [spec |-> Frame.spec, env |-> to, e |-> d]]
  BY DEF Goto
<1>4. Stack(program, [frames EXCEPT ![Len(frames)] = [spec |-> Frame.spec, env |-> to, e |-> d]])
  BY <1>1, StackMoves DEF Now, Env, Frame
<1> QED
  BY <1>3, <1>4, LoopInvKept

LEMMA CallKeeps ==
  ASSUME LoopInv, NEW k, Runs(k), k # "ret", Calls(Now), NEW call, call = TheCall(Now),
         Symbol(Frame.spec) = Symbol(SpecOf(program, call, Env)) => k # "app",
         Call(call.f, call.as), UNCHANGED <<program, result>>
  PROVE  LoopInv'
<1>1. /\ program \in Programs /\ Stack(program, frames)
      /\ WellTyped(program, Now, Env) /\ Now \in Exprs(program) /\ Now.k = k
  BY Running
<1>2. frames' = Append([frames EXCEPT ![Len(frames)] = [Frame EXCEPT !.e = Waiting(Frame.e)]],
                       Made(program, call, Env))
  BY DEF Call, Activation, Made, SpecOf, Entered, Frame, Now
<1>3. Stack(program, Append([frames EXCEPT ![Len(frames)] = [Frame EXCEPT !.e = Waiting(Frame.e)]],
                            Made(program, call, Env)))
  BY <1>1, StackCalls DEF Now, Env, Frame
<1> QED
  BY <1>2, <1>3, LoopInvKept

(* What IsSelfTailCall asks of the callee, it asks of the activation.      *)
LEMMA SelfCall ==
  ASSUME LoopInv, Runs("app")
  PROVE  /\ SpecOf(program, Now, Env) \in Specs
         /\ IsSelfTailCall => Frame.spec = SpecOf(program, Now, Env)
         /\ ~IsSelfTailCall => Symbol(Frame.spec) # Symbol(SpecOf(program, Now, Env))
<1> DEFINE spec == SpecOf(program, Now, Env)
<1>1. /\ program \in Programs /\ WellNamed(program) /\ FrameOK(program, Frame)
      /\ WellTyped(program, Now, Env) /\ Env \in Envs
      /\ Now \in Exprs(program) /\ Now \in AllExprs /\ Now.k = "app"
      /\ Stack(program, frames)
  BY Running
<1>2. Calls(Now) /\ Now = TheCall(Now) /\ Known(program, Env) /\ Pending(Frame) = Now
  BY <1>1, StackShape DEF Calls, TheCall, FrameOK, Env, Frame, Now
<1>3. spec.f = Callee(program, Env, Now.f) /\ spec.self = Now.f /\ Now.f \in Names
  BY <1>1, <1>2, CallShape
<1>4. FrameOK(program, Made(program, Now, Env)) /\ <<spec.self, spec.f>> \in Bindings(program)
  <2>1. Made(program, Now, Env).spec = spec
    BY DEF Made
  <2> QED
    BY <1>1, <1>2, <2>1, MadeOK
<1>5. spec \in Specs
  <2>1. Made(program, Now, Env).spec = spec
    BY DEF Made
  <2> QED
    BY <1>1, <1>4, <2>1, FrameShape
<1>6. IsSelfTailCall => Symbol(spec) = Symbol(Frame.spec)
  BY DEF IsSelfTailCall, SpecOf
<1>7. Symbol(spec) = Symbol(Frame.spec) => spec = Frame.spec
  BY <1>1, <1>4, <1>5, SymbolIsSpec
<1>8. ASSUME spec = Frame.spec PROVE IsSelfTailCall
  <2>1. Len(Now.as) = Len(Callee(program, Env, Now.f).params) /\ ~IsValue(Env, Now.f)
    BY <1>1, <1>2 DEF WellTyped
  <2>2. TailCallsOf[Now] = {<<Now.f, Len(Now.as)>>}
    BY <1>1, TailCallsOfParts
  <2>3. Frame.spec.f = Callee(program, Env, Now.f) /\ Frame.spec.self = Now.f
    BY <1>3, <1>8
  <2>4. <<Frame.spec.self, Frame.spec.f>> \in Bindings(program)
    BY <1>4, <1>8
  <2>5. <<Frame.spec.self, Len(Frame.spec.f.params)>> \in TailCallsOf[Pending(Frame)]
    BY <1>2, <2>1, <2>2, <2>3
  <2>6. HasHeader(Frame.spec)
    BY <1>1, <1>2, <2>1, <2>3, <2>4, <2>5 DEF FrameOK, FindsHeader, Env
  <2>7. Symbol(Spec(Callee(program, Env, Now.f), Now.f, Env)) = Symbol(Frame.spec)
    BY <1>8 DEF SpecOf
  <2> QED
    BY <2>1, <2>6, <2>7 DEF IsSelfTailCall
<1> QED
  BY <1>5, <1>6, <1>7, <1>8

LEMMA LoopBackKeeps ==
  ASSUME LoopInv, LoopBack
  PROVE  LoopInv'
<1>1. Runs("app") /\ IsSelfTailCall /\ UNCHANGED <<program, result>>
  BY DEF LoopBack, IsSelfTailCall
<1>2. /\ program \in Programs /\ Stack(program, frames)
      /\ Frame = [spec |-> Frame.spec, env |-> Env, e |-> Now]
      /\ WellTyped(program, Now, Env) /\ Now \in Exprs(program) /\ Now.k = "app"
  BY <1>1, Running
<1>3. Frame.spec = SpecOf(program, Now, Env)
  BY <1>1, SelfCall
<1>4. frames' = [frames EXCEPT ![Len(frames)] = Made(program, Now, Env)]
  <2> DEFINE d == Frame.spec.f.body
             to == Inputs(Frame.spec, Env, Atoms(Now.as, Env))
  <2>1. Goto(d, to)
    BY DEF LoopBack
  <2>2. Made(program, Now, Env) = [spec |-> Frame.spec, env |-> to, e |-> d]
    BY <1>3 DEF Made, Entered
  <2> HIDE DEF d, to
  <2> QED
    BY <2>1, <2>2 DEF Goto
<1>5. Stack(program, [frames EXCEPT ![Len(frames)] = Made(program, Now, Env)])
  BY <1>2, <1>3, StackLoops DEF Now, Env, Frame
<1> QED
  BY <1>1, <1>4, <1>5, LoopInvKept

LEMMA ReturnKeeps ==
  ASSUME LoopInv, Return
  PROVE  LoopInv'
<1> DEFINE v == Atom(Now.a, Env)
           caller == frames[Len(frames) - 1]
           waits == caller.e.e
           resumed == IF waits.k = "app" THEN [caller EXCEPT !.e = Answer(v)]
                      ELSE [caller EXCEPT !.e = waits.e, !.env = With(@, waits.x, Value(v))]
<1>1. Runs("ret") /\ UNCHANGED program
  BY DEF Return
<1>2. /\ program \in Programs /\ Stack(program, frames) /\ FrameOK(program, Frame)
      /\ WellTyped(program, Now, Env) /\ Now.k = "ret" /\ result = <<>>
  BY <1>1, Running
<1>3. ~Waits(Frame) /\ Len(frames) \in Nat /\ Len(frames) >= 1
  BY <1>2, StackShape DEF Frame
<1>4. CASE Len(frames) = 1 /\ result' = <<v>> /\ UNCHANGED frames
  <2>1. v \in Int /\ Gives(program, Frame, v)
    BY <1>2, <1>3, ReturnGives DEF Now, Env
  <2>2. Means(Start(program), v)
    BY <1>2, <1>4, <2>1 DEF Stack, Frame
  <2> HIDE DEF v
  <2>3. result' \in Seq(Int) /\ Len(result') = 1 /\ result'[1] = v
    BY <1>4, <2>1
  <2>4. \A i \in 1 .. Len(result') : Means(Start(program), result'[i])
    BY <2>2, <2>3
  <2> QED
    BY <1>1, <1>4, <2>3, <2>4 DEF LoopInv
<1>5. CASE Len(frames) > 1 /\ frames' = Append(SubSeq(frames, 1, Len(frames) - 2), resumed) /\ UNCHANGED result
  <2>1. /\ waits.k = "app" =>
             Stack(program, Append(SubSeq(frames, 1, Len(frames) - 2), [caller EXCEPT !.e = Answer(v)]))
        /\ waits.k # "app" =>
             Stack(program, Append(SubSeq(frames, 1, Len(frames) - 2),
                                   [caller EXCEPT !.e = waits.e, !.env = With(@, waits.x, Value(v))]))
    BY <1>2, <1>5, StackReturns DEF Now, Env, Frame
  <2>2. Stack(program, frames')
    BY <1>5, <2>1
  <2> QED
    BY <1>1, <1>5, <2>2, LoopInvKept
<1> QED
  BY <1>4, <1>5 DEF Return

LEMMA LoopInvNext ==
  ASSUME LoopInv, [Next]_vars
  PROVE  LoopInv'
<1>1. CASE Branch
  <2>1. Runs("if") /\ UNCHANGED <<program, result>>
    BY <1>1 DEF Branch
  <2>2. Now.k = "if"
    BY <2>1, Running
  <2>3. /\ Moves(Now)
        /\ After(program, Now, Env) = <<program, IF Atom(Now.a, Env) = 0 THEN Now.then ELSE Now.else, Env>>
    BY <2>2 DEF Moves, Branches, After, Declares
  <2>4. Goto(IF Atom(Now.a, Env) = 0 THEN Now.then ELSE Now.else, Env)
    BY <1>1 DEF Branch
  <2> QED
    BY <2>1, <2>3, <2>4, GotoKeeps
<1>2. CASE TakeCase
  <2>1. Runs("match") /\ UNCHANGED <<program, result>>
    BY <1>2 DEF TakeCase
  <2>2. Now.k = "match"
    BY <2>1, Running
  <2>3. /\ Moves(Now)
        /\ After(program, Now, Env) = IF Atom(Now.a, Env) = 0 THEN <<program, Now.then, Env>>
             ELSE <<program, Now.else, With(Env, Now.x, Value(Atom(Now.a, Env)))>>
    BY <2>2 DEF Moves, Branches, After, Declares
  <2>4. CASE Atom(Now.a, Env) = 0
    <3>1. Goto(Now.then, Env)
      BY <1>2, <2>4 DEF TakeCase
    <3> QED
      BY <2>1, <2>3, <2>4, <3>1, GotoKeeps
  <2>5. CASE Atom(Now.a, Env) # 0
    <3>1. Goto(Now.else, With(Env, Now.x, Value(Atom(Now.a, Env))))
      BY <1>2, <2>5 DEF TakeCase
    <3> QED
      BY <2>1, <2>3, <2>5, <3>1, GotoKeeps
  <2> QED
    BY <2>4, <2>5
<1>3. CASE BindValue
  <2>1. PICK k \in {"let", "block"} : Runs(k)
    BY <1>3 DEF BindValue, Binds
  <2>2. Now.k = k /\ Now.r.k = "atom" /\ UNCHANGED <<program, result>>
    BY <1>3, <2>1, Running DEF BindValue, Binds
  <2>3. /\ Moves(Now)
        /\ After(program, Now, Env) = <<program, Now.e, With(Env, Now.x, Value(Atom(Now.r.a, Env)))>>
    BY <2>2 DEF Moves, Branches, After, Declares
  <2>4. Goto(Now.e, With(Env, Now.x, Value(Atom(Now.r.a, Env))))
    BY <1>3 DEF BindValue
  <2> QED
    BY <2>1, <2>2, <2>3, <2>4, GotoKeeps
<1>4. CASE BindLambda
  <2>1. PICK k \in {"let", "block"} : Runs(k)
    BY <1>4 DEF BindLambda, Binds
  <2>2. Now.k = k /\ Now.r.k = "lambda" /\ UNCHANGED <<program, result>>
    BY <1>4, <2>1, Running DEF BindLambda, Binds
  <2>3. /\ Moves(Now)
        /\ After(program, Now, Env) = <<program, Now.e, With(Env, Now.x, Lambda(Now.r.f))>>
    BY <2>2 DEF Moves, Branches, After, Declares
  <2>4. Goto(Now.e, With(Env, Now.x, Lambda(Now.r.f)))
    BY <1>4 DEF BindLambda
  <2> QED
    BY <2>1, <2>2, <2>3, <2>4, GotoKeeps
<1>5. CASE CallForValue
  <2>1. PICK k \in {"let", "block"} : Runs(k)
    BY <1>5 DEF CallForValue, Binds
  <2>2. Now.k = k /\ Now.r.k = "call" /\ UNCHANGED <<program, result>>
    BY <1>5, <2>1, Running DEF CallForValue, Binds
  <2>3. Calls(Now) /\ TheCall(Now) = Now.r /\ k # "app" /\ k # "ret"
    BY <2>1, <2>2 DEF Calls, TheCall, Declares
  <2>4. Call(Now.r.f, Now.r.as)
    BY <1>5 DEF CallForValue
  <2> QED
    BY <2>1, <2>2, <2>3, <2>4, CallKeeps
<1>6. CASE LoopBack
  BY <1>6, LoopBackKeeps
<1>7. CASE CallAndReturn
  <2>1. Runs("app") /\ ~IsSelfTailCall /\ Call(Now.f, Now.as) /\ UNCHANGED <<program, result>>
    BY <1>7 DEF CallAndReturn
  <2>2. Calls(Now) /\ TheCall(Now) = Now
    BY <2>1, Running DEF Calls, TheCall
  <2>3. Symbol(Frame.spec) # Symbol(SpecOf(program, Now, Env))
    BY <2>1, SelfCall
  <2> QED
    BY <2>1, <2>2, <2>3, CallKeeps
<1>8. CASE Return
  BY <1>8, ReturnKeeps
<1>9. CASE UNCHANGED vars
  BY <1>9 DEF vars, LoopInv
<1> QED
  BY <1>1, <1>2, <1>3, <1>4, <1>5, <1>6, <1>7, <1>8, <1>9 DEF Next

-----------------------------------------------------------------------------
(* What the invariant gives                                                *)

LEMMA LoopInvStack ==
  ASSUME LoopInv
  PROVE  ConstantStack
<1> SUFFICES ASSUME NEW i \in 1 .. Len(frames) - 1,
                    Symbol(frames[i].spec) = Symbol(frames[i + 1].spec)
             PROVE  frames[i].e.e.k # "app"
  BY DEF ConstantStack
<1>1. Above(program, frames[i], frames[i + 1])
  BY DEF LoopInv, Stack
<1> QED
  BY <1>1 DEF Above

(* A result is the value of the program's recursion, which ends then.      *)
ResultIsValue == \A i \in 1 .. Len(result) : Means(Start(program), result[i])

LEMMA LoopInvResult ==
  ASSUME LoopInv
  PROVE  LoopIsRecursion
<1> DEFINE c == Start(program)
<1>1. program \in Programs /\ result \in Seq(Int)
  BY DEF LoopInv
<1>2. c = <<program, program.main, NoEnv>> /\ c \in Configs
  <2>1. program.main \in AllExprs
    BY <1>1, TailCallsAssumption, ProgramShape
  <2>2. NoEnv \in Envs
    BY EntriesMade DEF NoEnv, Envs
  <2> QED
    BY <1>1, <2>1, <2>2 DEF Start, Configs
<1> HIDE DEF c
<1> SUFFICES ASSUME result # <<>>, NEW v \in Eval[MaxDepth][c] PROVE v \in ToSet(result)
  BY <1>2 DEF LoopIsRecursion
<1>3. 1 \in DOMAIN result /\ 1 \in 1 .. Len(result)
  BY <1>1
<1>4. Means(c, result[1])
  BY <1>3 DEF LoopInv, c
<1>5. MaxDepth \in Nat
  BY TailCallsAssumption
<1>6. v = result[1]
  BY <1>2, <1>4, <1>5, MeansOne
<1> QED
  BY <1>3, <1>6 DEF ToSet

(***************************************************************************)
(* The invariant holds of every program whose symbols are of one lambda    *)
(* each.                                                                   *)
(***************************************************************************)
THEOREM BehaviorLoopInv ==
  ASSUME \A p \in Programs : WellNamed(p)
  PROVE  Behavior => []LoopInv
<1>1. Init => LoopInv
  BY LoopInvInit
<1>2. LoopInv /\ [Next]_vars => LoopInv'
  BY LoopInvNext
<1> QED
  BY <1>1, <1>2, PTL DEF Behavior

(***************************************************************************)
(* A call in tail position of the specialization that runs never makes an  *)
(* activation above its own: has_self_tail_call has found a header for it. *)
(***************************************************************************)
THEOREM BehaviorConstantStack ==
  ASSUME \A p \in Programs : WellNamed(p)
  PROVE  Behavior => []ConstantStack
<1>1. LoopInv => ConstantStack
  BY LoopInvStack
<1> QED
  BY <1>1, BehaviorLoopInv, PTL

(***************************************************************************)
(* A program's result is what its recursion evaluates to, at whatever      *)
(* depth that is followed.                                                 *)
(***************************************************************************)
THEOREM BehaviorLoopIsRecursion ==
  ASSUME \A p \in Programs : WellNamed(p)
  PROVE  Behavior => []LoopIsRecursion
<1>1. LoopInv => LoopIsRecursion
  BY LoopInvResult
<1> QED
  BY <1>1, BehaviorLoopInv, PTL

(***************************************************************************)
(* And the recursion ends whenever the loops do: some depth suffices.      *)
(***************************************************************************)
THEOREM BehaviorResultIsValue ==
  ASSUME \A p \in Programs : WellNamed(p)
  PROVE  Behavior => []ResultIsValue
<1>1. LoopInv => ResultIsValue
  BY DEF LoopInv, ResultIsValue
<1> QED
  BY <1>1, BehaviorLoopInv, PTL
=============================================================================
