---------------------------- MODULE TypingRules ----------------------------
(***************************************************************************)
(* What a typing is, apart from how it is inferred (docs/typerules.md).    *)
(*                                                                         *)
(* `Derivation` says that the types recorded in a checked statement are a  *)
(* derivation by the rules: each node against its sub-expressions, in a    *)
(* context built along the scopes of the program.  `Typings` is the set of *)
(* all the types without variables, out of a finite universe U, that an    *)
(* expression has by the rules.  `Covers` says that every value of a type  *)
(* is matched by a case.  None of them unifies anything.                   *)
(***************************************************************************)
EXTENDS Inference

CONSTANT Universe  \* finitely many types without variables

Bound(env, x, p) == [y \in DOMAIN env \cup {x} |-> IF y = x THEN p ELSE env[y]]
AllBound(env, bs) == [y \in DOMAIN env \cup DOMAIN bs |-> IF y \in DOMAIN bs THEN bs[y] ELSE env[y]]

(* Types are compared up to the order of the fields in a row.              *)
RECURSIVE RowOf(_), Canon(_), PartsOf(_)
RowOf(row) ==
  IF IsVar(row) \/ row.f # "RowExt" THEN [fields |-> {}, tail |-> row]
  ELSE [RowOf(row.a[2]) EXCEPT !.fields = @ \cup {<<row.n, row.a[1]>>}]

Canon(t) ==
  IF IsVar(t) THEN t
  ELSE IF t.f # "Rec" THEN App(t.f, t.n, [i \in DOMAIN t.a |-> Canon(t.a[i])])
  ELSE LET r == RowOf(t.a[1])
       IN [f |-> "Rec", tail |-> r.tail, fields |-> {<<x[1], Canon(x[2])>> : x \in r.fields}]

SameType(t1, t2) == Canon(t1) = Canon(t2)

RECURSIVE RowFrom(_, _)
RowFrom(fields, tail) ==
  IF fields = {} THEN tail
  ELSE LET x == CHOOSE y \in fields : TRUE IN RowExt(x[1], x[2], RowFrom(fields \ {x}, tail))

(* The types and rows a variable of an instance equal to t may stand for.  *)
PartsOf(t) ==
  IF IsVar(t) THEN {t}
  ELSE IF t.f # "Rec" THEN {t} \cup UNION {PartsOf(t.a[i]) : i \in DOMAIN t.a}
  ELSE LET r == RowOf(t.a[1])
       IN {t} \cup {RowFrom(fs, r.tail) : fs \in SUBSET r.fields}
              \cup UNION {PartsOf(x[2]) : x \in r.fields}

InstanceOf(p, t) ==
  \E theta \in [ToSet(p.q) -> PartsOf(t)] : SameType(ApplyOnce(p.m, theta), t)

(* The polytype with every variable of t that is not free in env bound.    *)
EnvFree(env) == UNION {PolyFree(env[x]) : x \in DOMAIN env}
Closure(env, t) == [q |-> SetToSeq(FreeVars(t) \ EnvFree(env)), m |-> t]

IsFn(t, t1, t2) == ~IsVar(t) /\ t.f = "Fn" /\ SameType(t.a[1], t1) /\ SameType(t.a[2], t2)

(* An annotation holds of a type that is an instance of it.                *)
Annotated(c, ann, t) ==
  LET r == Expand(c, ann, {})
  IN ann = TInfer \/ (r.is = "ok" /\ InstanceOf([q |-> SetToSeq(FreeVars(r.typ)), m |-> r.typ], t))

-----------------------------------------------------------------------------
(* Patterns: the types of the variables one binds when it is matched       *)
(* against a value of type t, where c has the enums and constructors.      *)

CtorsOf(c) == UNION {c.enums[n] : n \in DOMAIN c.enums}

RECURSIVE ResultOf(_), ParamsOf(_)
ResultOf(t) == IF ~IsVar(t) /\ t.f = "Fn" THEN ResultOf(t.a[2]) ELSE t
ParamsOf(t) == IF ~IsVar(t) /\ t.f = "Fn" THEN <<t.a[1]>> \o ParamsOf(t.a[2]) ELSE <<>>

(* The field types of constructor C in the enum type t.                    *)
FieldTypes(c, C, t) ==
  LET m     == c.vars[C].m
      args  == ResultOf(m).a
      theta == [x \in FreeVars(ResultOf(m)) |-> t.a[CHOOSE i \in DOMAIN args : args[i].v = x]]
  IN [i \in DOMAIN ParamsOf(m) |-> ApplyOnce(ParamsOf(m)[i], theta)]

IsCtor(c, C, t) == ~IsVar(t) /\ t.f = "Enum" /\ t.n \in DOMAIN c.enums /\ C \in c.enums[t.n]

(* The sub-patterns of p with the types they are matched at, when p is a   *)
(* pattern of type t.                                                      *)
SubPatterns(c, p, t) ==
  CASE p.k = "cons"   -> <<<<p.c[1], t.a[1]>>, <<p.c[2], t>>>>
    [] p.k = "list"   -> [i \in DOMAIN p.c |-> <<p.c[i], t.a[1]>>]
    [] p.k = "tuple"  -> [i \in DOMAIN p.c |-> <<p.c[i], t.a[i]>>]
    [] p.k = "record" -> [i \in DOMAIN p.c |->
                            <<p.c[i], (CHOOSE x \in RowOf(t.a[1]).fields : x[1] = p.n[i + 1])[2]>>]
    [] p.k = "app"    -> [i \in DOMAIN ArgsOf(p) |->
                            <<ArgsOf(p)[i], FieldTypes(c, HeadOf(p).n[1], t)[i]>>]
    [] OTHER          -> <<>>

(* p's own shape fits the type t.                                          *)
Fits(c, p, t) ==
  CASE p.k = "lit"    -> p.t = t
    [] p.k = "var"    -> p.n[1] \in CtorsOf(c) => IsCtor(c, p.n[1], t) /\ FieldTypes(c, p.n[1], t) = <<>>
    [] p.k \in {"cons", "list"} -> ~IsVar(t) /\ t.f = "List"
    [] p.k = "tuple"  -> ~IsVar(t) /\ t.f = "Tuple" /\ Len(t.a) = Len(p.c)
    [] p.k = "record" -> /\ ~IsVar(t) /\ t.f = "Rec"
                         /\ ToSet(Tail(p.n)) \subseteq {x[1] : x \in RowOf(t.a[1]).fields}
    [] p.k = "app"    -> /\ HeadOf(p).k = "var"
                         /\ IsCtor(c, HeadOf(p).n[1], t)
                         /\ Len(FieldTypes(c, HeadOf(p).n[1], t)) = Len(ArgsOf(p))
    [] OTHER          -> FALSE

RECURSIVE PatternOf(_, _, _), Binds(_, _, _)
PatternOf(c, p, t) ==
  /\ Fits(c, p, t)
  /\ \A i \in DOMAIN SubPatterns(c, p, t) :
       PatternOf(c, SubPatterns(c, p, t)[i][1], SubPatterns(c, p, t)[i][2])

Binds(c, p, t) ==
  IF p.k = "var"
  THEN IF p.n[1] \in CtorsOf(c) THEN <<>> ELSE [x \in {p.n[1]} |-> Mono(t)]
  ELSE FoldSeq(LAMBDA sp, bs : AllBound(bs, Binds(c, sp[1], sp[2])), <<>>, SubPatterns(c, p, t))

-----------------------------------------------------------------------------
(* Derivations *)

(* The type of a declaration in a scope: its initializer is typed with the *)
(* name at that one type, and what follows with the closure of it.         *)
RECURSIVE Derivation(_, _, _), BlockDerivation(_, _, _)

DeclDerivation(c, env, s) ==
  LET t == s.c[1].typ
  IN Annotated(c, s.t, t) /\ Derivation(c, Bound(env, s.n[1], Mono(t)), s.c[1])

BlockDerivation(c, env, ss) ==
  LET s == Head(ss)
  IN IF Len(ss) = 1 THEN Derivation(c, env, s)
     ELSE IF s.k = "decl"
     THEN /\ DeclDerivation(c, env, s)
          /\ BlockDerivation(c, Bound(env, s.n[1], Closure(env, s.c[1].typ)), Tail(ss))
     ELSE Derivation(c, env, s) /\ BlockDerivation(c, env, Tail(ss))

Numeric == {TInt, TFloat}

(* An operand of arithmetic may still be of a variable type, where a       *)
(* function is not used at any one type.                                   *)
Derivation(c, env, e) ==
  LET t     == e.typ
      T(i)  == e.c[i].typ
      All   == \A i \in DOMAIN e.c : Derivation(c, env, e.c[i])
      Equal == SameType(T(1), T(2))
  IN CASE e.k = "var"   -> e.n[1] \in DOMAIN env /\ InstanceOf(env[e.n[1]], t)
       [] e.k = "lit"   -> t = e.t
       [] e.k = "abs"   -> /\ IsFn(t, t.a[1], T(1))
                           /\ Annotated(c, e.t, t.a[1])
                           /\ Derivation(c, Bound(env, e.n[1], Mono(t.a[1])), e.c[1])
       [] e.k = "app"   -> All /\ IsFn(T(1), T(2), t)
       [] e.k = "let"   -> /\ SameType(t, T(2))
                           /\ Derivation(c, Bound(env, e.n[1], Mono(T(1))), e.c[1])
                           /\ Derivation(c, Bound(env, e.n[1], Closure(env, T(1))), e.c[2])
       [] e.k = "if"    -> All /\ T(1) = TBool /\ SameType(T(2), t) /\ SameType(T(3), t)
       [] e.k = "block" -> BlockDerivation(c, env, e.c) /\ SameType(t, T(Len(e.c)))
       [] e.k = "list"  -> All /\ t.f = "List" /\ \A i \in DOMAIN e.c : SameType(T(i), t.a[1])
       [] e.k = "cons"  -> All /\ SameType(t, List(T(1))) /\ SameType(t, T(2))
       [] e.k = "match" -> /\ Derivation(c, env, e.c[1])
                           /\ \A i \in DOMAIN e.p :
                                /\ PatternOf(c, e.p[i], T(1))
                                /\ Derivation(c, AllBound(env, Binds(c, e.p[i], T(1))), e.c[i + 1])
                                /\ SameType(T(i + 1), t)
       [] e.k = "arith" -> /\ All /\ Equal /\ SameType(t, T(1))
                           /\ IsVar(t) \/ t \in Numeric \/ (e.n[1] = "+" /\ t = TStr)
       [] e.k = "comp"  -> /\ All /\ Equal /\ t = TBool
                           /\ \/ IsVar(T(1)) \/ T(1) \in Numeric
                              \/ e.n[1] \in {"==", "!="} /\ T(1) \in {TStr, TBool}
       [] e.k = "logic" -> All /\ T(1) = TBool /\ T(2) = TBool /\ t = TBool
       [] e.k = "neg"   -> All /\ SameType(t, T(1)) /\ (IsVar(t) \/ t \in Numeric)
       [] e.k = "not"   -> All /\ T(1) = TBool /\ t = TBool
       [] e.k = "field" -> /\ All /\ ~IsVar(T(1)) /\ T(1).f = "Rec"
                           /\ \E x \in RowOf(T(1).a[1]).fields : x[1] = e.n[1] /\ SameType(x[2], t)
       [] e.k = "with"  -> /\ All /\ SameType(t, T(1))
                           /\ \A i \in DOMAIN e.n : \E x \in RowOf(T(1).a[1]).fields :
                                x[1] = e.n[i] /\ SameType(x[2], T(i + 1))
       [] e.k = "record" -> /\ All
                            /\ RowOf(t.a[1]).tail = EmptyRow
                            /\ {<<x[1], Canon(x[2])>> : x \in RowOf(t.a[1]).fields}
                                 = {<<e.n[i + 1], Canon(T(i))>> : i \in DOMAIN e.c}
       [] e.k = "tuple" -> All /\ t.f = "Tuple" /\ \A i \in DOMAIN e.c : SameType(T(i), t.a[i])

-----------------------------------------------------------------------------
(* Exhaustiveness: the values of type t, constructors to a depth d.  A     *)
(* number or a string has more values than any cases list.                 *)

Value(k, n, args) == [k |-> k, n |-> n, c |-> args]

RECURSIVE FieldsOf(_), Values(_, _, _), ValueSeqs(_, _, _), Matches(_, _)

(* The fields of a row, in the order in which a record has them.           *)
FieldsOf(row) ==
  IF IsVar(row) \/ row.f # "RowExt" THEN <<>> ELSE <<<<row.n, row.a[1]>>>> \o FieldsOf(row.a[2])

ValueSeqs(c, ts, d) ==
  IF ts = <<>> THEN {<<>>}
  ELSE {<<v>> \o vs : v \in Values(c, Head(ts), d), vs \in ValueSeqs(c, Tail(ts), d)}

Values(c, t, d) ==
  CASE IsVar(t) -> {Value("any", <<>>, <<>>)}
    [] t = TBool -> {Value("lit", <<b>>, <<>>) : b \in {"true", "false"}}
    [] t \in {TInt, TFloat, TStr, TChar} -> {Value("lit", <<n>>, <<>>) : n \in {"0", "1", "s", "other"}}
    [] t.f = "List" -> {Value("nil", <<>>, <<>>)} \cup
                       (IF d = 0 THEN {} ELSE {Value("cons", <<>>, vs) : vs \in ValueSeqs(c, <<t.a[1], t>>, d - 1)})
    [] t.f = "Tuple" -> {Value("tuple", <<>>, vs) : vs \in ValueSeqs(c, t.a, d)}
    [] t.f = "Rec" -> LET fs == FieldsOf(t.a[1])
                      IN {Value("rec", [i \in DOMAIN fs |-> fs[i][1]], vs) :
                            vs \in ValueSeqs(c, [i \in DOMAIN fs |-> fs[i][2]], d)}
    [] t.f = "Enum" /\ t.n \in DOMAIN c.enums ->
         UNION {{Value("ctor", <<C>>, vs) : vs \in ValueSeqs(c, FieldTypes(c, C, t), d - 1)} :
                C \in {D \in c.enums[t.n] : d > 0 \/ FieldTypes(c, D, t) = <<>>}}
    [] OTHER -> {Value("any", <<>>, <<>>)}

(* p, a pattern where ctors are constructors, matches v.                   *)
Matches(p, v) ==
  CASE p.k = "var"  -> v.k = "ctor" /\ v.c = <<>> /\ p.n = v.n
    [] p.k = "any"  -> TRUE
    [] p.k = "lit"  -> v.k = "lit" /\ p.n = v.n
    [] p.k = "cons" -> v.k = "cons" /\ Matches(p.c[1], v.c[1]) /\ Matches(p.c[2], v.c[2])
    [] p.k = "list" -> IF p.c = <<>> THEN v.k = "nil"
                       ELSE /\ v.k = "cons" /\ Matches(Head(p.c), v.c[1])
                            /\ Matches([p EXCEPT !.c = Tail(@)], v.c[2])
    [] p.k = "tuple" -> v.k = "tuple" /\ \A i \in DOMAIN p.c : Matches(p.c[i], v.c[i])
    [] p.k = "record" -> /\ v.k = "rec"
                         /\ \A i \in DOMAIN p.c : \E j \in DOMAIN v.c :
                              v.n[j] = p.n[i + 1] /\ Matches(p.c[i], v.c[j])
    [] p.k = "app"  -> /\ v.k = "ctor" /\ v.n = HeadOf(p).n
                       /\ \A i \in DOMAIN ArgsOf(p) : Matches(ArgsOf(p)[i], v.c[i])
    [] OTHER -> TRUE

(* A variable that is not a constructor matches everything.                *)
RECURSIVE Wild(_, _)
Wild(c, p) ==
  [p EXCEPT !.k = IF @ = "var" /\ p.n[1] \notin CtorsOf(c) THEN "any" ELSE @,
            !.c = [i \in DOMAIN @ |-> Wild(c, @[i])]]

Covers(c, ps, t) ==
  \A v \in Values(c, t, 2) : \E i \in DOMAIN ps : Matches(Wild(c, ps[i]), v)

RECURSIVE CoversIn(_, _)
CoversIn(c, e) ==
  /\ e.k = "match" => Covers(c, e.p, e.c[1].typ)
  /\ \A i \in DOMAIN e.c : CoversIn(c, e.c[i])

-----------------------------------------------------------------------------
(* All the types in the Universe an expression has; env gives each name    *)
(* the set of the types it may be used at.                                 *)

RECURSIVE Typings(_, _, _), BlockTypings(_, _, _), Mentions(_, _)

Mentions(e, x) == e.n = <<x>> \/ \E i \in DOMAIN e.c : Mentions(e.c[i], x)

(* The types of the universe a function may take.                          *)
Params == {f.a[1] : f \in {t \in Universe : t.f = "Fn"}}

(* x = e, where e may use x at the type that e has.                        *)
DeclTypings(c, env, x, ann, e) ==
  {t \in IF Mentions(e, x) THEN Universe ELSE Typings(c, env, e) :
     /\ Annotated(c, ann, t)
     /\ Mentions(e, x) => t \in Typings(c, Bound(env, x, {t}), e)}

BlockTypings(c, env, ss) ==
  LET s  == Head(ss)
      ts == IF s.k = "decl" THEN DeclTypings(c, env, s.n[1], s.t, s.c[1]) ELSE Typings(c, env, s)
  IN IF Len(ss) = 1 THEN ts
     ELSE IF ts = {} THEN {}
     ELSE BlockTypings(c, IF s.k = "decl" THEN Bound(env, s.n[1], ts) ELSE env, Tail(ss))

HasField(t, l)  == t.f = "Rec" /\ \E x \in RowOf(t.a[1]).fields : x[1] = l
FieldType(t, l) == (CHOOSE x \in RowOf(t.a[1]).fields : x[1] = l)[2]
Named(c, name)  == Enum(name, [i \in DOMAIN c.aliases[name].params |-> TInfer])

Typings(c, env, e) ==
  LET T(i)  == Typings(c, env, e.c[i])
      Both  == T(1) \cap T(2)
  IN CASE e.k = "var" -> IF e.n[1] \in DOMAIN env THEN env[e.n[1]] ELSE {}
       [] e.k = "lit" -> {e.t}
       [] e.k = "abs" -> Universe \cap UNION {{Fn(a, b) : b \in Typings(c, Bound(env, e.n[1], {a}), e.c[1])} :
                                         a \in {t \in Params : Annotated(c, e.t, t)}}
       [] e.k = "app" -> LET args == T(2)
                         IN {f.a[2] : f \in {g \in T(1) : g.f = "Fn" /\ g.a[1] \in args}}
       [] e.k = "let" -> BlockTypings(c, env, <<[e EXCEPT !.k = "decl"], e.c[2]>>)
       [] e.k = "block" -> BlockTypings(c, env, e.c)
       [] e.k = "if"  -> IF TBool \in T(1) THEN T(2) \cap T(3) ELSE {}
       [] e.k = "list" -> IF e.c = <<>> THEN {t \in Universe : t.f = "List"}
                          ELSE {List(t) : t \in {u \in T(1) : \A i \in 2..Len(e.c) : u \in T(i)}}
       [] e.k = "cons" -> {l \in T(2) : l.f = "List" /\ l.a[1] \in T(1)}
       [] e.k = "match" ->
            LET Body(i, s) == LET bs == Binds(c, e.p[i], s)
                              IN Typings(c, AllBound(env, [x \in DOMAIN bs |-> {bs[x].m}]), e.c[i + 1])
                Fit(s) == Covers(c, e.p, s) /\ \A i \in DOMAIN e.p : PatternOf(c, e.p[i], s)
            IN UNION {{t \in Body(1, s) : \A i \in 2..Len(e.p) : t \in Body(i, s)} : s \in {r \in T(1) : Fit(r)}}
       [] e.k = "arith" -> {t \in Both : t \in Numeric \/ (e.n[1] = "+" /\ t = TStr)}
       [] e.k = "comp" -> IF \E t \in Both : t \in Numeric \/ (e.n[1] \in {"==", "!="} /\ t \in {TStr, TBool})
                          THEN {TBool} ELSE {}
       [] e.k = "logic" -> IF TBool \in Both THEN {TBool} ELSE {}
       [] e.k = "neg" -> T(1) \cap Numeric
       [] e.k = "not" -> T(1) \cap {TBool}
       [] e.k = "tuple" -> {t \in Universe : /\ t.f = "Tuple" /\ Len(t.a) = Len(e.c)
                                             /\ \A i \in DOMAIN e.c : t.a[i] \in T(i)}
       [] e.k = "field" -> {FieldType(r, e.n[1]) : r \in {q \in T(1) : HasField(q, e.n[1])}}
       [] e.k = "with" -> {r \in T(1) : \A i \in DOMAIN e.n :
                             HasField(r, e.n[i]) /\ FieldType(r, e.n[i]) \in T(i + 1)}
       [] e.k = "record" -> {r \in Universe : /\ r.f = "Rec"
                                              /\ {x[1] : x \in RowOf(r.a[1]).fields} = ToSet(Tail(e.n))
                                              /\ \A i \in DOMAIN e.c : FieldType(r, e.n[i + 1]) \in T(i)
                                              /\ e.n[1] # "" => Annotated(c, Named(c, e.n[1]), r)}
=============================================================================
