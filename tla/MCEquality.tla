----------------------------- MODULE MCEquality -----------------------------
(***************************************************************************)
(* Small programs that compare aggregates: lists of lists, records and     *)
(* tuples in lists, enums with and without payloads, recursive ones, a     *)
(* type asked for twice (once with a type variable, which defaults to      *)
(* int), NaN, and a list of functions.                                     *)
(***************************************************************************)
EXTENDS EqualityTypes, TLC

Option(t) == Enum("Option", <<t>>)
Tree(t) == Enum("Tree", <<t>>)
Nest(t) == Enum("Nest", <<t>>)
Shape == Enum("Shape", <<>>)

(* `enum Option('a) = None | Some('a)`                                     *)
(* `enum Tree('a) = Leaf | Node(Tree('a), 'a)`                             *)
(* `enum Shape = Dot | Line(int, bool) | Box(Shape)`                       *)
(* `enum Nest('a) = Flat('a) | Deep(Nest(['a]))`                           *)
MCEnums ==
  ("Option" :> [params |-> <<"a">>, variants |-> << <<>>, <<Var("a")>> >>])
    @@ ("Tree" :> [params |-> <<"a">>, variants |-> << <<>>, <<Tree(Var("a")), Var("a")>> >>])
    @@ ("Shape" :> [params |-> <<>>, variants |-> << <<>>, <<TInt, TBool>>, <<Shape>> >>])
    @@ ("Nest" :> [params |-> <<"a">>, variants |-> << <<Var("a")>>, <<Nest(List(Var("a")))>> >>])

Point == Rec(RowExt("x", TInt, RowExt("y", TBool, EmptyRow)))

MCAsked ==
  {<<TFloat>>,
   <<List(List(TInt)), List(Var("t1"))>>,
   <<List(Point), Point>>,
   <<Tuple(<<TInt, Option(TFloat)>>)>>,
   <<Shape>>,
   <<Tree(TBool)>>,
   <<Tree(Tree(Var("t1")))>>,
   <<List(Option(Shape))>>,
   <<TInt, List(Fn(TInt, TInt))>>}

NestedAsked == {<<Nest(TInt)>>}

(* The values of a type, with lists and enum values nested at most d deep. *)
Scalar(n) == [k |-> "scalar", n |-> n, c |-> <<>>]
Null == [k |-> "nil", n |-> 0, c |-> <<>>]

RECURSIVE ValuesOf(_, _), Product(_, _)
Product(types, d) ==
  IF types = <<>> THEN {<<>>}
  ELSE {<<v>> \o vs : v \in ValuesOf(Head(types), d), vs \in Product(Tail(types), d)}

ValuesOf(t, d) ==
  CASE t = TFloat -> {Scalar("0"), Scalar("other")}
    [] IsScalar(t) -> {Scalar("0"), Scalar("1")}
    [] t.f = "List" -> {Null} \cup (IF d = 0 THEN {} ELSE
                         {[k |-> "cell", n |-> 0, c |-> vs] : vs \in Product(<<t.a[1], t>>, d - 1)})
    [] t.f = "Enum" -> UNION {{[k |-> "enum", n |-> v, c |-> vs] : vs \in Product(EnumVariantFields(t, v), d - 1)} :
                              v \in {w \in DOMAIN FieldsOf(t) : d > 0 \/ EnumVariantFields(t, w) = <<>>}}
    [] t.f = "Fn" -> {}
    [] OTHER -> {[k |-> "struct", n |-> 0, c |-> vs] : vs \in Product(PartsOf(t), d)}

MCOperands(t) == ValuesOf(t, 2)

(* The types of the programs and those inside them, their values, and what *)
(* the theorems about Equality ask of both.                                *)
RECURSIVE TypesIn(_)
TypesIn(types) ==
  LET concrete == {DefaultFreeVars(t) : t \in types}
      next == types \cup concrete \cup UNION {ToSet(PartsOf(t)) : t \in {u \in concrete : IsAggregate(u)}}
  IN IF next = types THEN types ELSE TypesIn(next)

MCTypes == TypesIn(UNION {ToSet(types) : types \in MCAsked})
MCValues == [t \in {DefaultFreeVars(u) : u \in MCTypes} |-> MCOperands(t)]

ASSUME ClosedAndValued == Closed(MCTypes, MCAsked) /\ Valued(MCTypes, MCValues)
=============================================================================
