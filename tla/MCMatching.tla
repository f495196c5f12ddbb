----------------------------- MODULE MCMatching -----------------------------
(***************************************************************************)
(* Every match of at most three cases, out of a few patterns, on a few     *)
(* values of lists, options of lists, records, pairs, bools and numbers.   *)
(***************************************************************************)
EXTENDS CheckedMatches, Matching, Syntax

None     == V("None")
SomeOf(p) == Ap(V("Some"), p)
Nil      == Ls(<<>>)
Zero     == Lit(TInt, "0")
PairOf(ls, es) == Node("record", <<"Pair">> \o ls, es)

(* `enum Shape = Dot | Line(int, [int])`                                   *)
Shape == TypeDecl("enum", <<"Shape">>, <<Variant("Dot", <<>>), Variant("Line", <<TInt, List(TInt)>>)>>)
Line(a, b) == Ap(Ap(V("Line"), a), b)

ListPatterns == {Nil, Push(V("h"), V("t")), Push(One, V("t")), Push(V("g"), Push(V("h"), V("t"))),
                 Ls(<<V("a")>>), Ls(<<One, V("b")>>), V("w")}
ListValues == {Nil, Ls(<<One>>), Push(Zero, Ls(<<One>>))}

OptionPatterns == {None, SomeOf(V("z")), SomeOf(Nil), SomeOf(Push(V("h"), V("t"))), V("w")}
OptionValues == {None} \cup {SomeOf(v) : v \in ListValues}

ShapePatterns == {V("Dot"), Line(V("a"), V("b")), Line(V("a"), Nil), Line(V("a"), Push(V("h"), V("t"))),
                  Line(One, V("b")), V("w")}
ShapeValues == {V("Dot"), Line(One, Nil), Line(Zero, Ls(<<One>>))}

(* `record Pair('a) = { x: 'a, y: int }`                                   *)
ThePair(a) == PairOf(<<"y", "x">>, <<One, a>>)
PairPatterns == {PairOf(<<"y", "x">>, <<V("b"), V("a")>>), PairOf(<<"x">>, <<None>>), PairOf(<<"x">>, <<SomeOf(V("z"))>>),
                 PairOf(<<"y", "x">>, <<Zero, V("a")>>), V("w")}
PairValues == {ThePair(None), With(ThePair(None), <<"x">>, <<SomeOf(One)>>),
               Node("if", <<>>, <<True, ThePair(SomeOf(One)), ThePair(None)>>)}

TuplePatterns == {Tup(<<True, V("b")>>), Tup(<<V("a"), SomeOf(V("z"))>>), Tup(<<V("a"), None>>), V("w")}
TupleValues == {Tup(<<False, None>>), Tup(<<True, SomeOf(One)>>)}

BoolPatterns == {True, False, V("w")}
BoolValues == {False, True, Get(ThePair(True), "x")}

(* `record Span = { from: int, to: int }`                                  *)
Span == TypeDecl("rectype", <<"Span">>, <<Variant("from", <<TInt>>), Variant("to", <<TInt>>)>>)
TheSpan == Node("record", <<"Span", "to", "from">>, <<One, Zero>>)
IntPatterns == {Zero, One, V("w")}
IntValues == {Get(TheSpan, "to"), Get(With(TheSpan, <<"to", "from">>, <<Zero, One>>), "from")}

CaseLists(patterns) == UNION {[1 .. n -> patterns] : n \in 1 .. 3}
Ones(n) == [i \in 1 .. n |-> One]

MatchesOn(values, patterns) == {Expr(Match(v, ps, Ones(Len(ps)))) : v \in values, ps \in CaseLists(patterns)}

MCDeclarations == <<Option, Pair, Shape, Span>>
MCEndings ==
  MatchesOn(ListValues, ListPatterns) \cup MatchesOn(OptionValues, OptionPatterns)
    \cup MatchesOn(ShapeValues, ShapePatterns) \cup MatchesOn(PairValues, PairPatterns)
    \cup MatchesOn(TupleValues, TuplePatterns) \cup MatchesOn(BoolValues, BoolPatterns)
    \cup MatchesOn(IntValues, IntPatterns)

(* Each is a LET, which TLC evaluates once and does not unfold.            *)
MCMatches   == LET matches  == AcceptedMatches  IN matches
MCPatterns  == LET patterns == AcceptedPatterns IN patterns
MCValues(t) == LET values   == Universes        IN values[t]

RECURSIVE Height(_)
Height(p) == 1 + FoldSet(LAMBDA q, h : IF Height(q) > h THEN Height(q) ELSE h, 0, {p.parts[i].p : i \in DOMAIN p.parts})

(* What the type checker accepts is well typed.                            *)
ASSUME AcceptedWellTyped == WellTyped /\ NamedOnce

(***************************************************************************)
(* A field access and a `with` reach the field they name: "Construction,   *)
(* field access, and `with` all use this same declaration order"           *)
(* (docs/rowtypes.md:137).                                                 *)
(***************************************************************************)
FieldsReached == stage = "run" => ReachesFields(match.scrutinee)

(* `match Some [] | None => 1 | Some(h :: t) => 1`                         *)
OptionOnly == <<Option>>
NestedCases == {Expr(Match(SomeOf(Nil), <<None, SomeOf(Push(V("h"), V("t")))>>, Ones(2)))}

(* `record A = { x: int, y: int }; record B = { y: int, x: int };`         *)
(* `match (if false then A { x: 1, y: 0 } else B { x: 1, y: 0 }).x | ...`  *)
AB ==
  LET Dec(n, l1, l2) == TypeDecl("rectype", <<n>>, <<Variant(l1, <<TInt>>), Variant(l2, <<TInt>>)>>)
  IN <<Dec("A", "x", "y"), Dec("B", "y", "x")>>
TwoRecords ==
  LET Make(n) == Node("record", <<n, "x", "y">>, <<One, Zero>>)
  IN {Expr(Match(Get(Node("if", <<>>, <<False, Make("A"), Make("B")>>), "x"), <<V("w")>>, Ones(1)))}
=============================================================================
