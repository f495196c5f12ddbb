------------------------------ MODULE Matching ------------------------------
(***************************************************************************)
(* `match` as it is compiled (lower_match_cases, codegen/expr.rs).  The    *)
(* cases are lowered to a chain of tests, which then runs on the value of  *)
(* the scrutinee.                                                          *)
(*                                                                         *)
(* A pattern is what PatternBind makes of it with the type it is matched   *)
(* at: its kind k, the literal, constructor or name in it as its label,    *)
(* and its parts, each a pattern p, the label l of a record's field, and   *)
(* the place `at` that the code loads it from.  `h :: t` and `[h, ...]`    *)
(* are a "cons", a name that is no constructor is "any".                   *)
(*                                                                         *)
(* A value is what memory holds: a list is null ("nil") or a cell, an enum *)
(* value has its constructor for a discriminant, and a tuple or a record   *)
(* has its components by position.  A record keeps beside them the labels  *)
(* it was built with, which the compiled program does not have and only    *)
(* the properties read.                                                    *)
(***************************************************************************)
EXTENDS Naturals, Sequences, SequencesExt

CONSTANTS
  MatchExprs,   \* the matches that the type checker lets through
  Patterns,     \* the patterns of their cases, with their parts
  Depth(_),     \* how deep a pattern is nested
  ValuesOf(_),  \* the values of a type
  Build(_)      \* the value of a scrutinee

PatternsOf(P) ==
  [k : {"any", "literal", "empty", "cons", "ctor", "tuple", "record"}, label : STRING, typ : {q.typ : q \in P},
   parts : Seq([p : P, at : Nat \ {0}, l : STRING])]

Faulted == "a fault"

(* A pattern's parts are patterns, which are nested less deep; a name, a   *)
(* literal and `[]` have none.  No name has a blank in it.                 *)
ASSUME MatchingAssumption ==
  /\ Patterns \subseteq PatternsOf(Patterns)
  /\ \A p \in Patterns :
       /\ Depth(p) \in Nat
       /\ \A i \in DOMAIN p.parts : Depth(p.parts[i].p) < Depth(p)
       /\ p.k \in {"any", "literal", "empty"} => p.parts = <<>>
       /\ p.k = "any" => p.label # Faulted
  /\ \A m \in MatchExprs : m.cases \in Seq(Patterns) /\ m.cases # <<>>

VARIABLES
  match,  \* the match: its scrutinee, the type typ of that, and its cases
  stage,  \* "lower", "refused", "run", "test", "body", "fault"
  case,   \* the case being tested, or taken
  scrut,  \* the value of the scrutinee
  bound   \* what the pattern of the case taken binds

vars == <<match, stage, case, scrut, bound>>

-----------------------------------------------------------------------------
(* Values *)

Undefined == [k |-> "undefined", n |-> <<>>, c |-> <<>>]

Memory == UNION {ValuesOf(p.typ) : p \in Patterns}

(* A pattern, and a value of its type that it is matched against.          *)
Loads == {x \in Patterns \X (Memory \cup {Undefined}) : x[2] \in ValuesOf(x[1].typ) \cup {Undefined}}

(* Part i of a value, which is not there to load behind a null pointer.    *)
Load(v, i) == IF i \in DOMAIN v.c THEN v.c[i] ELSE Undefined

-----------------------------------------------------------------------------
(* The test of a case.  `arith.andi` evaluates both of its operands.       *)

AndAll(conds) ==
  IF "fault" \in ToSet(conds) THEN "fault" ELSE IF ToSet(conds) \subseteq {"yes"} THEN "yes" ELSE "no"

(* What is tested of a value before its parts are: the literal, the null   *)
(* pointer or the discriminant.                                            *)
Passes(p, v) ==
  CASE p.k \in {"literal", "ctor"} -> v.n = <<p.label>>
    [] p.k = "empty" -> v.k = "nil"
    [] p.k = "cons"  -> v.k # "nil"
    [] OTHER -> TRUE

(* Mutant: the parts are loaded and tested whether or not the value        *)
(* passes.                                                                 *)
Guarded_Eager(p, v, conds) == AndAll(Append(conds, IF Passes(p, v) THEN "yes" ELSE "no"))

(* `scf.if`: what is behind a list pointer is loaded only if it is not     *)
(* null, a payload only if the discriminant is that of the pattern.        *)
Guarded(p, v, conds) == IF Passes(p, v) THEN AndAll(conds) ELSE "no"

Cond[x \in Loads] ==
  LET p == x[1]
      v == x[2]
  IN IF v = Undefined THEN "fault"
     ELSE Guarded(p, v, [i \in DOMAIN p.parts |-> Cond[<<p.parts[i].p, Load(v, p.parts[i].at)>>]])

-----------------------------------------------------------------------------
(* The bindings of a case, in order; a load that faults binds Faulted.     *)

BindsNothing(p) == p.k \in {"literal", "empty"} \/ (p.k = "ctor" /\ p.parts = <<>>)

(* Mutant: every part without parts of its own is skipped, a name too.     *)
Skipped_NoParts(p, i) == p.k # "cons" /\ p.parts[i].p.parts = <<>>

(* The parts of a cell are loaded whether or not they bind anything, those *)
(* of an enum value, a tuple or a record only if they do.                  *)
Skipped(p, i) == p.k # "cons" /\ BindsNothing(p.parts[i].p)

(* A payload has the parts of the variant that it was made for.            *)
LoadPart(p, v, i) == IF Passes(p, v) THEN Load(v, p.parts[i].at) ELSE Undefined

Destructure[x \in Loads] ==
  LET p == x[1]
      v == x[2]
  IN IF v = Undefined THEN <<<<Faulted, v>>>>
     ELSE IF BindsNothing(p) THEN <<>>
     ELSE IF p.k = "any" THEN <<<<p.label, v>>>>
     ELSE FlattenSeq([i \in DOMAIN p.parts |->
            IF Skipped(p, i) THEN <<>> ELSE Destructure[<<p.parts[i].p, LoadPart(p, v, i)>>]])

(* A name bound twice keeps the last value.                                *)
EnvOf(binds) ==
  LET IsLast(i) == \A j \in DOMAIN binds : j > i => binds[j][1] # binds[i][1]
  IN [x \in {b[1] : b \in ToSet(binds)} |-> binds[CHOOSE i \in DOMAIN binds : binds[i][1] = x /\ IsLast(i)][2]]

-----------------------------------------------------------------------------
LastCase == Len(match.cases)

Init ==
  /\ match \in MatchExprs
  /\ stage = "lower"
  /\ case = 0
  /\ scrut = Undefined
  /\ bound = <<>>

(* All the cases are lowered before any runs: a catch-all before the last  *)
(* is an error.                                                            *)
Lower ==
  /\ stage = "lower"
  /\ stage' = IF \E i \in 1 .. LastCase - 1 : match.cases[i].k = "any" THEN "refused" ELSE "run"
  /\ UNCHANGED <<match, case, scrut, bound>>

Evaluate ==
  /\ stage = "run"
  /\ scrut' = Build(match.scrutinee)
  /\ case' = 1
  /\ stage' = "test"
  /\ UNCHANGED <<match, bound>>

Take(binds) ==
  /\ bound' = EnvOf(binds)
  /\ stage' = IF Faulted \in DOMAIN bound' THEN "fault" ELSE "body"
  /\ UNCHANGED <<match, case, scrut>>

Outcome == Cond[<<match.cases[case], scrut>>]

(* Mutant: the case after the one that does not match is passed over.      *)
TestCase_SkipsOne ==
  /\ stage = "test"
  /\ case < LastCase
  /\ CASE Outcome = "yes" -> Take(Destructure[<<match.cases[case], scrut>>])
       [] Outcome = "no" -> /\ case' = IF case + 2 < LastCase THEN case + 2 ELSE LastCase
                            /\ UNCHANGED <<match, stage, scrut, bound>>
       [] Outcome = "fault" -> stage' = "fault" /\ UNCHANGED <<match, case, scrut, bound>>

TestCase ==
  /\ stage = "test"
  /\ case < LastCase
  /\ CASE Outcome = "yes" -> Take(Destructure[<<match.cases[case], scrut>>])
       [] Outcome = "no" -> case' = case + 1 /\ UNCHANGED <<match, stage, scrut, bound>>
       [] Outcome = "fault" -> stage' = "fault" /\ UNCHANGED <<match, case, scrut, bound>>

(* The last case is taken without a test.                                  *)
TakeLast ==
  /\ stage = "test"
  /\ case = LastCase
  /\ Take(Destructure[<<match.cases[case], scrut>>])

Next == Lower \/ Evaluate \/ TestCase \/ TakeLast

Spec == Init /\ [][Next]_vars

-----------------------------------------------------------------------------
(* Properties *)

(* The part of v that part i of a pattern is for: a record's by its label, *)
(* another's by position.                                                  *)
PartOf(p, v, i) ==
  IF p.k # "record" THEN Load(v, i)
  ELSE IF \E j \in DOMAIN v.c : v.n[j] = p.parts[i].l
       THEN v.c[CHOOSE j \in DOMAIN v.c : v.n[j] = p.parts[i].l]
       ELSE Undefined

(* The values that are made as p is: of its constructor, its literal.      *)
MadeAs(p, v) ==
  CASE p.k = "any"     -> TRUE
    [] p.k = "literal" -> v.k = "lit" /\ v.n = <<p.label>>
    [] p.k = "empty"   -> v.k = "nil"
    [] p.k = "cons"    -> v.k = "cons"
    [] p.k = "ctor"    -> v.k = "ctor" /\ v.n = <<p.label>>
    [] p.k = "tuple"   -> v.k = "tuple"
    [] p.k = "record"  -> v.k = "rec"

(* The reference: the values that a pattern matches, and what is then in   *)
(* the place of each of its names.                                         *)
Matched[x \in Loads] ==
  LET p == x[1]
      v == x[2]
  IN MadeAs(p, v) /\ \A i \in DOMAIN p.parts : Matched[<<p.parts[i].p, PartOf(p, v, i)>>]

Places[x \in Loads] ==
  LET p == x[1]
      v == x[2]
  IN IF p.k = "any" THEN {<<p.label, v>>}
     ELSE IF MadeAs(p, v) THEN UNION {Places[<<p.parts[i].p, PartOf(p, v, i)>>] : i \in DOMAIN p.parts}
     ELSE {}

-----------------------------------------------------------------------------
(* What the lowering of a match takes for granted                          *)

(* What memory may hold where a pattern is matched.                        *)
MayHold(p) ==
  CASE p.k = "literal" -> {"lit"}
    [] p.k \in {"empty", "cons"} -> {"nil", "cons"}
    [] p.k = "ctor"   -> {"ctor"}
    [] p.k = "tuple"  -> {"tuple"}
    [] p.k = "record" -> {"rec"}

NamesOf[p \in Patterns] ==
  IF p.k = "any" THEN {p.label} ELSE UNION {NamesOf[p.parts[i].p] : i \in DOMAIN p.parts}

(* Patterns are matched against values of their types, whose parts are     *)
(* where they are loaded from; the names in them are given types.          *)
WellTyped ==
  /\ \A p \in Patterns : \A v \in ValuesOf(p.typ) :
       /\ v # Undefined
       /\ p.k # "any" => v.k \in MayHold(p)
       /\ MadeAs(p, v) => \A i \in DOMAIN p.parts :
            /\ Load(v, p.parts[i].at) = PartOf(p, v, i)
            /\ PartOf(p, v, i) \in ValuesOf(p.parts[i].p.typ)
  /\ \A m \in MatchExprs :
       /\ Build(m.scrutinee) \in ValuesOf(m.typ)
       /\ \A i \in DOMAIN m.cases : m.cases[i].typ = m.typ /\ m.names[i] = NamesOf[m.cases[i]]

(* A pattern names each of its parts differently, which nothing checks.    *)
NamedOnce ==
  \A p \in Patterns : \A i, j \in DOMAIN p.parts :
    i # j => NamesOf[p.parts[i].p] \cap NamesOf[p.parts[j].p] = {}

-----------------------------------------------------------------------------
MatchesHere(i) == Matched[<<match.cases[i], scrut>>]

(* What the lowering of the last case relies on ("exhaustiveness",         *)
(* codegen/expr.rs:626): every value is matched by a case.                 *)
Covered == \A v \in ValuesOf(match.typ) : \E i \in 1 .. LastCase : Matched[<<match.cases[i], v>>]

(***************************************************************************)
(* When the cases cover the type, the case that is taken is the first that *)
(* matches, although the last is not tested, sub-patterns are tested       *)
(* through pointers and fields are found by their positions.               *)
(***************************************************************************)
FirstMatch ==
  (stage = "body" /\ Covered) => MatchesHere(case) /\ \A i \in 1 .. case - 1 : ~MatchesHere(i)

(***************************************************************************)
(* "The last case is guaranteed to match (exhaustiveness)"                 *)
(* (codegen/expr.rs:626), whatever match the type checker lets through.    *)
(***************************************************************************)
LastCaseMatches ==
  (stage \in {"body", "fault"} /\ case = LastCase) => MatchesHere(case)

(***************************************************************************)
(* When the cases cover the type, no test and no binding loads through a   *)
(* null list or from the payload of another variant.                       *)
(***************************************************************************)
NoNullLoads == (stage = "fault") => ~Covered

(***************************************************************************)
(* The body of a case sees the names that the type checker gave types to,  *)
(* each with the part of the scrutinee that is in its place.               *)
(***************************************************************************)
BindsTheParts ==
  (stage = "body" /\ Covered) =>
    /\ DOMAIN bound = match.names[case]
    /\ {<<x, bound[x]>> : x \in DOMAIN bound} = Places[<<match.cases[case], scrut>>]
=============================================================================
