------------------------------ MODULE Equality ------------------------------
(***************************************************************************)
(* `==` on aggregates (codegen/equality.rs).  For every list, enum, record *)
(* and tuple type that is compared the code generator emits one helper,    *)
(* which inlines the comparison of scalars and calls the helpers of the    *)
(* types inside; the compiled program then walks two values with them.     *)
(*                                                                         *)
(* A value is a term: k says what it is, n a scalar's value and c its      *)
(* components.  A list is null ("nil") or a cell of a head and a tail; an  *)
(* enum value has its discriminant in n and, when its variant has fields,  *)
(* its payload in c, which is null without.  What a type is, and what is   *)
(* in it, are parameters; module EqualityTypes has them from the source.   *)
(***************************************************************************)
EXTENDS Integers, Sequences, FiniteSets, SequencesExt

CONSTANTS
  Kind(_),           \* "scalar", "float", "List", "Enum", "Rec" or "Tuple", or another
  Concrete(_),       \* default_free_vars: a type without its variables
  Parts(_),          \* the types an aggregate is compared by, in order
  VariantFields(_),  \* of an enum, those of each variant
  Asked,             \* the types compared in a program, for each program
  Operands(_),       \* the values of a type that are compared
  HasNaN(_, _)       \* whether a value of a type has a NaN in it

VARIABLES
  asked,       \* the types the program compares
  pc,          \* "lower", "refused"; "ready", "run", "answered", "fault"
  pending,     \* the helpers being lowered, each from within the one before
  registry,    \* module.eq_functions: the number of each type's helper
  counter,     \* module.eq_counter
  code,        \* the helpers emitted: what each compares, part by part
  question,    \* the comparison that runs: its type and its operands
  frames,      \* the calls of helpers that have not returned
  answer

vars == <<asked, pc, pending, registry, counter, code, question, frames, answer>>

lowering == <<asked, pending, registry, counter, code>>
running == <<question, frames, answer>>

-----------------------------------------------------------------------------
(* Types *)

IsAggregate(t) == Kind(t) \in {"List", "Enum", "Rec", "Tuple"}
IsScalar(t) == Kind(t) \in {"scalar", "float"}

Inline == 0
Ref(t, helper) == [t |-> t, helper |-> helper]

-----------------------------------------------------------------------------
(* Lowering *)

Begin(t, helper, parts) == [t |-> t, helper |-> helper, todo |-> parts, refs |-> <<>>]

Init ==
  /\ asked \in Asked
  /\ pc = "lower"
  /\ pending = <<Begin(asked, Inline, asked)>>
  /\ registry = <<>>
  /\ counter = 0
  /\ code = <<>>
  /\ question = <<>>
  /\ frames = <<>>
  /\ answer = FALSE

Top == pending[Len(pending)]
NextType == Concrete(Head(Top.todo))

(* The part that is next is compared by r.                                 *)
Compared(stack, r) ==
  [stack EXCEPT ![Len(stack)].todo = Tail(@), ![Len(stack)].refs = Append(@, r)]

Lowers == pc = "lower" /\ Top.todo # <<>>

LowerScalar ==
  /\ Lowers
  /\ IsScalar(NextType)
  /\ pending' = Compared(pending, Ref(NextType, Inline))
  /\ UNCHANGED <<asked, pc, registry, counter, code, running>>

(* Mutant: the key is that of some type of the same constructor.           *)
CallRegistered_ByConstructor ==
  /\ Lowers
  /\ IsAggregate(NextType)
  /\ \E t \in DOMAIN registry :
       /\ Kind(t) = Kind(NextType)
       /\ pending' = Compared(pending, Ref(NextType, registry[t]))
  /\ UNCHANGED <<asked, pc, registry, counter, code, running>>

CallRegistered ==
  /\ Lowers
  /\ IsAggregate(NextType)
  /\ NextType \in DOMAIN registry
  /\ pending' = Compared(pending, Ref(NextType, registry[NextType]))
  /\ UNCHANGED <<asked, pc, registry, counter, code, running>>

(* The helper is registered before its body is lowered.                    *)
BeginHelper ==
  /\ Lowers
  /\ IsAggregate(NextType)
  /\ NextType \notin DOMAIN registry
  /\ counter' = counter + 1
  /\ registry' = [t \in DOMAIN registry \cup {NextType} |->
                    IF t = NextType THEN counter' ELSE registry[t]]
  /\ pending' = Append(Compared(pending, Ref(NextType, counter')), Begin(NextType, counter', Parts(NextType)))
  /\ UNCHANGED <<asked, pc, code, running>>

(* Functions cannot be compared: the whole compilation fails.              *)
Refuse ==
  /\ Lowers
  /\ ~IsScalar(NextType)
  /\ ~IsAggregate(NextType)
  /\ pc' = "refused"
  /\ UNCHANGED <<lowering, running>>

Emitted == [h \in DOMAIN code \cup {Top.helper} |->
              IF h = Top.helper THEN [t |-> Top.t, refs |-> Top.refs] ELSE code[h]]

EmitHelper ==
  /\ pc = "lower"
  /\ Top.todo = <<>>
  /\ code' = Emitted
  /\ pending' = Front(pending)
  /\ pc' = IF pending' = <<>> THEN "ready" ELSE pc
  /\ UNCHANGED <<asked, registry, counter, running>>

Lowering == LowerScalar \/ CallRegistered \/ BeginHelper \/ Refuse \/ EmitHelper

-----------------------------------------------------------------------------
(* The compiled program *)

(* Of the floats, "other" is NaN.  A string is compared by strcmp.         *)
IsNaN(t, v) == Kind(t) = "float" /\ v.n = "other"
ScalarEq(t, l, r) == l.n = r.n /\ ~IsNaN(t, l)

IsNull(v) == v.k = "nil"

Call(helper, l, r) == [helper |-> helper, l |-> l, r |-> r, at |-> 1, acc |-> TRUE]

Frame == frames[Len(frames)]
TypeOf(f) == code[f.helper].t

(* The variant whose payload is compared: the first with the discriminant, *)
(* or else the last.                                                       *)
BranchOn(t, disc) ==
  IF disc \in DOMAIN VariantFields(t) THEN disc ELSE Len(VariantFields(t))

(* Where the refs of a variant's fields are in those of its enum's helper. *)
Offset(t, variant) ==
  Len(FlattenSeq(SubSeq(VariantFields(t), 1, variant - 1)))

FrameRef(f) ==
  LET t == TypeOf(f)
  IN code[f.helper].refs[IF Kind(t) = "Enum" THEN Offset(t, BranchOn(t, f.l.n)) + f.at ELSE f.at]

(* The walk ends: before a null list or after a difference, without a look *)
(* at the payload when the variants differ, or when all is compared.       *)
Finished(f) ==
  LET t == TypeOf(f)
  IN CASE Kind(t) = "List" -> IsNull(f.l) \/ IsNull(f.r) \/ ~f.acc
       [] Kind(t) = "Enum" -> \/ f.l.n # f.r.n
                          \/ f.at > Len(VariantFields(t)[BranchOn(t, f.l.n)])
       [] OTHER -> f.at > Len(Parts(t))

(* Mutant: the lists are equal when either has ended.                      *)
Result_Prefix(f) ==
  CASE Kind(TypeOf(f)) = "List" -> f.acc
    [] Kind(TypeOf(f)) = "Enum" -> f.acc /\ f.l.n = f.r.n
    [] OTHER -> f.acc

Result(f) ==
  CASE Kind(TypeOf(f)) = "List" -> f.acc /\ IsNull(f.l) /\ IsNull(f.r)
    [] Kind(TypeOf(f)) = "Enum" -> f.acc /\ f.l.n = f.r.n
    [] OTHER -> f.acc

(* Both parts are there to be loaded: neither a cell nor a payload is null *)
Loads(f) == f.at \in DOMAIN f.l.c /\ f.at \in DOMAIN f.r.c

(* Mutant: the tails are not followed.                                     *)
After_SameCell(f, equal) ==
  IF Kind(TypeOf(f)) = "List"
  THEN [f EXCEPT !.acc = @ /\ equal]
  ELSE [f EXCEPT !.at = @ + 1, !.acc = @ /\ equal]

After(f, equal) ==
  IF Kind(TypeOf(f)) = "List"
  THEN [f EXCEPT !.l = f.l.c[2], !.r = f.r.c[2], !.acc = @ /\ equal]
  ELSE [f EXCEPT !.at = @ + 1, !.acc = @ /\ equal]

Ask(i, l, r) ==
  /\ pc = "ready"
  /\ question' = <<asked[i], l, r>>
  /\ LET ref == code[Inline].refs[i]
     IN IF ref.helper = Inline
        THEN /\ answer' = ScalarEq(ref.t, l, r)
             /\ pc' = "answered"
             /\ frames' = frames
        ELSE /\ frames' = <<Call(ref.helper, l, r)>>
             /\ pc' = "run"
             /\ answer' = answer
  /\ UNCHANGED lowering

Walks == pc = "run" /\ ~Finished(Frame)

Loading(step) ==
  /\ frames' = IF Loads(Frame) THEN step ELSE frames
  /\ pc' = IF Loads(Frame) THEN pc ELSE "fault"
  /\ UNCHANGED <<lowering, question, answer>>

CompareScalars ==
  /\ Walks
  /\ FrameRef(Frame).helper = Inline
  /\ Loading([frames EXCEPT ![Len(frames)] =
       After(@, ScalarEq(FrameRef(Frame).t, Frame.l.c[Frame.at], Frame.r.c[Frame.at]))])

CallHelper ==
  /\ Walks
  /\ FrameRef(Frame).helper # Inline
  /\ Loading(Append(frames, Call(FrameRef(Frame).helper, Frame.l.c[Frame.at], Frame.r.c[Frame.at])))

Return ==
  /\ pc = "run"
  /\ Finished(Frame)
  /\ IF Len(frames) = 1
     THEN /\ answer' = Result(Frame)
          /\ frames' = <<>>
          /\ pc' = "answered"
     ELSE /\ frames' = [Front(frames) EXCEPT ![Len(frames) - 1] = After(@, Result(Frame))]
          /\ UNCHANGED <<answer, pc>>
  /\ UNCHANGED <<lowering, question>>

Running == CompareScalars \/ CallHelper \/ Return

Next ==
  \/ Lowering
  \/ \E i \in DOMAIN asked : \E l, r \in Operands(Concrete(asked[i])) : Ask(i, l, r)
  \/ Running

Spec == Init /\ [][Next]_vars /\ WF_vars(Lowering \/ Running)

-----------------------------------------------------------------------------
(* What the theorems ask of the parameters *)

(* Lowering stays within the types: a concrete type stays what it is.      *)
Closed(Types, programs) ==
  /\ programs \subseteq Seq(Types)
  /\ \A t \in Types :
       /\ Concrete(t) \in Types
       /\ Concrete(Concrete(t)) = Concrete(t)
       /\ IsAggregate(Concrete(t)) => Parts(Concrete(t)) \in Seq(Types)

(* The types of a value's components.                                      *)
Inside(t, v) ==
  CASE Kind(t) = "List" -> IF IsNull(v) THEN <<>> ELSE <<Parts(t)[1], t>>
    [] Kind(t) = "Enum" -> VariantFields(t)[v.n]
    [] OTHER -> Parts(t)

(* The term that a value of the type is.                                   *)
IsTerm(t, v) ==
  /\ v = [k |-> v.k, n |-> v.n, c |-> v.c]
  /\ IsScalar(t) => v.k = "scalar" /\ v.c = <<>>
  /\ Kind(t) = "List" => v.k \in {"nil", "cell"} /\ v.n = 0
  /\ Kind(t) = "Enum" => v.k = "enum" /\ v.n \in DOMAIN VariantFields(t)
  /\ Kind(t) \in {"Rec", "Tuple"} => v.k = "struct" /\ v.n = 0

(* Values of the concrete types, with every component of a value, and NaN  *)
(* in a value where it is in a component.                                  *)
Valued(Types, Values) ==
  \A t \in {Concrete(u) : u \in Types} :
    /\ Operands(t) \subseteq Values[t]
    /\ Kind(t) = "List" => Len(Parts(t)) = 1
    /\ Kind(t) = "Enum" => /\ VariantFields(t) \in Seq(Seq(Types))
                          /\ Parts(t) = FlattenSeq(VariantFields(t))
    /\ \A v \in Values[t] :
         /\ IsTerm(t, v)
         /\ IsScalar(t) => (HasNaN(t, v) <=> IsNaN(t, v))
         /\ IsAggregate(t) =>
              /\ v.c = [i \in DOMAIN Inside(t, v) |-> v.c[i]]
              /\ \A i \in DOMAIN v.c : v.c[i] \in Values[Concrete(Inside(t, v)[i])]
              /\ HasNaN(t, v) <=> \E i \in DOMAIN v.c : HasNaN(Concrete(Inside(t, v)[i]), v.c[i])

-----------------------------------------------------------------------------
(* Properties *)

(***************************************************************************)
(* A type has one helper, which is emitted once, and every helper that is  *)
(* called is there in the end and compares values of the type it is called *)
(* for, although helpers are called before they are emitted.               *)
(***************************************************************************)
OneHelperPerType ==
  /\ \A t, u \in DOMAIN registry : registry[t] = registry[u] => t = u
  /\ counter = Cardinality(DOMAIN registry)
  /\ \A i, j \in DOMAIN pending : pending[i].helper = pending[j].helper => i = j
  /\ \A i \in DOMAIN pending : pending[i].helper \notin DOMAIN code
  /\ pc \notin {"lower", "refused"} =>
       \A h \in DOMAIN code : \A i \in DOMAIN code[h].refs :
         LET ref == code[h].refs[i]
         IN ref.helper # Inline => ref.helper \in DOMAIN code /\ code[ref.helper].t = ref.t

(***************************************************************************)
(* The answer of the compiled `==` is structural equality: two values are  *)
(* equal that are the same term, and have no NaN in them.  So the loop     *)
(* over lists tells a prefix from the whole, and the helper of one type is *)
(* never called for another.                                               *)
(***************************************************************************)
StructurallyEqual(t, l, r) == l = r /\ ~HasNaN(t, l)

AnswersEquality ==
  pc = "answered" =>
    answer = StructurallyEqual(Concrete(question[1]), question[2], question[3])

(***************************************************************************)
(* Lowering comes to an end, and so does every comparison, with an answer: *)
(* no load through a null pointer stops it ("fault"), because the loop     *)
(* stops at the end of either list and no payload is looked at but of two  *)
(* values of one variant that has fields.                                  *)
(***************************************************************************)
Ends ==
  /\ (pc = "lower") ~> (pc # "lower")
  /\ (pc = "run") ~> (pc = "answered")
=============================================================================
